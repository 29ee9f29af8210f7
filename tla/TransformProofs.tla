-------------------------- MODULE TransformProofs --------------------------
(***************************************************************************)
(* What pj_transform hands out, for any set of coordinate systems and any   *)
(* number of points.                                                        *)
(*                                                                          *)
(* IInv says at every stage in which frame the points that are still alive  *)
(* stand (Standing), which systems can have come to it (Way), and what a    *)
(* call that has returned was given (InCall).                               *)
(***************************************************************************)
EXTENDS Transform, TLAPS

(* The datums there are, and the values of one field of the systems.        *)
Datums == {Native(s) : s \in System} \cup {WGS84, Lost}
Names(field) == {s[field] : s \in System} \cup {""}
(* The frames a point can stand in.                                         *)
Shape  == [form : Kinds, datum : Datums, pm : Names("pm"), unit : Names("unit"),
           zunit : Names("unit"), turned : BOOLEAN]

(* Every point is dead or in such a frame.                                  *)
Shaped == pts \in Seq(Shape \cup {HUGE})

(* A call in progress, or returned and not collected, has two systems.      *)
InCall == pc # "idle" \/ dst # NULL => src \in System /\ dst \in System

(* The stages pj_datum_transform runs through once it has work to do.       *)
DatumStages == {"shiftsrc", "geocentric", "towgs84", "fromwgs84", "geodetic", "shiftdst"}

(* Neither datum is PJD_UNKNOWN.                                            *)
Known(s, d) == s.type # "unknown" /\ d.type # "unknown"

(* Which calls can have come to a stage.                                    *)
Way ==
  /\ pc # "idle" => ret = 0
  /\ pc = "inverse" => src.kind = "projected"
  /\ pc = "forward" => dst.kind = "projected"
  /\ pc \in DatumStages => Known(src, dst)

(* Between systems s and d a point is on the datum it should be on, unless  *)
(* a grid shift has left points out (u) or one of the datums is unknown.    *)
Placed(p, s, d, u, datum) ==
  IF Known(s, d) THEN u \/ p.datum = datum ELSE p.datum = Native(s)

(* The frame of one point.                                                  *)
At(p, s, d, u, form, pm, unit, datum) ==
  /\ p \in Shape
  /\ p.form = form /\ p.pm = pm /\ p.unit = unit
  /\ Placed(p, s, d, u, datum)

(* The points as they stand between two stages.                             *)
AllAt(form, pm, unit, datum) ==
  \A j \in Live : At(pts[j], src, dst, unserved, form, pm, unit, datum)

(* As they stand between the two halves of the datum shift.                 *)
LatLongOn(datum) == AllAt("latlong", "", "", datum)

(* While one point after the other is projected.                            *)
HalfAt(before, after, pm, unit, datum) ==
  \A j \in Live : At(pts[j], src, dst, unserved, IF j < i THEN after ELSE before, pm, unit, datum)

(* The datum a system's own is moved to or from by grids; parameters move   *)
(* it in geocentric coordinates.                                            *)
Via(s) == IF ByParams(s) THEN Native(s) ELSE WGS84

(* The frame of the points before every stage.                              *)
Standing ==
  /\ pc = "source"     => AllAt(src.kind, src.pm, Frame(src).unit, Native(src))
  /\ pc = "inverse"    => HalfAt("projected", "latlong", src.pm, "", Native(src))
  /\ pc = "greenwich"  => AllAt("latlong", src.pm, "", Native(src))
  /\ pc = "datum"      => AllAt("latlong", "", "", Native(src))
  /\ pc = "shiftsrc"   => AllAt("latlong", "", "", Native(src))
  /\ pc = "geocentric" => AllAt("latlong", "", "", Via(src))
  /\ pc = "towgs84"    => AllAt("geocent", "", "", Via(src))
  /\ pc = "fromwgs84"  => AllAt("geocent", "", "", WGS84)
  /\ pc = "geodetic"   => AllAt("geocent", "", "", Via(dst))
  /\ pc = "shiftdst"   => AllAt("latlong", "", "", Via(dst))
  /\ pc = "meridian"   => AllAt("latlong", "", "", Native(dst))
  /\ pc = "target"     => AllAt("latlong", dst.pm, "", Native(dst))
  /\ pc = "forward"    => HalfAt("latlong", "projected", dst.pm, "", Native(dst))

(* The inductive invariant.                                                 *)
IInv == TypeOK /\ Shaped /\ InCall /\ Way /\ Standing /\ ArrivesOnSuccess
-----------------------------------------------------------------------------
(* Systems and single points                                                *)

(* The fields of a system are of their types, and its datum is not Lost.    *)
LEMMA SystemFacts ==
  ASSUME NEW s \in System
  PROVE  /\ s.kind \in Kinds /\ s.type \in DatumTypes
         /\ s.pm \in Names("pm") /\ s.unit \in Names("unit")
         /\ Native(s) \in Datums /\ Native(s) # Lost /\ Native(s).ell = s.ell
         /\ s.type = "wgs84" => Native(s) = WGS84
BY SystemAssumption, LostAssumption DEF IsSystem, Native, WGS84, Datums, Names

(* The datum between the halves of the shift lies on the ellipsoid that a   *)
(* grid shift ends on.                                                      *)
LEMMA ViaFacts ==
  ASSUME NEW s \in System, s.type # "unknown"
  PROVE  /\ Via(s) \in Datums /\ Via(s) # Lost /\ Via(s).ell = ShiftedEll(s)
         /\ ~ByParams(s) => Via(s) = WGS84
<1>1. WGS84 \in Datums /\ WGS84 # Lost /\ WGS84.ell = "WGS84"
  BY LostAssumption DEF WGS84, Datums
<1>2. s.type \in {"3param", "7param", "gridshift", "wgs84"}
  BY SystemAssumption DEF IsSystem, DatumTypes
<1>3. s.type = "wgs84" => s.ell = "WGS84"
  BY SystemAssumption DEF IsSystem
<1> QED BY <1>1, <1>2, <1>3, SystemFacts DEF Via, ByParams, ShiftedEll

(* What a system's coordinates are when they come in.                       *)
LEMMA FrameAt ==
  ASSUME NEW s \in System, NEW d \in System, NEW u \in BOOLEAN
  PROVE  At(Frame(s), s, d, u, s.kind, s.pm, Frame(s).unit, Native(s))
<1>1. "" \in Names("unit")
  BY DEF Names
<1>2. Frame(s) \in Shape
  BY <1>1, SystemFacts DEF Frame, Shape
<1> QED BY <1>2 DEF At, Placed, Frame

(* Conversions on the ellipsoid a point stands on keep its datum.           *)
LEMMA Converted ==
  ASSUME NEW s, NEW d, NEW u, NEW p, NEW from, NEW pm, NEW datum \in Datums, NEW form \in Kinds,
         datum # Lost,
         Known(s, d) \/ datum = Native(s),
         At(p, s, d, u, from, pm, "", datum)
  PROVE  At(OnEllipsoid(p, datum.ell, form), s, d, u, form, pm, "", datum)
<1> DEFINE q == OnEllipsoid(p, datum.ell, form)
<1>1. p \in Shape /\ p.unit = "" /\ p.pm = pm
  BY DEF At
<1>2. p.datum \in Datums /\ Lost \in Datums
  BY <1>1 DEF Shape, Datums
<1>3. q = [p EXCEPT !.form = form, !.datum = q.datum] /\ q.datum \in Datums
  BY <1>1, <1>2 DEF OnEllipsoid, Shape
<1>4. q \in Shape /\ q.form = form /\ q.pm = pm /\ q.unit = ""
  BY <1>1, <1>3 DEF Shape
<1>5. p.datum = datum => q.datum = datum
  BY <1>1 DEF OnEllipsoid, Shape
<1> HIDE DEF q
<1>6. Placed(q, s, d, u, datum)
  BY <1>5 DEF At, Placed
<1> QED BY <1>4, <1>6 DEF At, q

(* A move from the datum a point stands on takes it to the other.           *)
LEMMA Moved ==
  ASSUME NEW s, NEW d, NEW u, NEW p, NEW form, NEW from, NEW to \in Datums,
         Known(s, d),
         At(p, s, d, u, form, "", "", from)
  PROVE  At(Move(p, from, to, form), s, d, u, form, "", "", to)
<1> DEFINE q == Move(p, from, to, form)
<1>1. p \in Shape /\ p.unit = "" /\ p.pm = "" /\ p.form = form
  BY DEF At
<1>2. Lost \in Datums
  BY DEF Datums
<1>3. q \in Shape /\ q.form = form /\ q.pm = "" /\ q.unit = ""
  BY <1>1, <1>2 DEF Move, Shape
<1>4. p.datum = from => q.datum = to
  BY <1>1 DEF Move, Shape
<1> HIDE DEF q
<1>5. Placed(q, s, d, u, to)
  BY <1>4 DEF At, Placed
<1> QED BY <1>3, <1>5 DEF At, q

(* The other steps change one field each.                                   *)
LEMMA FieldsChanged ==
  ASSUME NEW s, NEW d, NEW u, NEW p, NEW form, NEW pm, NEW unit, NEW datum,
         At(p, s, d, u, form, pm, unit, datum)
  PROVE  /\ At(Scale(p), s, d, u, form, pm, "", datum)
         /\ At(InverseProjected(p), s, d, u, "latlong", pm, unit, datum)
         /\ At(ForwardProjected(p), s, d, u, "projected", pm, unit, datum)
         /\ At(ToGreenwich(p), s, d, u, form, "", unit, datum)
         /\ dst \in System => At(ToMeridian(p), s, d, u, form, dst.pm, unit, datum)
<1>1. p \in Shape /\ p.form = form /\ p.pm = pm /\ p.unit = unit
  BY DEF At
<1>2. "" \in Names("unit") /\ "" \in Names("pm") /\ "latlong" \in Kinds /\ "projected" \in Kinds
  BY DEF Kinds, Names
<1>3. Placed(p, s, d, u, datum)
  BY DEF At
<1>4. /\ Scale(p) \in Shape /\ Scale(p).form = form /\ Scale(p).pm = pm
      /\ Scale(p).unit = "" /\ Scale(p).datum = p.datum
  BY <1>1, <1>2 DEF Scale, Shape
<1>5. /\ InverseProjected(p) \in Shape /\ InverseProjected(p).form = "latlong"
      /\ InverseProjected(p).pm = pm /\ InverseProjected(p).unit = unit
      /\ InverseProjected(p).datum = p.datum
  BY <1>1, <1>2 DEF InverseProjected, Shape
<1>6. /\ ForwardProjected(p) \in Shape /\ ForwardProjected(p).form = "projected"
      /\ ForwardProjected(p).pm = pm /\ ForwardProjected(p).unit = unit
      /\ ForwardProjected(p).datum = p.datum
  BY <1>1, <1>2 DEF ForwardProjected, Shape
<1>7. /\ ToGreenwich(p) \in Shape /\ ToGreenwich(p).form = form
      /\ ToGreenwich(p).pm = "" /\ ToGreenwich(p).unit = unit
      /\ ToGreenwich(p).datum = p.datum
  BY <1>1, <1>2 DEF ToGreenwich, Shape
<1>8. dst \in System =>
      /\ ToMeridian(p) \in Shape /\ ToMeridian(p).form = form
      /\ ToMeridian(p).pm = dst.pm /\ ToMeridian(p).unit = unit
      /\ ToMeridian(p).datum = p.datum
  BY <1>1, SystemFacts DEF ToMeridian, Shape
<1>9. \A q : q.datum = p.datum => Placed(q, s, d, u, datum)
  BY <1>3 DEF Placed
<1> QED BY <1>4, <1>5, <1>6, <1>7, <1>8, <1>9 DEF At

-----------------------------------------------------------------------------
(* The array after a stage                                                  *)

(* A stage that leaves each point dead or in some frame keeps the array one *)
(* of points.                                                               *)
LEMMA PointwiseShaped ==
  ASSUME Shaped, pts' = [j \in DOMAIN pts |-> pts'[j]],
         \A j \in DOMAIN pts : pts'[j] \in Shape \cup {HUGE}
  PROVE  Shaped' /\ Len(pts') = Len(pts) /\ DOMAIN pts' = DOMAIN pts
<1>1. DOMAIN pts = 1..Len(pts) /\ Len(pts) \in Nat
  BY DEF Shaped
<1>2. pts' \in [1..Len(pts) -> Shape \cup {HUGE}]
  BY <1>1
<1>3. pts' \in Seq(Shape \cup {HUGE}) /\ Len(pts') = Len(pts)
  BY <1>1, <1>2
<1> QED BY <1>1, <1>3 DEF Shaped

(* No point comes before the first.                                         *)
LEMMA FromOneOn == ASSUME Shaped PROVE \A j \in Live : ~(j < 1)
BY DEF Live, Shaped

(* What holds of each point after a stage holds of all.                     *)
LEMMA AllSome ==
  ASSUME Shaped, UNCHANGED <<src, dst>>, pts' = [j \in DOMAIN pts |-> pts'[j]],
         NEW form, NEW pm, NEW unit, NEW datum,
         \A j \in DOMAIN pts :
           pts'[j] = HUGE \/ At(pts'[j], src, dst, unserved', form, pm, unit, datum)
  PROVE  /\ Shaped' /\ Len(pts') = Len(pts)
         /\ \A j \in Live' : At(pts'[j], src', dst', unserved', form, pm, unit, datum)
<1>1. \A j \in DOMAIN pts : pts'[j] \in Shape \cup {HUGE}
  BY DEF At
<1>2. Shaped' /\ Len(pts') = Len(pts) /\ DOMAIN pts' = DOMAIN pts
  BY <1>1, PointwiseShaped
<1> QED BY <1>2 DEF Live

(* A stage that takes every live point to its frame has taken them all      *)
(* there.                                                                   *)
LEMMA EachAt ==
  ASSUME Shaped, UNCHANGED <<src, dst, unserved>>,
         NEW stepped, NEW form, NEW pm, NEW unit, NEW datum, pts' = Each(stepped),
         \A j \in Live : At(stepped[j], src, dst, unserved, form, pm, unit, datum)
  PROVE  /\ Shaped' /\ Len(pts') = Len(pts)
         /\ \A j \in Live' : At(pts'[j], src', dst', unserved', form, pm, unit, datum)
<1>1. pts' = [j \in DOMAIN pts |-> pts'[j]]
  BY DEF Each
<1>2. \A j \in DOMAIN pts : pts'[j] = IF j \in Live THEN stepped[j] ELSE HUGE
  BY DEF Each
<1>3. \A j \in DOMAIN pts :
        pts'[j] = HUGE \/ At(pts'[j], src, dst, unserved', form, pm, unit, datum)
  BY <1>2
<1> QED BY <1>1, <1>3, AllSome

(* The points at the stage a call goes to, and that they are as many.       *)
Onward == Shaped' /\ Len(pts') = Len(pts) /\ Standing'

-----------------------------------------------------------------------------
(* Up to the datum shift                                                    *)

(* The stages before the loop around pj_inv.                                *)
LEMMA FromSource ==
  ASSUME IInv, SourceGeocentric \/ SourceLatLong \/ SourceProjected
  PROVE  Onward
<1>1. /\ pc = "source" /\ src \in System /\ dst \in System /\ Shaped
      /\ UNCHANGED <<src, dst, unserved>>
  BY DEF IInv, InCall, SourceGeocentric, SourceLatLong, SourceProjected, args
<1>2. AllAt(src.kind, src.pm, Frame(src).unit, Native(src))
  BY <1>1 DEF IInv, Standing
<1>3. CASE SourceGeocentric
  <2> DEFINE stepped == [j \in Live |-> OnEllipsoid(IF src.unit = "" THEN pts[j] ELSE Scale(pts[j]),
                                                    src.ell, "latlong")]
  <2>1. pts' = Each(stepped) /\ pc' = "greenwich" /\ src.kind = "geocent"
    BY <1>3 DEF SourceGeocentric, Goto
  <2>2. ASSUME NEW j \in Live
        PROVE  At(stepped[j], src, dst, unserved, "latlong", src.pm, "", Native(src))
    <3>1. At(pts[j], src, dst, unserved, "geocent", src.pm, src.unit, Native(src))
      BY <1>2, <2>1 DEF AllAt, Frame
    <3>2. At(IF src.unit = "" THEN pts[j] ELSE Scale(pts[j]),
             src, dst, unserved, "geocent", src.pm, "", Native(src))
      BY <3>1, FieldsChanged
    <3>3. "latlong" \in Kinds
      BY DEF Kinds
    <3> QED BY <1>1, <3>2, <3>3, Converted, SystemFacts
  <2> HIDE DEF stepped
  <2>3. /\ Shaped' /\ Len(pts') = Len(pts)
        /\ \A j \in Live' : At(pts'[j], src', dst', unserved', "latlong", src.pm, "", Native(src))
    BY <1>1, <2>1, <2>2, EachAt
  <2> QED BY <1>1, <2>1, <2>3 DEF Onward, Standing, AllAt
<1>4. CASE SourceLatLong
  <2>1. pc' = "greenwich" /\ src.kind = "latlong" /\ Frame(src).unit = "" /\ pts' = pts
    BY <1>4 DEF SourceLatLong, Goto, Frame
  <2> QED BY <1>1, <1>2, <2>1 DEF Onward, Standing, AllAt, Shaped, Live
<1>5. CASE SourceProjected
  <2>1. /\ pc' = "inverse" /\ src.kind = "projected" /\ Frame(src).unit = "" /\ pts' = pts
        /\ i' = 1
    BY <1>5 DEF SourceProjected, Goto, Frame
  <2>2. \A j \in Live : ~(j < 1)
    BY <1>1 DEF Live, Shaped
  <2> QED BY <1>1, <1>2, <2>1, <2>2 DEF Onward, Standing, AllAt, HalfAt, Shaped, Live
<1> QED BY <1>3, <1>4, <1>5

(* A turn of a loop that ends the call.                                     *)
GivenUp == \E code \in Codes : CallFails(code)

(* A turn of the loops around pj_inv and pj_fwd, for one and for the other. *)
LEMMA LoopTurn ==
  ASSUME IInv, UNCHANGED <<src, dst, unserved>>, pc # "idle",
         NEW before, NEW after, NEW pm, NEW unit, NEW datum, NEW next, pc # next, NEW stepped,
         HalfAt(before, after, pm, unit, datum),
         \A k \in Live : k = i => At(stepped, src, dst, unserved, after, pm, unit, datum),
         LoopEnds(next) \/ FailedBefore \/ Projected(stepped)
           \/ \E code \in Codes : PointFails(code) \/ CallFails(code)
  PROVE  /\ Shaped' /\ Len(pts') = Len(pts)
         /\ pc' = next /\ ~GivenUp =>
              \A j \in Live' : At(pts'[j], src', dst', unserved', after, pm, unit, datum)
         /\ pc' = pc => \A j \in Live' : At(pts'[j], src', dst', unserved',
                                            IF j < i' THEN after ELSE before, pm, unit, datum)
<1>1. Shaped /\ i \in Nat /\ DOMAIN pts = 1..Len(pts) /\ Len(pts) \in Nat
  <2>1. Shaped /\ i \in 1..MaxPoints + 1
    BY DEF IInv, TypeOK
  <2>2. DOMAIN pts = 1..Len(pts) /\ Len(pts) \in Nat
    BY <2>1 DEF Shaped
  <2> QED BY <2>1, <2>2, PointsAssumption
<1>2. CASE LoopEnds(next)
  <2>1. pts' = pts /\ pc' = next /\ \A j \in Live : j < i
    BY <1>1, <1>2 DEF LoopEnds, Live, Goto
  <2> QED BY <1>1, <2>1 DEF HalfAt, Shaped, Live
<1>3. CASE FailedBefore
  <2>1. pts' = pts /\ pc' = pc /\ i' = i + 1 /\ i \notin Live
    BY <1>3 DEF FailedBefore, Live
  <2>2. \A j \in Live : (j < i) <=> (j < i')
    BY <1>1, <2>1 DEF Live
  <2> QED BY <1>1, <2>1, <2>2 DEF HalfAt, Shaped, Live
<1>4. ASSUME i \in Live, NEW q \in Shape \cup {HUGE}, pts' = [pts EXCEPT ![i] = q], i' = i + 1,
             pc' = pc, q = HUGE \/ q = stepped
      PROVE  /\ Shaped' /\ Len(pts') = Len(pts)
             /\ \A j \in Live' : At(pts'[j], src', dst', unserved',
                                    IF j < i' THEN after ELSE before, pm, unit, datum)
  <2>1. Shaped' /\ Len(pts') = Len(pts) /\ DOMAIN pts' = DOMAIN pts
    <3>1. \A j \in DOMAIN pts : pts[j] \in Shape \cup {HUGE}
      BY <1>1 DEF Shaped
    <3>2. pts' = [j \in DOMAIN pts |-> pts'[j]]
      BY <1>4
    <3>3. \A j \in DOMAIN pts : pts'[j] \in Shape \cup {HUGE}
      BY <1>4, <3>1
    <3> QED BY <1>1, <3>2, <3>3, PointwiseShaped
  <2> SUFFICES ASSUME NEW j \in Live'
               PROVE  At(pts'[j], src', dst', unserved', IF j < i' THEN after ELSE before, pm, unit, datum)
    BY <2>1
  <2>2. j \in DOMAIN pts /\ pts'[j] # HUGE /\ j \in Nat
    BY <1>1, <2>1 DEF Live
  <2>3. CASE j = i
    <3>1. pts'[j] = stepped /\ j < i'
      BY <1>1, <1>4, <2>2, <2>3
    <3> QED BY <1>4, <3>1
  <2>4. CASE j # i
    <3>1. pts'[j] = pts[j] /\ j \in Live /\ ((j < i') <=> (j < i))
      BY <1>1, <1>4, <2>2, <2>4 DEF Live
    <3> QED BY <3>1 DEF HalfAt
  <2> QED BY <2>3, <2>4
<1>5. CASE Projected(stepped)
  <2>1. i \in Live /\ pts' = [pts EXCEPT ![i] = stepped] /\ i' = i + 1 /\ pc' = pc
    BY <1>5 DEF Projected
  <2>2. stepped \in Shape
    BY <2>1 DEF At
  <2> QED BY <1>4, <2>1, <2>2
<1>6. CASE \E code \in Codes : PointFails(code)
  <2>1. i \in Live /\ pts' = [pts EXCEPT ![i] = HUGE] /\ i' = i + 1 /\ pc' = pc
    BY <1>6 DEF PointFails
  <2> QED BY <1>4, <2>1
<1>7. CASE GivenUp
  <2>1. pts' = pts /\ pc' = "idle"
    BY <1>7 DEF GivenUp, CallFails, Return, Goto
  <2> QED BY <1>1, <1>7, <2>1 DEF Shaped
<1> QED BY <1>2, <1>3, <1>5, <1>6, <1>7 DEF GivenUp

(* The loop around pj_inv.                                                  *)
LEMMA FromInverse == ASSUME IInv, InverseProject PROVE Onward
<1>1. /\ pc = "inverse" /\ Shaped /\ UNCHANGED <<src, dst, unserved>>
      /\ HalfAt("projected", "latlong", src.pm, "", Native(src))
  BY DEF IInv, Standing, InverseProject, Project, args
<1> DEFINE stepped == InverseProjected(pts[i])
<1>2. \A k \in Live : k = i => At(stepped, src, dst, unserved, "latlong", src.pm, "", Native(src))
  BY <1>1, FieldsChanged DEF HalfAt
<1>3. LoopEnds("greenwich") \/ FailedBefore \/ Projected(stepped)
        \/ \E code \in Codes : PointFails(code) \/ CallFails(code)
  BY DEF InverseProject, Project
<1> HIDE DEF stepped
<1>4. pc' \in {"greenwich", "inverse", "idle"}
  BY <1>1, <1>3 DEF LoopEnds, FailedBefore, Projected, PointFails, CallFails, Return, Goto
<1>5. /\ pc' = "greenwich" => ~GivenUp
      /\ pc # "idle" /\ pc # "greenwich"
  BY <1>1 DEF GivenUp, CallFails, Return, Goto
<1>6. /\ Shaped' /\ Len(pts') = Len(pts)
      /\ pc' = "greenwich" =>
           \A j \in Live' : At(pts'[j], src', dst', unserved', "latlong", src.pm, "", Native(src))
      /\ pc' = pc => \A j \in Live' : At(pts'[j], src', dst', unserved',
                                         IF j < i' THEN "latlong" ELSE "projected",
                                         src.pm, "", Native(src))
  BY <1>1, <1>2, <1>3, <1>5, LoopTurn
<1> QED BY <1>1, <1>4, <1>6 DEF Onward, Standing, AllAt, HalfAt

(* The prime meridian of the source.                                        *)
LEMMA FromGreenwich == ASSUME IInv, Greenwich PROVE Onward
<1>1. /\ pc = "greenwich" /\ Shaped /\ UNCHANGED <<src, dst, unserved>>
      /\ AllAt("latlong", src.pm, "", Native(src)) /\ pc' = "datum"
  BY DEF IInv, Standing, Greenwich, args, Goto
<1>2. CASE src.pm = ""
  <2>1. pts' = pts
    BY <1>2 DEF Greenwich
  <2> QED BY <1>1, <1>2, <2>1 DEF Onward, Standing, AllAt, Shaped, Live
<1>3. CASE src.pm # ""
  <2> DEFINE stepped == [j \in Live |-> ToGreenwich(pts[j])]
  <2>1. pts' = Each(stepped)
    BY <1>3 DEF Greenwich
  <2>2. \A j \in Live : At(stepped[j], src, dst, unserved, "latlong", "", "", Native(src))
    BY <1>1, FieldsChanged DEF AllAt
  <2> HIDE DEF stepped
  <2>3. /\ Shaped' /\ Len(pts') = Len(pts)
        /\ \A j \in Live' : At(pts'[j], src', dst', unserved', "latlong", "", "", Native(src))
    BY <1>1, <2>1, <2>2, EachAt
  <2> QED BY <1>1, <2>3 DEF Onward, Standing, AllAt
<1> QED BY <1>2, <1>3

-----------------------------------------------------------------------------
(* The datum shift                                                          *)

(* pj_compare_datums says TRUE of equal datums only.                        *)
LEMMA SameDatumIsSame ==
  ASSUME src \in System, dst \in System, src.type # "unknown", SameDatum(src, dst)
  PROVE  Native(src) = Native(dst)
<1>1. src.type \in {"3param", "7param", "gridshift"} => src.params = dst.params
  BY DEF SameDatum
<1>2. src.type = "wgs84" => src.params = dst.params
  BY SystemAssumption DEF IsSystem, SameDatum
<1>3. src.type \in {"3param", "7param", "gridshift", "wgs84"}
  BY SystemAssumption DEF IsSystem, DatumTypes
<1> QED BY <1>1, <1>2, <1>3 DEF SameDatum, Native

(* Where pj_datum_transform begins.                                         *)
LEMMA FromDatum == ASSUME IInv, DatumTransform PROVE Onward
<1>1. /\ pc = "datum" /\ Shaped /\ UNCHANGED <<src, dst, unserved, pts>>
      /\ src \in System /\ dst \in System
      /\ AllAt("latlong", "", "", Native(src))
  BY DEF IInv, Standing, DatumTransform, args, InCall
<1>2. CASE "unknown" \in {src.type, dst.type}
  <2>1. pc' = "meridian"
    BY <1>2 DEF DatumTransform, Goto
  <2> QED BY <1>1, <1>2, <2>1 DEF Onward, Standing, AllAt, At, Placed, Known, Shaped, Live
<1>3. CASE "unknown" \notin {src.type, dst.type} /\ SameDatum(src, dst)
  <2>1. pc' = "meridian"
    BY <1>3 DEF DatumTransform, Goto
  <2>2. Native(src) = Native(dst)
    BY <1>1, <1>3, SameDatumIsSame
  <2> QED BY <1>1, <2>1, <2>2 DEF Onward, Standing, AllAt, Shaped, Live
<1>4. CASE "unknown" \notin {src.type, dst.type} /\ ~SameDatum(src, dst)
  <2>1. pc' = "shiftsrc"
    BY <1>4 DEF DatumTransform, Goto
  <2> QED BY <1>1, <2>1 DEF Onward, Standing, AllAt, Shaped, Live
<1> QED BY <1>2, <1>3, <1>4

(* A grid shift serves the points it does not leave out.                    *)
LEMMA Shifted ==
  ASSUME Shaped, UNCHANGED <<src, dst>>, Known(src, dst),
         NEW from, NEW to \in Datums, LatLongOn(from), GridShifted(from, to)
  PROVE  /\ Shaped' /\ Len(pts') = Len(pts)
         /\ \A j \in Live' : At(pts'[j], src', dst', unserved', "latlong", "", "", to)
<1> DEFINE shifted == Each([j \in Live |-> Move(pts[j], from, to, "latlong")])
<1>1. PICK k \in DOMAIN pts \cup {0} :
        /\ pts' = [j \in DOMAIN pts |-> IF j <= k THEN shifted[j] ELSE pts[j]]
        /\ unserved' = (unserved \/ \E j \in Live : j > k)
  BY DEF GridShifted
<1>2. pts' = [j \in DOMAIN pts |-> pts'[j]]
  BY <1>1
<1> HIDE DEF shifted
<1>3. ASSUME NEW j \in DOMAIN pts
      PROVE  pts'[j] = HUGE \/ At(pts'[j], src, dst, unserved', "latlong", "", "", to)
  <2>1. j \in Nat /\ k \in Nat
    <3>1. DOMAIN pts = 1..Len(pts) /\ Len(pts) \in Nat
      BY DEF Shaped
    <3> QED BY <1>1, <1>3, <3>1
  <2>2. CASE j \notin Live
    <3>1. shifted[j] = HUGE /\ pts[j] = HUGE
      BY <2>2 DEF Each, Live, shifted
    <3> QED BY <1>1, <3>1
  <2>3. CASE j \in Live /\ j <= k
    <3>1. pts'[j] = Move(pts[j], from, to, "latlong")
      BY <1>1, <2>3 DEF Each, shifted
    <3>2. At(pts[j], src, dst, unserved, "latlong", "", "", from)
      BY <2>3 DEF AllAt, LatLongOn
    <3>3. At(pts'[j], src, dst, unserved, "latlong", "", "", to)
      BY <3>1, <3>2, Moved
    <3>4. unserved => unserved'
      BY <1>1
    <3> QED BY <3>3, <3>4 DEF At, Placed
  <2>4. CASE j \in Live /\ ~(j <= k)
    <3>1. pts'[j] = pts[j]
      BY <1>1, <2>4
    <3>2. j > k
      BY <2>1, <2>4
    <3>3. unserved'
      BY <1>1, <2>4, <3>2, Zenon
    <3>4. At(pts[j], src, dst, unserved, "latlong", "", "", from)
      BY <2>4 DEF AllAt, LatLongOn
    <3> QED BY <3>1, <3>3, <3>4 DEF At, Placed
  <2> QED BY <2>2, <2>3, <2>4
<1> QED BY <1>2, <1>3, AllSome

(* The grid shifts at both ends.                                            *)
LEMMA FromShift == ASSUME IInv, ShiftSource \/ ShiftDestination PROVE Onward
<1>1. /\ Shaped /\ UNCHANGED <<src, dst>> /\ src \in System /\ dst \in System
      /\ Known(src, dst)
  BY DEF IInv, Way, DatumStages, InCall, ShiftSource, ShiftDestination, args
<1>2. /\ Native(src) \in Datums /\ Native(dst) \in Datums /\ WGS84 \in Datums
  BY <1>1, SystemFacts DEF Datums
<1>3. /\ src.type = "gridshift" => Via(src) = WGS84
      /\ dst.type = "gridshift" => Via(dst) = WGS84
      /\ src.type # "gridshift" => Via(src) = Native(src)
      /\ dst.type # "gridshift" => Via(dst) = Native(dst)
  <2>1. \A s \in System : s.type # "unknown" =>
          s.type \in {"3param", "7param", "gridshift", "wgs84"}
    BY SystemFacts DEF DatumTypes
  <2> QED BY <1>1, <2>1, SystemFacts DEF Via, ByParams, Known
<1>4. CASE ShiftSource
  <2>1. pc = "shiftsrc" /\ pc' = "geocentric" /\ AllAt("latlong", "", "", Native(src)) /\ LatLongOn(Native(src))
    BY <1>4 DEF ShiftSource, Goto, IInv, Standing, LatLongOn
  <2>2. CASE src.type = "gridshift"
    <3>1. GridShifted(Native(src), WGS84)
      BY <1>4, <2>2 DEF ShiftSource
    <3>2. /\ Shaped' /\ Len(pts') = Len(pts)
          /\ \A j \in Live' : At(pts'[j], src', dst', unserved', "latlong", "", "", WGS84)
      BY <1>1, <1>2, <2>1, <3>1, Shifted
    <3> QED BY <1>1, <1>3, <2>1, <2>2, <3>2 DEF Onward, Standing, AllAt
  <2>3. CASE src.type # "gridshift"
    <3>1. UNCHANGED <<pts, unserved>>
      BY <1>4, <2>3 DEF ShiftSource
    <3> QED BY <1>1, <1>3, <2>1, <2>3, <3>1 DEF Onward, Standing, AllAt, Shaped, Live
  <2> QED BY <2>2, <2>3
<1>5. CASE ShiftDestination
  <2>1. pc = "shiftdst" /\ pc' = "meridian" /\ AllAt("latlong", "", "", Via(dst)) /\ LatLongOn(Via(dst))
    BY <1>5 DEF ShiftDestination, Goto, IInv, Standing, LatLongOn
  <2>2. CASE dst.type = "gridshift"
    <3>1. GridShifted(WGS84, Native(dst))
      BY <1>5, <2>2 DEF ShiftDestination
    <3>2. /\ Shaped' /\ Len(pts') = Len(pts)
          /\ \A j \in Live' : At(pts'[j], src', dst', unserved', "latlong", "", "", Native(dst))
      BY <1>1, <1>2, <1>3, <2>1, <2>2, <3>1, Shifted
    <3> QED BY <1>1, <2>1, <3>2 DEF Onward, Standing, AllAt
  <2>3. CASE dst.type # "gridshift"
    <3>1. UNCHANGED <<pts, unserved>>
      BY <1>5, <2>3 DEF ShiftDestination
    <3> QED BY <1>1, <1>3, <2>1, <2>3, <3>1 DEF Onward, Standing, AllAt, Shaped, Live
  <2> QED BY <2>2, <2>3
<1> QED BY <1>4, <1>5

(* The two systems of a datum shift, and where each stage takes points.     *)
LEMMA ShiftFacts ==
  ASSUME IInv, pc \in DatumStages
  PROVE  /\ Shaped /\ src \in System /\ dst \in System /\ Known(src, dst)
         /\ Via(src) \in Datums /\ Via(src) # Lost /\ Via(src).ell = ShiftedEll(src)
         /\ Via(dst) \in Datums /\ Via(dst) # Lost /\ Via(dst).ell = ShiftedEll(dst)
         /\ ~ByParams(src) => Via(src) = WGS84
         /\ ~ByParams(dst) => Via(dst) = WGS84
         /\ ByParams(src) => Via(src) = Native(src)
         /\ ByParams(dst) => Via(dst) = Native(dst)
         /\ WGS84 \in Datums
<1>1. pc # "idle"
  BY DEF DatumStages
<1>2. Shaped /\ src \in System /\ dst \in System /\ Known(src, dst)
  BY <1>1 DEF IInv, InCall, Way
<1> QED BY <1>2, ViaFacts DEF Known, Via, Datums

(* Into geocentric coordinates, or past them.                               *)
LEMMA FromGeocentric ==
  ASSUME IInv, SkipGeocentric \/ Geocentric
  PROVE  Onward
<1>1. pc = "geocentric" /\ pc \in DatumStages /\ AllAt("latlong", "", "", Via(src))
  BY DEF IInv, Standing, SkipGeocentric, Geocentric, DatumStages
<1>2. UNCHANGED <<src, dst, unserved>>
  BY DEF SkipGeocentric, Geocentric, args
<1>3. CASE SkipGeocentric
  <2>1. pc' = "shiftdst" /\ pts' = pts /\ ~ByParams(src) /\ ~ByParams(dst)
    BY <1>3 DEF SkipGeocentric, Goto
  <2>2. Via(src) = Via(dst)
    BY <1>1, <2>1, ShiftFacts
  <2> QED BY <1>1, <1>2, <2>1, <2>2, ShiftFacts DEF Onward, Standing, AllAt, Shaped, Live
<1>4. CASE Geocentric
  <2>1. PICK bad \in SUBSET Live : ToGeocentric(ShiftedEll(src), bad)
    BY <1>4 DEF Geocentric
  <2>2. pc' = "towgs84"
    BY <1>4 DEF Geocentric, Goto
  <2>3. /\ pts' = [j \in DOMAIN pts |-> pts'[j]]
        /\ \A j \in DOMAIN pts :
             pts'[j] = IF j \notin Live \/ j \in bad THEN HUGE
                       ELSE OnEllipsoid(pts[j], ShiftedEll(src), "geocent")
    BY <2>1 DEF ToGeocentric
  <2>4. "geocent" \in Kinds
    BY DEF Kinds
  <2>5. ASSUME NEW j \in Live
        PROVE  At(OnEllipsoid(pts[j], ShiftedEll(src), "geocent"),
                  src, dst, unserved, "geocent", "", "", Via(src))
    <3>1. At(pts[j], src, dst, unserved, "latlong", "", "", Via(src))
      BY <1>1 DEF AllAt
    <3> QED BY <1>1, <2>4, <3>1, ShiftFacts, Converted
  <2>6. \A j \in DOMAIN pts :
          pts'[j] = HUGE \/ At(pts'[j], src, dst, unserved', "geocent", "", "", Via(src))
    BY <1>2, <2>3, <2>5
  <2>7. /\ Shaped' /\ Len(pts') = Len(pts)
        /\ \A j \in Live' : At(pts'[j], src', dst', unserved', "geocent", "", "", Via(src))
    BY <1>1, <1>2, <2>3, <2>6, ShiftFacts, AllSome
  <2> QED BY <1>2, <2>2, <2>7 DEF Onward, Standing, AllAt
<1> QED BY <1>3, <1>4

(* The moves by three or seven parameters.                                  *)
LEMMA ByParameters ==
  ASSUME IInv, ToWGS84 \/ FromWGS84
  PROVE  Onward
<1>1. UNCHANGED <<src, dst, unserved>> /\ pc \in DatumStages
  BY DEF ToWGS84, FromWGS84, args, DatumStages
<1>2. CASE ToWGS84
  <2>1. pc = "towgs84" /\ pc' = "fromwgs84" /\ AllAt("geocent", "", "", Via(src))
    BY <1>2 DEF ToWGS84, Goto, IInv, Standing
  <2>2. CASE ByParams(src)
    <3> DEFINE stepped == [j \in Live |-> Move(pts[j], Native(src), WGS84, "geocent")]
    <3>1. pts' = Each(stepped)
      BY <1>2, <2>2 DEF ToWGS84
    <3>2. \A j \in Live : At(pts[j], src, dst, unserved, "geocent", "", "", Native(src))
      BY <1>1, <2>1, <2>2, ShiftFacts DEF AllAt
    <3>3. \A j \in Live : At(stepped[j], src, dst, unserved, "geocent", "", "", WGS84)
      BY <1>1, <3>2, ShiftFacts, Moved DEF Known
    <3> HIDE DEF stepped
    <3>4. /\ Shaped' /\ Len(pts') = Len(pts)
          /\ \A j \in Live' : At(pts'[j], src', dst', unserved', "geocent", "", "", WGS84)
      BY <1>1, <3>1, <3>3, ShiftFacts, EachAt
    <3> QED BY <2>1, <3>4 DEF Onward, Standing, AllAt
  <2>3. CASE ~ByParams(src)
    <3>1. pts' = pts /\ Via(src) = WGS84 /\ Shaped
      BY <1>1, <1>2, <2>3, ShiftFacts DEF ToWGS84
    <3> QED BY <1>1, <2>1, <3>1 DEF Onward, Standing, AllAt, Shaped, Live
  <2> QED BY <2>2, <2>3
<1>3. CASE FromWGS84
  <2>1. pc = "fromwgs84" /\ pc' = "geodetic" /\ AllAt("geocent", "", "", WGS84)
    BY <1>3 DEF FromWGS84, Goto, IInv, Standing
  <2>2. CASE ByParams(dst)
    <3> DEFINE stepped == [j \in Live |-> Move(pts[j], WGS84, Native(dst), "geocent")]
    <3>1. pts' = Each(stepped)
      BY <1>3, <2>2 DEF FromWGS84
    <3>2. Native(dst) \in Datums
      BY <1>1, <2>2, ShiftFacts
    <3>3. \A j \in Live : At(pts[j], src, dst, unserved, "geocent", "", "", WGS84)
      BY <2>1 DEF AllAt
    <3>4. \A j \in Live : At(stepped[j], src, dst, unserved, "geocent", "", "", Native(dst))
      BY <1>1, <3>2, <3>3, ShiftFacts, Moved DEF Known
    <3> HIDE DEF stepped
    <3>5. /\ Shaped' /\ Len(pts') = Len(pts)
          /\ \A j \in Live' : At(pts'[j], src', dst', unserved', "geocent", "", "", Native(dst))
      BY <1>1, <3>1, <3>4, ShiftFacts, EachAt
    <3> QED BY <1>1, <2>1, <2>2, <3>5, ShiftFacts DEF Onward, Standing, AllAt
  <2>3. CASE ~ByParams(dst)
    <3>1. pts' = pts /\ Via(dst) = WGS84 /\ Shaped
      BY <1>1, <1>3, <2>3, ShiftFacts DEF FromWGS84
    <3> QED BY <1>1, <2>1, <3>1 DEF Onward, Standing, AllAt, Shaped, Live
  <2> QED BY <2>2, <2>3
<1> QED BY <1>2, <1>3

(* Out of geocentric coordinates.                                           *)
LEMMA FromGeodetic == ASSUME IInv, Geodetic PROVE Onward
<1>1. /\ pc = "geodetic" /\ pc \in DatumStages /\ AllAt("geocent", "", "", Via(dst))
      /\ pc' = "shiftdst" /\ UNCHANGED <<src, dst, unserved>>
  BY DEF IInv, Standing, Geodetic, DatumStages, args, Goto
<1> DEFINE stepped == [j \in Live |-> OnEllipsoid(pts[j], ShiftedEll(dst), "latlong")]
<1>2. pts' = Each(stepped) /\ "latlong" \in Kinds
  BY DEF Geodetic, Kinds
<1>3. \A j \in Live : At(pts[j], src, dst, unserved, "geocent", "", "", Via(dst))
  BY <1>1 DEF AllAt
<1>4. \A j \in Live : At(stepped[j], src, dst, unserved, "latlong", "", "", Via(dst))
  BY <1>1, <1>2, <1>3, ShiftFacts, Converted
<1> HIDE DEF stepped
<1>5. /\ Shaped' /\ Len(pts') = Len(pts)
      /\ \A j \in Live' : At(pts'[j], src', dst', unserved', "latlong", "", "", Via(dst))
  BY <1>1, <1>2, <1>4, ShiftFacts, EachAt
<1> QED BY <1>1, <1>5 DEF Onward, Standing, AllAt

-----------------------------------------------------------------------------
(* After the datum shift                                                    *)

(* The prime meridian of the destination.                                   *)
LEMMA FromMeridian == ASSUME IInv, Meridian PROVE Onward
<1>1. /\ pc = "meridian" /\ Shaped /\ UNCHANGED <<src, dst, unserved>> /\ dst \in System
      /\ AllAt("latlong", "", "", Native(dst)) /\ pc' = "target"
  BY DEF IInv, Standing, Meridian, args, Goto, InCall
<1>2. CASE dst.pm = ""
  <2>1. pts' = pts
    BY <1>2 DEF Meridian
  <2> QED BY <1>1, <1>2, <2>1 DEF Onward, Standing, AllAt, Shaped, Live
<1>3. CASE dst.pm # ""
  <2> DEFINE stepped == [j \in Live |-> ToMeridian(pts[j])]
  <2>1. pts' = Each(stepped)
    BY <1>3 DEF Meridian
  <2>2. \A j \in Live : At(stepped[j], src, dst, unserved, "latlong", dst.pm, "", Native(dst))
    BY <1>1, FieldsChanged DEF AllAt
  <2> HIDE DEF stepped
  <2>3. /\ Shaped' /\ Len(pts') = Len(pts)
        /\ \A j \in Live' : At(pts'[j], src', dst', unserved', "latlong", dst.pm, "", Native(dst))
    BY <1>1, <2>1, <2>2, EachAt
  <2> QED BY <1>1, <2>3 DEF Onward, Standing, AllAt
<1> QED BY <1>2, <1>3

(* On to the loop around pj_fwd.                                            *)
LEMMA ToForward == ASSUME IInv, TargetProjected PROVE Onward
<1>1. /\ pc = "target" /\ Shaped /\ UNCHANGED <<src, dst, unserved, pts>>
      /\ AllAt("latlong", dst.pm, "", Native(dst)) /\ pc' = "forward" /\ i' = 1
  BY DEF IInv, Standing, TargetProjected, args, Goto
<1>2. \A j \in Live : ~(j < 1)
  BY <1>1, FromOneOn
<1>3. \A j \in Live' : /\ ~(j < 1)
                        /\ At(pts'[j], src', dst', unserved', "latlong", dst'.pm, "", Native(dst'))
  BY <1>1, <1>2 DEF AllAt, Live
<1> QED BY <1>1, <1>3 DEF Onward, Standing, HalfAt, Shaped

(* A point in the destination's frame has arrived.                          *)
ArrivedAt(p, s, d, u) == At(p, s, d, u, d.kind, d.pm, Frame(d).unit, Native(d))

(* A call that returns with its points arrived keeps what it promised.      *)
LEMMA Arriving ==
  ASSUME \A j \in Live' : ArrivedAt(pts'[j], src', dst', unserved')
  PROVE  ArrivesOnSuccess'
BY DEF ArrivesOnSuccess, ArrivedAt, At, Placed, Known, KnownDatums, InFrame, Frame

(* The loop around pj_fwd.                                                  *)
LEMMA FromForward ==
  ASSUME IInv, ForwardProject
  PROVE  Onward /\ (pc' = "idle" => ArrivesOnSuccess')
<1>1. /\ pc = "forward" /\ Shaped /\ UNCHANGED <<src, dst, unserved>>
      /\ HalfAt("latlong", "projected", dst.pm, "", Native(dst))
  BY DEF IInv, Standing, ForwardProject, Project, args
<1> DEFINE stepped == ForwardProjected(pts[i])
<1>2. \A k \in Live : k = i => At(stepped, src, dst, unserved, "projected", dst.pm, "", Native(dst))
  BY <1>1, FieldsChanged DEF HalfAt
<1>3. LoopEnds("idle") \/ FailedBefore \/ Projected(stepped)
        \/ \E code \in Codes : PointFails(code) \/ CallFails(code)
  BY DEF ForwardProject, Project
<1> HIDE DEF stepped
<1>4. pc' \in {"idle", "forward"}
  BY <1>1, <1>3 DEF LoopEnds, FailedBefore, Projected, PointFails, CallFails, Return, Goto
<1>5. pc # "idle"
  BY <1>1
<1>6. /\ Shaped' /\ Len(pts') = Len(pts)
      /\ pc' = "idle" /\ ~GivenUp =>
           \A j \in Live' : At(pts'[j], src', dst', unserved', "projected", dst.pm, "", Native(dst))
      /\ pc' = pc => \A j \in Live' : At(pts'[j], src', dst', unserved',
                                         IF j < i' THEN "projected" ELSE "latlong",
                                         dst.pm, "", Native(dst))
  <2> DEFINE none == "" geo == "latlong" flat == "projected" end == "idle"
  <2>1. /\ HalfAt(geo, flat, dst.pm, none, Native(dst))
        /\ \A k \in Live : k = i => At(stepped, src, dst, unserved, flat, dst.pm, none, Native(dst))
        /\ LoopEnds(end) \/ FailedBefore \/ Projected(stepped)
             \/ \E code \in Codes : PointFails(code) \/ CallFails(code)
        /\ pc # end
    BY <1>1, <1>2, <1>3, <1>5
  <2> HIDE DEF none, geo, flat, end
  <2>2. /\ Shaped' /\ Len(pts') = Len(pts)
        /\ pc' = end /\ ~GivenUp =>
             \A j \in Live' : At(pts'[j], src', dst', unserved', flat, dst.pm, none, Native(dst))
        /\ pc' = pc => \A j \in Live' : At(pts'[j], src', dst', unserved',
                                           IF j < i' THEN flat ELSE geo, dst.pm, none, Native(dst))
    BY <1>1, <1>5, <2>1, LoopTurn
  <2> QED BY <2>2 DEF none, geo, flat, end
<1>7. Onward
  BY <1>1, <1>4, <1>6 DEF Onward, Standing, AllAt, HalfAt
<1>8. CASE GivenUp
  <2>1. ret' # 0
    BY <1>8 DEF GivenUp, CallFails, Fatal, Return
  <2> QED BY <1>7, <2>1 DEF ArrivesOnSuccess, Done
<1>9. ASSUME pc' = "idle", ~GivenUp PROVE ArrivesOnSuccess'
  <2>1. Frame(dst').unit = "" /\ dst'.kind = "projected"
    BY <1>1 DEF Frame, IInv, Way
  <2>2. \A j \in Live' : ArrivedAt(pts'[j], src', dst', unserved')
    BY <1>1, <1>6, <1>9, <2>1 DEF ArrivedAt
  <2> QED BY <2>2, Arriving
<1> QED BY <1>7, <1>8, <1>9

(* The end of a call whose destination is geographic.                       *)
LEMMA ToLatLong ==
  ASSUME IInv, TargetLatLong
  PROVE  Onward /\ ArrivesOnSuccess'
<1>1. /\ pc = "target" /\ Shaped /\ UNCHANGED <<src, dst, unserved>> /\ pc' = "idle"
      /\ AllAt("latlong", dst.pm, "", Native(dst)) /\ dst.kind = "latlong" /\ Frame(dst).unit = ""
  BY DEF IInv, Standing, TargetLatLong, args, Return, Goto, Frame
<1>2. CASE dst.wrap = 0
  <2>1. pts' = pts
    BY <1>2 DEF TargetLatLong
  <2>2. \A j \in Live' : ArrivedAt(pts'[j], src', dst', unserved')
    BY <1>1, <2>1 DEF AllAt, ArrivedAt, Live
  <2>3. Onward
    BY <1>1, <2>1 DEF Onward, Standing, Shaped
  <2> QED BY <2>2, <2>3, Arriving
<1>3. CASE dst.wrap # 0
  <2>1. PICK lon \in [DOMAIN pts -> Longitudes] :
          pts' = [j \in DOMAIN pts |->
                    IF pts[j] = HUGE THEN HUGE
                    ELSE [pts[j] EXCEPT !.turned = (Rewrapped(lon[j], dst.wrap) - lon[j]) % 4 # 0]]
    BY <1>3 DEF TargetLatLong
  <2>2. pts' = [j \in DOMAIN pts |-> pts'[j]]
    BY <2>1
  <2>3. ASSUME NEW j \in Live, NEW b \in BOOLEAN
        PROVE  At([pts[j] EXCEPT !.turned = b], src, dst, unserved, "latlong", dst.pm, "", Native(dst))
    <3>1. At(pts[j], src, dst, unserved, "latlong", dst.pm, "", Native(dst))
      BY <1>1 DEF AllAt
    <3> QED BY <3>1 DEF At, Placed, Shape
  <2>4. ASSUME NEW j \in DOMAIN pts
        PROVE  pts'[j] = HUGE \/ At(pts'[j], src, dst, unserved', "latlong", dst.pm, "", Native(dst))
    <3> DEFINE b == (Rewrapped(lon[j], dst.wrap) - lon[j]) % 4 # 0
    <3>1. b \in BOOLEAN
      OBVIOUS
    <3>2. pts'[j] = IF pts[j] = HUGE THEN HUGE ELSE [pts[j] EXCEPT !.turned = b]
      BY <2>1
    <3> HIDE DEF b
    <3> QED BY <1>1, <2>3, <3>1, <3>2 DEF Live
  <2>5. /\ Shaped' /\ Len(pts') = Len(pts)
        /\ \A j \in Live' : At(pts'[j], src', dst', unserved', "latlong", dst.pm, "", Native(dst))
    BY <1>1, <2>2, <2>4, AllSome
  <2>6. \A j \in Live' : ArrivedAt(pts'[j], src', dst', unserved')
    BY <1>1, <2>5 DEF ArrivedAt
  <2> QED BY <1>1, <2>5, <2>6, Arriving DEF Onward, Standing
<1> QED BY <1>2, <1>3

(* With an unknown datum the conversion may lose it, and nothing else.      *)
LEMMA ConvertedOrLost ==
  ASSUME NEW p \in Shape, NEW ell, NEW form \in Kinds
  PROVE  LET q == OnEllipsoid(p, ell, form)
         IN  q \in Shape /\ q.form = form /\ q.pm = p.pm /\ q.unit = p.unit /\ q.datum \in {p.datum, Lost}
<1> DEFINE q == OnEllipsoid(p, ell, form)
<1>1. q.datum \in {p.datum, Lost} /\ Lost \in Datums /\ p.datum \in Datums
  BY DEF OnEllipsoid, Shape, Datums
<1>2. q = [p EXCEPT !.form = form, !.datum = q.datum]
  BY DEF OnEllipsoid, Shape
<1>3. q \in Shape /\ q.form = form /\ q.pm = p.pm /\ q.unit = p.unit
  BY <1>1, <1>2 DEF Shape
<1> QED BY <1>1, <1>3

(* So does the conversion to geocentric coordinates.                        *)
LEMMA GeocentOrLost ==
  ASSUME NEW p \in Shape, NEW ell
  PROVE  LET q == OnEllipsoid(p, ell, "geocent")
         IN  /\ q \in Shape /\ q.form = "geocent" /\ q.pm = p.pm /\ q.unit = p.unit
             /\ q.datum \in {p.datum, Lost}
<1>1. "geocent" \in Kinds
  BY DEF Kinds
<1> QED BY <1>1, ConvertedOrLost, Zenon

(* The end of a call whose destination is geocentric.                       *)
LEMMA ToGeocent ==
  ASSUME IInv, TargetGeocentric
  PROVE  Onward /\ ArrivesOnSuccess'
<1>1. /\ pc = "target" /\ Shaped /\ UNCHANGED <<src, dst, unserved>> /\ pc' = "idle"
      /\ src \in System /\ dst \in System
      /\ AllAt("latlong", dst.pm, "", Native(dst)) /\ dst.kind = "geocent"
      /\ "geocent" \in Kinds
  BY DEF IInv, Standing, InCall, TargetGeocentric, args, Return, Goto, Kinds
<1>2. dst.unit \in Names("unit") /\ Native(dst).ell = dst.ell /\ Native(dst) # Lost /\ Native(dst) \in Datums
  BY <1>1, SystemFacts
<1> DEFINE ended(j) == LET p == OnEllipsoid(pts[j], dst.ell, "geocent")
                       IN  IF dst.unit = "" THEN p ELSE Unscale(p)
<1>3. /\ pts' = [j \in DOMAIN pts |-> pts'[j]]
      /\ \A j \in DOMAIN pts : pts'[j] = HUGE \/ (j \in Live /\ pts'[j] = ended(j))
  BY DEF TargetGeocentric
<1>4. ASSUME NEW j \in Live
      PROVE  /\ ended(j) \in Shape /\ ended(j).form = "geocent" /\ ended(j).pm = dst.pm
             /\ ended(j).unit = dst.unit
             /\ ended(j).datum = OnEllipsoid(pts[j], dst.ell, "geocent").datum
             /\ ended(j).datum \in {pts[j].datum, Lost}
  <2> DEFINE p == OnEllipsoid(pts[j], dst.ell, "geocent")
  <2>1. pts[j] \in Shape /\ pts[j].pm = dst.pm /\ pts[j].unit = ""
    BY <1>1 DEF AllAt, At
  <2>2. /\ p \in Shape /\ p.form = "geocent" /\ p.pm = dst.pm /\ p.unit = ""
        /\ p.datum \in {pts[j].datum, Lost}
    BY <2>1, GeocentOrLost, Zenon
  <2> HIDE DEF p
  <2>3. ended(j) = IF dst.unit = "" THEN p ELSE Unscale(p)
    BY DEF p
  <2>4. CASE dst.unit = ""
    BY <2>2, <2>3, <2>4 DEF p
  <2>5. CASE dst.unit # ""
    <3>1. /\ Unscale(p) \in Shape /\ Unscale(p).form = "geocent" /\ Unscale(p).pm = dst.pm
          /\ Unscale(p).unit = dst.unit /\ Unscale(p).datum = p.datum
      BY <1>2, <2>2 DEF Unscale, Shape
    <3> QED BY <2>2, <2>3, <2>5, <3>1 DEF p
  <2> QED BY <2>4, <2>5
<1> HIDE DEF ended
<1>5. Shaped' /\ Len(pts') = Len(pts) /\ DOMAIN pts' = DOMAIN pts
  BY <1>1, <1>3, <1>4, PointwiseShaped
<1>6. Onward
  BY <1>1, <1>5 DEF Onward, Standing
<1>7. \A j \in Live' : j \in Live /\ pts'[j] = ended(j)
  BY <1>3, <1>5 DEF Live
<1>8. Frame(dst).unit = dst.unit
  BY <1>1 DEF Frame
<1>9. CASE Known(src, dst)
  <2>1. ASSUME NEW j \in Live
        PROVE  unserved \/ ended(j).datum = Native(dst)
    <3>1. At(pts[j], src, dst, unserved, "latlong", dst.pm, "", Native(dst))
      BY <1>1 DEF AllAt
    <3>2. At(OnEllipsoid(pts[j], dst.ell, "geocent"), src, dst, unserved, "geocent", dst.pm, "", Native(dst))
      BY <1>1, <1>2, <1>9, <3>1, Converted
    <3> QED BY <1>4, <1>9, <3>2 DEF At, Placed
  <2>2. \A j \in Live' : ArrivedAt(pts'[j], src', dst', unserved')
    BY <1>1, <1>4, <1>7, <1>8, <1>9, <2>1 DEF ArrivedAt, At, Placed
  <2> QED BY <1>6, <2>2, Arriving
<1>10. CASE ~Known(src, dst)
  <2>1. ASSUME NEW j \in Live
        PROVE  /\ ended(j).form = dst.kind /\ ended(j).pm = dst.pm
               /\ ended(j).datum \in {Native(src), Lost}
    <3>1. pts[j].datum = Native(src)
      BY <1>1, <1>10 DEF AllAt, At, Placed
    <3> QED BY <1>1, <1>4, <3>1
  <2>2. ~KnownDatums'
    BY <1>1, <1>10 DEF Known, KnownDatums
  <2>3. \A j \in Live' : /\ pts'[j].form = dst'.kind /\ pts'[j].pm = dst'.pm
                         /\ pts'[j].datum \in {Native(src'), Lost}
    BY <1>1, <1>7, <2>1
  <2> QED BY <1>6, <2>2, <2>3 DEF ArrivesOnSuccess
<1> QED BY <1>9, <1>10

-----------------------------------------------------------------------------
(* The inductive invariant                                                  *)

(* Before the first call.                                                   *)
LEMMA InitIInv == Init => IInv
<1> SUFFICES ASSUME Init PROVE IInv
  OBVIOUS
<1>1. pts = <<>> /\ Shaped /\ Len(pts) = 0 /\ Live = {}
  BY DEF Init, Shaped, Live
<1>2. TypeOK
  <2>1. i \in 1..MaxPoints + 1 /\ Len(pts) <= MaxPoints
    BY <1>1, PointsAssumption DEF Init
  <2>2. hasZ \in BOOLEAN /\ unserved \in BOOLEAN
    BY DEF Init
  <2>3. errno \in Codes /\ ret \in Codes /\ pc \in Stages
    BY DEF Init, Codes, Stages
  <2>4. src \in System \cup {NULL} /\ dst \in System \cup {NULL}
    BY DEF Init
  <2>5. \A j \in DOMAIN pts : pts[j] = HUGE \/ pts[j].form \in Kinds
    BY <1>1
  <2> QED BY <2>1, <2>2, <2>3, <2>4, <2>5 DEF TypeOK
<1>3. InCall /\ Way /\ Standing /\ ArrivesOnSuccess
  BY DEF Init, InCall, Way, Standing, DatumStages, ArrivesOnSuccess, Done
<1> QED BY <1>1, <1>2, <1>3 DEF IInv

(* Every stage hands the points on in the frame the next one is meant for.  *)
LEMMA StepOnward == ASSUME IInv, Step PROVE Onward
<1>1. CASE GeocentricNeedsZ \/ SourceNotInvertible \/ TargetNeedsZ
  <2>1. pc' = "idle" /\ pts' = pts
    BY <1>1 DEF GeocentricNeedsZ, SourceNotInvertible, TargetNeedsZ, Return, Goto
  <2> QED BY <2>1 DEF IInv, Onward, Standing, Shaped
<1> QED BY <1>1, FromSource, FromInverse, FromGreenwich, FromDatum, FromShift, FromGeocentric,
           ByParameters, FromGeodetic, FromMeridian, ToForward, FromForward, ToLatLong, ToGeocent
        DEF Step, SourceStep, DatumStep, TargetStep

(* Whatever step ends a call, it ends as promised.                          *)
LEMMA StepArrives == ASSUME IInv, Step PROVE ArrivesOnSuccess'
<1>1. CASE GeocentricNeedsZ \/ SourceNotInvertible \/ TargetNeedsZ
  <2>1. ret' # 0
    BY <1>1 DEF GeocentricNeedsZ, SourceNotInvertible, TargetNeedsZ, Return, PJD_ERR_GEOCENTRIC
  <2> QED BY <2>1 DEF ArrivesOnSuccess, Done
<1>2. CASE InverseProject
  <2>1. pc' # "idle" \/ ret' # 0
    BY <1>2 DEF InverseProject, Project, LoopEnds, FailedBefore, Projected, PointFails, CallFails,
                Fatal, Return, Goto
  <2> QED BY <2>1 DEF ArrivesOnSuccess, Done
<1>3. CASE SourceGeocentric \/ SourceLatLong \/ SourceProjected \/ Greenwich \/ DatumStep \/ Meridian
           \/ TargetProjected
  <2>1. pc' # "idle"
    BY <1>3 DEF SourceGeocentric, SourceLatLong, SourceProjected, Greenwich, DatumStep,
                DatumTransform, ShiftSource, SkipGeocentric, Geocentric, ToWGS84, FromWGS84,
                Geodetic, ShiftDestination, Meridian, TargetProjected, Goto
  <2> QED BY <2>1 DEF ArrivesOnSuccess, Done
<1>4. CASE ForwardProject
  BY <1>4, FromForward DEF ArrivesOnSuccess, Done
<1> QED BY <1>1, <1>2, <1>3, <1>4, ToLatLong, ToGeocent DEF Step, SourceStep, TargetStep

(* Points with a shape have a form.                                         *)
LEMMA ShapedForms ==
  ASSUME NEW q, \A j \in DOMAIN q : q[j] \in Shape \cup {HUGE}
  PROVE  \A j \in DOMAIN q : q[j] = HUGE \/ q[j].form \in Kinds
BY DEF Shape

(* Where a step goes.                                                       *)
Goes ==
  /\ pc # "idle" /\ pc' \in Stages
  /\ UNCHANGED <<src, dst, hasZ>>
  /\ i' = 1 \/ (i' = i + 1 /\ (i \in Live \/ i <= Len(pts)))
  /\ pc' # "idle" => ret' = ret
  /\ pc' = "inverse" => pc = "inverse" \/ src.kind = "projected"
  /\ pc' = "forward" => pc = "forward" \/ dst.kind = "projected"
  /\ pc' \in DatumStages => pc \in DatumStages \/ Known(src, dst)

(* Every step goes on so.                                                   *)
LEMMA StepGoes == ASSUME Step PROVE Goes
<1>1. CASE InverseProject \/ ForwardProject
  BY <1>1 DEF Goes, InverseProject, ForwardProject, Project, LoopEnds, FailedBefore, Projected,
              PointFails, CallFails, Return, Goto, Stages, DatumStages, args
<1>2. CASE GeocentricNeedsZ \/ SourceGeocentric \/ SourceLatLong \/ SourceNotInvertible
           \/ SourceProjected \/ Greenwich
  BY <1>2 DEF Goes, GeocentricNeedsZ, SourceGeocentric, SourceLatLong, SourceNotInvertible,
              SourceProjected, Greenwich, Return, Goto, Stages, DatumStages, args
<1>3. CASE DatumStep
  BY <1>3 DEF Goes, DatumStep, DatumTransform, ShiftSource, SkipGeocentric, Geocentric, ToWGS84,
              FromWGS84, Geodetic, ShiftDestination, Goto, Stages, DatumStages, Known, args
<1>4. CASE Meridian \/ TargetNeedsZ \/ TargetGeocentric \/ TargetProjected \/ TargetLatLong
  BY <1>4 DEF Goes, Meridian, TargetNeedsZ, TargetGeocentric, TargetProjected, TargetLatLong,
              Return, Goto, Stages, DatumStages, args
<1> QED BY <1>1, <1>2, <1>3, <1>4 DEF Step, SourceStep, TargetStep

(* Every step leaves codes pj_errno can have.                               *)
LEMMA StepCodes ==
  ASSUME TypeOK, Step
  PROVE  /\ errno' \in Codes \cup Transient /\ ret' \in Codes \cup Transient
         /\ unserved' \in BOOLEAN
<1>1. errno \in Codes \cup Transient /\ ret \in Codes \cup Transient /\ unserved \in BOOLEAN
  BY DEF TypeOK
<1>2. {0, -14, -17, NoTable, PJD_ERR_GEOCENTRIC} \subseteq Codes \cup Transient
  BY DEF Codes, Transient, NoTable, PJD_ERR_GEOCENTRIC
<1>3. CASE SourceStep
  BY <1>1, <1>2, <1>3
     DEF SourceStep, GeocentricNeedsZ, SourceGeocentric, SourceLatLong, SourceNotInvertible,
         SourceProjected, InverseProject, Greenwich, Project, LoopEnds, FailedBefore, Projected,
         PointFails, CallFails, Return, Goto
<1>4. CASE DatumStep
  <2>1. CASE ShiftSource \/ ShiftDestination
    BY <1>1, <1>2, <2>1 DEF ShiftSource, ShiftDestination, GridShifted, Goto
  <2>2. CASE DatumTransform \/ SkipGeocentric \/ Geocentric \/ ToWGS84 \/ FromWGS84 \/ Geodetic
    BY <1>1, <1>2, <2>2 DEF DatumTransform, SkipGeocentric, Geocentric, ToGeocentric, ToWGS84,
                            FromWGS84, Geodetic, Goto
  <2> QED BY <1>4, <2>1, <2>2 DEF DatumStep
<1>5. CASE TargetStep
  BY <1>1, <1>2, <1>5
     DEF TargetStep, Meridian, TargetNeedsZ, TargetGeocentric, TargetProjected, ForwardProject,
         TargetLatLong, Project, LoopEnds, FailedBefore, Projected, PointFails, CallFails, Return, Goto
<1> QED BY <1>3, <1>4, <1>5 DEF Step

(* Every step keeps the types.                                              *)
LEMMA StepTyped == ASSUME IInv, Step PROVE TypeOK' /\ Shaped'
<1>1. Shaped' /\ Len(pts') = Len(pts)
  BY StepOnward DEF Onward
<1>2. /\ i \in 1..MaxPoints + 1 /\ Len(pts) <= MaxPoints
      /\ src \in System \cup {NULL} /\ dst \in System \cup {NULL} /\ hasZ \in BOOLEAN
  BY DEF IInv, TypeOK
<1>3. \A j \in DOMAIN pts' : pts'[j] = HUGE \/ pts'[j].form \in Kinds
  BY <1>1, ShapedForms DEF Shaped
<1>4. i' \in 1..MaxPoints + 1
  <2>1. MaxPoints \in Nat /\ Len(pts) \in Nat /\ DOMAIN pts = 1..Len(pts)
    BY PointsAssumption DEF IInv, Shaped
  <2>2. i \in Live => i <= Len(pts)
    BY <2>1 DEF Live
  <2>3. i' = 1 \/ (i' = i + 1 /\ (i \in Live \/ i <= Len(pts)))
    BY StepGoes DEF Goes
  <2> QED BY <1>2, <2>1, <2>2, <2>3
<1>5. pc' \in Stages /\ UNCHANGED <<src, dst, hasZ>>
  BY StepGoes DEF Goes
<1>6. errno' \in Codes \cup Transient /\ ret' \in Codes \cup Transient /\ unserved' \in BOOLEAN
  BY StepCodes DEF IInv
<1> QED BY <1>1, <1>2, <1>3, <1>4, <1>5, <1>6 DEF TypeOK

(* Every step keeps to the ways there are.                                  *)
LEMMA StepWay == ASSUME IInv, Step PROVE InCall' /\ Way'
<1>1. Goes /\ InCall /\ Way
  BY StepGoes DEF IInv
<1>2. InCall'
  BY <1>1 DEF InCall, Goes
<1> QED BY <1>1, <1>2 DEF Way, Goes

(* A call begins with points in the frame of the source.                    *)
LEMMA CallIInv ==
  ASSUME IInv, NEW s \in System, NEW d \in System, NEW z \in BOOLEAN, NEW n \in 1..MaxPoints,
         NEW huge \in SUBSET (1..n), Call(s, d, z, n, huge)
  PROVE  IInv'
<1>1. /\ src' = s /\ dst' = d /\ hasZ' = z /\ errno' = 0 /\ ret' = 0 /\ unserved' = FALSE
      /\ i' = 1 /\ pc' = "source"
      /\ pts' = [j \in 1..n |-> IF j \in huge THEN HUGE ELSE Frame(s)]
  BY DEF Call, Goto
<1>2. n \in Nat /\ n <= MaxPoints
  BY PointsAssumption
<1>3. At(Frame(s), s, d, FALSE, s.kind, s.pm, Frame(s).unit, Native(s))
  BY FrameAt
<1>4. Frame(s) \in Shape
  BY <1>3 DEF At
<1>5. pts' \in Seq(Shape \cup {HUGE}) /\ Len(pts') = n /\ DOMAIN pts' = 1..n
  <2>1. pts' \in [1..n -> Shape \cup {HUGE}]
    BY <1>1, <1>4
  <2> QED BY <1>2, <2>1
<1>6. Shaped' /\ \A j \in Live' : pts'[j] = Frame(s)
  BY <1>1, <1>5 DEF Shaped, Live
<1>7. Standing'
  BY <1>1, <1>3, <1>6 DEF Standing, AllAt
<1>8. InCall' /\ Way' /\ ArrivesOnSuccess'
  BY <1>1 DEF InCall, Way, DatumStages, ArrivesOnSuccess, Done
<1>9. TypeOK'
  <2>1. i' \in 1..MaxPoints + 1 /\ Len(pts') <= MaxPoints
    BY <1>1, <1>2, <1>5, PointsAssumption
  <2>2. \A j \in DOMAIN pts' : pts'[j] = HUGE \/ pts'[j].form \in Kinds
    BY <1>6, ShapedForms DEF Shaped
  <2>3. errno' \in Codes /\ ret' \in Codes /\ pc' \in Stages
    BY <1>1 DEF Codes, Stages
  <2> QED BY <1>1, <2>1, <2>2, <2>3 DEF TypeOK
<1> QED BY <1>6, <1>7, <1>8, <1>9 DEF IInv

(* The caller takes the arrays.                                             *)
LEMMA CollectIInv == ASSUME IInv, Collect PROVE IInv'
<1>1. /\ src' = NULL /\ dst' = NULL /\ hasZ' = FALSE /\ pts' = <<>> /\ i' = 1
      /\ errno' = 0 /\ ret' = 0 /\ unserved' = FALSE /\ pc' = "idle"
  BY DEF Collect, Goto
<1>2. Shaped' /\ Len(pts') = 0
  BY <1>1 DEF Shaped
<1>3. InCall' /\ Way' /\ Standing' /\ ArrivesOnSuccess'
  BY <1>1 DEF InCall, Way, Standing, DatumStages, ArrivesOnSuccess, Done
<1>4. TypeOK'
  <2>1. i' \in 1..MaxPoints + 1 /\ Len(pts') <= MaxPoints
    BY <1>1, <1>2, PointsAssumption
  <2>2. \A j \in DOMAIN pts' : pts'[j] = HUGE \/ pts'[j].form \in Kinds
    BY <1>2, ShapedForms DEF Shaped
  <2>3. errno' \in Codes /\ ret' \in Codes /\ pc' \in Stages
    BY <1>1 DEF Codes, Stages
  <2> QED BY <1>1, <2>1, <2>2, <2>3 DEF TypeOK
<1> QED BY <1>2, <1>3, <1>4 DEF IInv

(* Nothing happens.                                                         *)
LEMMA StutterIInv == ASSUME IInv, UNCHANGED vars PROVE IInv'
<1>1. UNCHANGED <<src, dst, hasZ, pts, i, errno, ret, pc, unserved>>
  BY DEF vars, args
<1>2. TypeOK'
  BY <1>1 DEF IInv, TypeOK
<1>3. Shaped' /\ InCall' /\ Way'
  BY <1>1 DEF IInv, Shaped, InCall, Way
<1>4. Standing'
  <2>1. (pc = "source" => AllAt(src.kind, src.pm, Frame(src).unit, Native(src)))'
    BY <1>1, Zenon DEF IInv, Standing, AllAt, HalfAt, Live
  <2>2. (pc = "inverse" => HalfAt("projected", "latlong", src.pm, "", Native(src)))'
    BY <1>1, Zenon DEF IInv, Standing, AllAt, HalfAt, Live
  <2>3. (pc = "greenwich" => AllAt("latlong", src.pm, "", Native(src)))'
    BY <1>1, Zenon DEF IInv, Standing, AllAt, HalfAt, Live
  <2>4. (pc = "datum" => AllAt("latlong", "", "", Native(src)))'
    BY <1>1, Zenon DEF IInv, Standing, AllAt, HalfAt, Live
  <2>5. (pc = "shiftsrc" => AllAt("latlong", "", "", Native(src)))'
    BY <1>1, Zenon DEF IInv, Standing, AllAt, HalfAt, Live
  <2>6. (pc = "geocentric" => AllAt("latlong", "", "", Via(src)))'
    BY <1>1, Zenon DEF IInv, Standing, AllAt, HalfAt, Live
  <2>7. (pc = "towgs84" => AllAt("geocent", "", "", Via(src)))'
    BY <1>1, Zenon DEF IInv, Standing, AllAt, HalfAt, Live
  <2>8. (pc = "fromwgs84" => AllAt("geocent", "", "", WGS84))'
    BY <1>1, Zenon DEF IInv, Standing, AllAt, HalfAt, Live
  <2>9. (pc = "geodetic" => AllAt("geocent", "", "", Via(dst)))'
    BY <1>1, Zenon DEF IInv, Standing, AllAt, HalfAt, Live
  <2>10. (pc = "shiftdst" => AllAt("latlong", "", "", Via(dst)))'
    BY <1>1, Zenon DEF IInv, Standing, AllAt, HalfAt, Live
  <2>11. (pc = "meridian" => AllAt("latlong", "", "", Native(dst)))'
    BY <1>1, Zenon DEF IInv, Standing, AllAt, HalfAt, Live
  <2>12. (pc = "target" => AllAt("latlong", dst.pm, "", Native(dst)))'
    BY <1>1, Zenon DEF IInv, Standing, AllAt, HalfAt, Live
  <2>13. (pc = "forward" => HalfAt("latlong", "projected", dst.pm, "", Native(dst)))'
    BY <1>1, Zenon DEF IInv, Standing, AllAt, HalfAt, Live
  <2> QED BY <2>1, <2>2, <2>3, <2>4, <2>5, <2>6, <2>7, <2>8, <2>9, <2>10, <2>11, <2>12, <2>13, Zenon
          DEF Standing
<1>5. ArrivesOnSuccess'
  BY <1>1 DEF IInv, ArrivesOnSuccess, Done, KnownDatums, Live
<1> QED BY <1>2, <1>3, <1>4, <1>5 DEF IInv

-----------------------------------------------------------------------------
(* Theorems of the specification                                            *)

(* The strengthened invariant holds in every state of every run of calls.   *)
THEOREM Invariance == Spec => []IInv
<1>1. ASSUME IInv, [Next]_vars PROVE IInv'
  <2>1. CASE Step
    <3>1. Onward
      BY <1>1, <2>1, StepOnward
    <3> QED BY <1>1, <2>1, <3>1, StepTyped, StepWay, StepArrives DEF IInv, Onward
  <2>2. CASE \E s, d \in System, z \in BOOLEAN, n \in 1..MaxPoints :
               \E huge \in SUBSET (1..n) : Call(s, d, z, n, huge)
    BY <1>1, <2>2, CallIInv
  <2> QED BY <1>1, <2>1, <2>2, CollectIInv, StutterIInv DEF Next
<1> QED BY <1>1, InitIInv, PTL DEF Spec

(* Success means arrival, for every pair of systems and any points: each    *)
(* point that is not HUGE_VAL has the destination's form, datum, meridian   *)
(* and unit, unless a grid shift left points out.                           *)
THEOREM Arrives == Spec => []ArrivesOnSuccess
<1>1. IInv => ArrivesOnSuccess
  BY DEF IInv
<1> QED BY <1>1, Invariance, PTL

(* At every moment of a call the state is of its type, and the points of a  *)
(* call that is given up half way through a projection are a prefix in the  *)
(* next form and a rest in the previous one.                                *)
THEOREM Sound == Spec => []TransformSound
<1>1. IInv => TransformSound
  <2> SUFFICES ASSUME IInv, pc \in {"inverse", "forward"},
                      NEW j \in Live, NEW k \in Live, j < k
               PROVE  Depth(pts[j]) >= Depth(pts[k])
    BY DEF TransformSound, InOrder, IInv
  <2>1. j \in Nat /\ k \in Nat /\ i \in Nat
    <3>1. DOMAIN pts = 1..Len(pts) /\ Len(pts) \in Nat /\ i \in 1..MaxPoints + 1
      BY DEF IInv, Shaped, TypeOK
    <3> QED BY <3>1, PointsAssumption DEF Live
  <2>2. k < i => j < i
    BY <2>1
  <2>3. CASE pc = "inverse"
    <3>1. src.kind = "projected"
      BY <2>3 DEF IInv, Way
    <3>2. \A m \in Live : pts[m].form = IF m < i THEN "latlong" ELSE "projected"
      BY <2>3 DEF IInv, Standing, HalfAt, At
    <3>3. \A m \in Live : Depth(pts[m]) = IF m < i THEN 1 ELSE 0
      BY <2>3, <3>1, <3>2 DEF Depth
    <3> QED BY <2>2, <3>3
  <2>4. CASE pc = "forward"
    <3>1. \A m \in Live : pts[m].form = IF m < i THEN "projected" ELSE "latlong"
      BY <2>4 DEF IInv, Standing, HalfAt, At
    <3>2. \A m \in Live : Depth(pts[m]) = IF m < i THEN 2 ELSE 1
      BY <2>4, <3>1 DEF Depth
    <3> QED BY <2>2, <3>2
  <2> QED BY <2>3, <2>4
<1> QED BY <1>1, Invariance, PTL

(* A point that has failed stays HUGE_VAL through the rest of the call.     *)
THEOREM FailedForGood == Spec => HugeStays
<1>1. ASSUME IInv, [Next]_vars
      PROVE  [pc # "idle" => \A j \in DOMAIN pts : pts[j] = HUGE => pts'[j] = HUGE]_vars
  <2> SUFFICES ASSUME Step, NEW j \in DOMAIN pts, pts[j] = HUGE PROVE pts'[j] = HUGE
    BY <1>1 DEF Next, Call, Collect
  <2>1. j \notin Live
    BY DEF Live
  <2>2. CASE InverseProject \/ ForwardProject
    BY <2>1, <2>2 DEF InverseProject, ForwardProject, Project, LoopEnds, FailedBefore, Projected,
                      PointFails, CallFails
  <2>3. CASE SourceGeocentric \/ Greenwich \/ ToWGS84 \/ FromWGS84 \/ Geodetic \/ Meridian
    BY <2>1, <2>3 DEF SourceGeocentric, Greenwich, ToWGS84, FromWGS84, Geodetic, Meridian, Each
  <2>4. CASE Geocentric \/ TargetGeocentric \/ TargetLatLong
    BY <2>1, <2>4 DEF Geocentric, ToGeocentric, TargetGeocentric, TargetLatLong
  <2>5. CASE ShiftSource \/ ShiftDestination
    BY <2>1, <2>5 DEF ShiftSource, ShiftDestination, GridShifted, Each
  <2>6. CASE GeocentricNeedsZ \/ SourceLatLong \/ SourceNotInvertible \/ SourceProjected
             \/ DatumTransform \/ SkipGeocentric \/ TargetNeedsZ \/ TargetProjected
    BY <2>6 DEF GeocentricNeedsZ, SourceLatLong, SourceNotInvertible, SourceProjected,
                DatumTransform, SkipGeocentric, TargetNeedsZ, TargetProjected
  <2> QED BY <2>2, <2>3, <2>4, <2>5, <2>6 DEF Step, SourceStep, DatumStep, TargetStep
<1> QED BY <1>1, Invariance, PTL DEF Spec, HugeStays
=============================================================================
