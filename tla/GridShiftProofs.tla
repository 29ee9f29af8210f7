-------------------------- MODULE GridShiftProofs --------------------------
(***************************************************************************)
(* Invariance proofs for GridShift, for any grids, subgrids, places and     *)
(* numbers of points and tables.                                            *)
(*                                                                          *)
(* IInv strengthens the checked invariants with what the loops know:        *)
(*   Served     the points before ipoint are those that have been shifted;  *)
(*   Stopped    when a call has returned, its error number says whether it  *)
(*              reached the end, unless it never began;                     *)
(*   Tried      no table before itable could serve the current point;       *)
(*   Freed      only NTv1 data is ever freed and still pointed at.          *)
(***************************************************************************)
EXTENDS GridShift, Induction

Served ==
  /\ \A j \in DOMAIN points : points[j].by # NULL <=> j < ipoint
  /\ \A j \in DOMAIN points : points[j].by # NULL => points[j].loc # HUGE
  /\ phase = "table" => ipoint \in DOMAIN points
  /\ phase = "point" => ipoint <= Len(points) + 1

Stopped ==
  phase = "idle" => \/ ipoint = 1
                    \/ status = 0 /\ ipoint > Len(points)
                    \/ status = NoTable /\ ipoint <= Len(points)

Tried == phase = "table" => \A t \in Usable(points[ipoint].loc) : itable <= t

Freed == \A g \in Grid : cvs[g] = "freed" => Format[g] = "ntv1"

IInv == ShiftTypeOK /\ Served /\ Stopped /\ Tried /\ Freed /\ FirstUsableTable

-----------------------------------------------------------------------------
(* Operators                                                                *)

(* The most refined form of a grid is a grid.                               *)
LEMMA RefinedIsGrid == ASSUME NEW g \in Grid, NEW l PROVE Refined(g, l) \in Grid
<1> DEFINE covering == {c \in DOMAIN Children[g] : Covered(Children[g][c], l)}
<1>1. Children[g] \in Seq(Grid)
  BY TablesAssumption
<1>2. covering \subseteq Nat /\ \A c \in covering : Children[g][c] \in Grid
  BY <1>1
<1>3. CASE covering = {}
  BY <1>3 DEF Refined
<1>4. CASE covering # {}
  <2>1. Min(covering) \in covering
    BY <1>2, <1>4, MinOfNaturals
  <2> QED BY <1>2, <1>4, <2>1 DEF Refined
<1> QED BY <1>3, <1>4

(* The points of a call, as the arrays hold them when it begins.            *)
LEMMA UnshiftedPoints ==
  ASSUME NEW where \in PointArrays
  PROVE  /\ Unshifted(where) \in Seq(Point)
         /\ \A j \in DOMAIN Unshifted(where) : Unshifted(where)[j].by = NULL
<1>1. PICK n \in 0..MaxPoints : where \in [1..n -> Loc \cup {HUGE}]
  BY DEF PointArrays
<1>2. n \in Nat
  BY LimitsAssumption
<1>3. Unshifted(where) \in [1..n -> Point]
  BY <1>1 DEF Unshifted, Point
<1> QED BY <1>1, <1>2, <1>3 DEF Unshifted

(* The grid about to be used is one, and the place is one it covers.        *)
LEMMA TableInUse ==
  ASSUME ShiftTypeOK, Served, AtTable
  PROVE  gi \in Grid /\ Here \in Loc /\ ipoint \in DOMAIN points /\ itable \in DOMAIN tables
<1>1. ipoint \in DOMAIN points /\ itable \in DOMAIN tables /\ tables[itable] \in Grid
  BY DEF ShiftTypeOK, Served, AtTable, Trying
<1>2. Here \in Loc
  BY <1>1, TablesAssumption DEF AtTable, Covered
<1> QED BY <1>1, <1>2, RefinedIsGrid DEF gi

-----------------------------------------------------------------------------
(* The inductive invariant                                                  *)

LEMMA InitIInv == ShiftInit => IInv
<1> SUFFICES ASSUME ShiftInit PROVE IInv
  OBVIOUS
<1>1. inverse \in BOOLEAN
  BY DEF ShiftInit
<1>2. ShiftTypeOK
  BY <1>1 DEF ShiftInit, ShiftTypeOK
<1>3. Served /\ Stopped /\ Tried /\ Freed /\ FirstUsableTable
  BY DEF ShiftInit, Served, Stopped, Tried, Freed, FirstUsableTable
<1> QED BY <1>2, <1>3 DEF IInv

(* The Boolean-valued variable, apart from the others.                      *)
LEMMA InverseTyped == ASSUME ShiftTypeOK, [ShiftNext]_shiftVars PROVE inverse' \in BOOLEAN
  BY DEF ShiftTypeOK, ShiftNext, ShiftCall, CallNoTables, ShiftStep, AllServed, NextPoint, SkipTable, ServePoint, NoValue,
         Load, LoadData, LoadFails, Exhausted, ShiftReturn, DeallocateTables, FileChange, shiftVars, callVars

(* What the files and the loaded tables may be.                             *)
LEMMA DataTyped ==
  ASSUME ShiftTypeOK, [ShiftNext]_shiftVars
  PROVE  /\ file' \in [Files -> {"good", "short", "gone"}]
         /\ cvs' \in [Grid -> {"none", "data", "freed"}]
<1> DEFINE Typed == /\ file' \in [Files -> {"good", "short", "gone"}]
                    /\ cvs' \in [Grid -> {"none", "data", "freed"}]
<1>1. CASE UNCHANGED <<file, cvs>>
  BY <1>1 DEF ShiftTypeOK
<1>2. CASE LoadData \/ LoadFails
  BY <1>2 DEF LoadData, LoadFails, AfterShortRead, ShiftTypeOK
<1>3. CASE DeallocateTables
  BY <1>3 DEF DeallocateTables, ShiftTypeOK
<1>4. ASSUME NEW f \in Files, NEW state \in {"good", "short", "gone"}, FileChange(f, state)
      PROVE  Typed
  BY <1>4 DEF FileChange, callVars, ShiftTypeOK
<1> QED
  BY <1>1, <1>2, <1>3, <1>4
  DEF ShiftNext, ShiftCall, CallNoTables, ShiftStep, AllServed, NextPoint, SkipTable, ServePoint, NoValue, Load,
      Exhausted, shiftVars

(* The locals of the call.                                                  *)
LEMMA CallTyped ==
  ASSUME ShiftTypeOK, Served, [ShiftNext]_shiftVars
  PROVE  /\ tables' \in Seq(Grid)
         /\ points' \in Seq(Point)
         /\ ipoint' \in Nat \ {0}
         /\ itable' \in Nat \ {0}
         /\ status' \in {0, NoTable}
         /\ phase' \in {"idle", "point", "table"}
<1> DEFINE Typed == /\ tables' \in Seq(Grid)
                    /\ points' \in Seq(Point)
                    /\ ipoint' \in Nat \ {0}
                    /\ itable' \in Nat \ {0}
                    /\ status' \in {0, NoTable}
                    /\ phase' \in {"idle", "point", "table"}
<1>1. ASSUME NEW list \in TableLists, NEW where \in PointArrays, NEW inv, ShiftCall(list, where, inv)
      PROVE  Typed
  BY <1>1, UnshiftedPoints, TablesAssumption DEF ShiftCall
<1>2. ASSUME NEW where \in PointArrays, NEW err \in {0, NoTable}, CallNoTables(where, err)
      PROVE  Typed
  BY <1>2, UnshiftedPoints DEF CallNoTables, ShiftTypeOK
<1>3. CASE AllServed \/ Exhausted \/ NextPoint \/ SkipTable \/ NoValue
  BY <1>3 DEF AllServed, Exhausted, NextPoint, SkipTable, NoValue, ShiftReturn, ShiftTypeOK
<1>4. CASE ServePoint
  <2>1. gi \in Grid /\ ipoint \in DOMAIN points /\ points[ipoint] \in Point
    BY <1>4, TableInUse DEF ServePoint, IInv, ShiftTypeOK
  <2>2. [points[ipoint] EXCEPT !.by = gi] \in Point
    BY <2>1 DEF Point
  <2>3. points' = [points EXCEPT ![ipoint] = [points[ipoint] EXCEPT !.by = gi]]
    BY <1>4 DEF ServePoint
  <2>4. points' \in Seq(Point)
    BY <2>1, <2>2, <2>3 DEF ShiftTypeOK
  <2> QED BY <1>4, <2>4 DEF ServePoint, ShiftTypeOK
<1>5. CASE LoadData \/ LoadFails
  BY <1>5 DEF LoadData, LoadFails, ShiftReturn, callVars, ShiftTypeOK
<1>6. CASE DeallocateTables
  BY <1>6 DEF DeallocateTables, ShiftTypeOK
<1>7. CASE UNCHANGED callVars
  BY <1>7 DEF callVars, ShiftTypeOK
<1> QED
  BY <1>1, <1>2, <1>3, <1>4, <1>5, <1>6, <1>7
  DEF ShiftNext, ShiftStep, Load, FileChange, shiftVars, callVars

LEMMA TypeOKStep == ASSUME ShiftTypeOK, Served, [ShiftNext]_shiftVars PROVE ShiftTypeOK'
  BY InverseTyped, DataTyped, CallTyped DEF ShiftTypeOK

(* Every step between two tables leaves the arrays and the answer alone.    *)
LEMMA ArraysKept ==
  ASSUME \/ AllServed \/ NextPoint \/ SkipTable \/ NoValue \/ Load \/ Exhausted
         \/ \E f \in Files, state \in {"good", "short", "gone"} : FileChange(f, state)
         \/ UNCHANGED shiftVars
  PROVE  UNCHANGED <<points, ipoint, tables, inverse>>
  BY DEF AllServed, NextPoint, SkipTable, NoValue, Load, LoadData, LoadFails, Exhausted, ShiftReturn,
         FileChange, callVars, shiftVars

(* A call begins, or the catalogue is emptied: no point has been shifted.   *)
LEMMA FreshArrays ==
  ASSUME \/ \E list \in TableLists, where \in PointArrays, inv \in BOOLEAN : ShiftCall(list, where, inv)
         \/ \E where \in PointArrays, err \in {0, NoTable} : CallNoTables(where, err)
         \/ DeallocateTables
  PROVE  \A j \in DOMAIN points' : points'[j].by = NULL
  BY UnshiftedPoints DEF ShiftCall, CallNoTables, DeallocateTables

(* The one step that shifts a point.                                        *)
LEMMA ServedPoint ==
  ASSUME ShiftTypeOK, Served, ServePoint
  PROVE  /\ gi \in Grid /\ Here \in Loc /\ ipoint \in DOMAIN points /\ itable \in DOMAIN tables
         /\ DOMAIN points' = DOMAIN points
         /\ \A j \in DOMAIN points : points'[j].loc = points[j].loc
         /\ \A j \in DOMAIN points \ {ipoint} : points'[j] = points[j]
         /\ points'[ipoint].by = gi
         /\ gi # NULL
<1>1. gi \in Grid /\ Here \in Loc /\ ipoint \in DOMAIN points /\ itable \in DOMAIN tables
  BY TableInUse DEF ServePoint
<1>2. points' = [points EXCEPT ![ipoint].by = gi] /\ points[ipoint] \in Point /\ points \in Seq(Point)
  BY <1>1 DEF ServePoint, ShiftTypeOK
<1> HIDE DEF gi, Here
<1> QED BY <1>1, <1>2, LimitsAssumption DEF Point

LEMMA ServedStep == ASSUME ShiftTypeOK, Served, [ShiftNext]_shiftVars PROVE Served'
<1>1. ASSUME NEW list \in TableLists, NEW where \in PointArrays, NEW inv \in BOOLEAN,
             ShiftCall(list, where, inv)
      PROVE  Served'
  <2>1. ipoint' = 1 /\ phase' = "point" /\ points' = Unshifted(where)
    BY <1>1 DEF ShiftCall
  <2>2. points' \in Seq(Point) /\ \A j \in DOMAIN points' : points'[j].by = NULL
    BY <2>1, UnshiftedPoints
  <2> QED BY <2>1, <2>2 DEF Served
<1>2. ASSUME NEW where \in PointArrays, NEW err \in {0, NoTable}, CallNoTables(where, err), phase = "idle"
      PROVE  Served'
  <2>1. ipoint' = 1 /\ phase' = "idle" /\ points' = Unshifted(where)
    BY <1>2 DEF CallNoTables
  <2>2. points' \in Seq(Point) /\ \A j \in DOMAIN points' : points'[j].by = NULL
    BY <2>1, UnshiftedPoints
  <2> QED BY <2>1, <2>2 DEF Served
<1>3. CASE ServePoint
  <2>1. ipoint' = ipoint + 1 /\ phase' = "point" /\ ipoint \in Nat
    BY <1>3 DEF ServePoint, ShiftTypeOK
  <2>2. ipoint \in 1..Len(points) /\ Len(points') = Len(points)
    BY <1>3, ServedPoint, TypeOKStep DEF ShiftTypeOK
  <2>3. \A j \in DOMAIN points' : points'[j].by # NULL <=> j < ipoint'
    <3> SUFFICES ASSUME NEW j \in DOMAIN points' PROVE points'[j].by # NULL <=> j < ipoint'
      OBVIOUS
    <3>1. j \in Nat /\ j \in DOMAIN points
      BY <1>3, ServedPoint DEF ShiftTypeOK
    <3>2. CASE j = ipoint
      BY <1>3, <2>1, <3>2, ServedPoint
    <3>3. CASE j # ipoint
      <4>1. points'[j] = points[j]
        BY <1>3, <3>1, <3>3, ServedPoint
      <4>2. points[j].by # NULL <=> j < ipoint
        BY <3>1 DEF Served
      <4> QED BY <2>1, <3>1, <3>3, <4>1, <4>2
    <3> QED BY <3>2, <3>3
  <2>4. \A j \in DOMAIN points' : points'[j].by # NULL => points'[j].loc # HUGE
    <3>1. points[ipoint].loc # HUGE
      BY <1>3, ServedPoint, LimitsAssumption DEF Here
    <3> QED BY <1>3, <3>1, ServedPoint DEF Served
  <2> QED BY <2>1, <2>2, <2>3, <2>4 DEF Served
<1>4. CASE \/ AllServed \/ NextPoint \/ SkipTable \/ NoValue \/ Load \/ Exhausted
           \/ \E f \in Files, state \in {"good", "short", "gone"} : FileChange(f, state)
           \/ UNCHANGED shiftVars
  <2>1. points' = points /\ ipoint' = ipoint
    BY <1>4, ArraysKept
  <2>2. phase' = "table" => ipoint \in DOMAIN points
    BY <1>4 DEF AllServed, NextPoint, SkipTable, NoValue, Load, LoadData, LoadFails, Exhausted,
                ShiftReturn, FileChange, callVars, shiftVars, Served, ShiftTypeOK, AtTable, Trying
  <2>3. phase' = "point" => phase = "point"
    BY <1>4 DEF AllServed, NextPoint, SkipTable, NoValue, Load, LoadData, LoadFails, Exhausted,
                ShiftReturn, FileChange, callVars, shiftVars, AtTable, Trying
  <2> QED BY <2>1, <2>2, <2>3 DEF Served
<1>5. CASE DeallocateTables
  BY <1>5 DEF DeallocateTables, Served
<1> QED BY <1>1, <1>2, <1>3, <1>4, <1>5 DEF ShiftNext, ShiftStep, CallNoTables

LEMMA StoppedStep == ASSUME ShiftTypeOK, Served, Stopped, [ShiftNext]_shiftVars PROVE Stopped'
<1>1. ASSUME NEW list, NEW where, NEW inv, ShiftCall(list, where, inv) PROVE Stopped'
  BY <1>1 DEF ShiftCall, Stopped
<1>2. ASSUME NEW where, NEW err, CallNoTables(where, err) PROVE Stopped'
  BY <1>2 DEF CallNoTables, Stopped
<1>3. CASE AllServed
  BY <1>3 DEF AllServed, ShiftReturn, Stopped
<1>4. CASE LoadFails \/ Exhausted
  BY <1>4 DEF LoadFails, Exhausted, ShiftReturn, Stopped, Served, AtTable, Trying, ShiftTypeOK
<1>5. CASE NextPoint \/ SkipTable \/ ServePoint \/ NoValue \/ LoadData
  BY <1>5 DEF NextPoint, SkipTable, ServePoint, NoValue, LoadData, AtTable, Trying, callVars, Stopped
<1>6. CASE DeallocateTables
  BY <1>6 DEF DeallocateTables, Stopped, ShiftTypeOK
<1>7. CASE UNCHANGED callVars
  BY <1>7 DEF callVars, Stopped
<1> QED
  BY <1>1, <1>2, <1>3, <1>4, <1>5, <1>6, <1>7
  DEF ShiftNext, ShiftStep, Load, FileChange, shiftVars, callVars

LEMMA TriedStep == ASSUME ShiftTypeOK, Served, Tried, [ShiftNext]_shiftVars PROVE Tried'
<1>1. CASE NextPoint
  <2>1. itable' = 1 /\ tables' = tables
    BY <1>1 DEF NextPoint
  <2>2. \A t \in DOMAIN tables : t >= 1
    BY DEF ShiftTypeOK
  <2>3. \A t \in Usable(points[ipoint].loc)' : t \in DOMAIN tables
    BY <2>1 DEF Usable
  <2> QED BY <2>1, <2>2, <2>3 DEF Tried
<1>2. CASE SkipTable \/ NoValue
  <2>1. /\ phase = "table" /\ itable' = itable + 1 /\ itable \in Nat
        /\ UNCHANGED <<tables, inverse, points, ipoint>>
    BY <1>2 DEF SkipTable, NoValue, AtTable, Trying, ShiftTypeOK
  <2>2. itable \notin Usable(points[ipoint].loc)
    BY <1>2 DEF SkipTable, NoValue, Usable, gi, Here
  <2>3. Usable(points[ipoint].loc) \subseteq Nat /\ \A t \in Usable(points[ipoint].loc) : itable <= t
    BY <2>1 DEF Tried, Usable, ShiftTypeOK
  <2>4. Usable(points[ipoint].loc)' = Usable(points[ipoint].loc)
    BY <2>1 DEF Usable, Converts
  <2> QED BY <2>1, <2>2, <2>3, <2>4 DEF Tried
<1>3. CASE phase' # "table"
  BY <1>3 DEF Tried
<1>4. CASE UNCHANGED callVars
  BY <1>4 DEF callVars, Tried, Usable, Converts
<1> QED
  BY <1>1, <1>2, <1>3, <1>4
  DEF ShiftNext, ShiftCall, CallNoTables, ShiftStep, AllServed, ServePoint, Load, LoadData, LoadFails, Exhausted,
      ShiftReturn, DeallocateTables, FileChange, shiftVars, callVars

LEMMA FreedStep == ASSUME ShiftTypeOK, Served, Freed, [ShiftNext]_shiftVars PROVE Freed'
<1>1. CASE UNCHANGED cvs
  BY <1>1 DEF Freed
<1>2. CASE LoadData \/ LoadFails
  <2>1. gi \in Grid
    BY <1>2, TableInUse DEF LoadData, LoadFails
  <2> HIDE DEF gi
  <2> QED BY <1>2, <2>1 DEF LoadData, LoadFails, AfterShortRead, Freed, ShiftTypeOK
<1>3. CASE DeallocateTables
  BY <1>3 DEF DeallocateTables, Freed
<1> QED
  BY <1>1, <1>2, <1>3
  DEF ShiftNext, ShiftCall, CallNoTables, ShiftStep, AllServed, NextPoint, SkipTable, ServePoint, NoValue, Load,
      Exhausted, FileChange, shiftVars

LEMMA FirstUsableStep ==
  ASSUME ShiftTypeOK, Served, Tried, FirstUsableTable, [ShiftNext]_shiftVars
  PROVE  FirstUsableTable'
<1>1. CASE ServePoint
  <2>1. UNCHANGED <<tables, inverse>>
    BY <1>1 DEF ServePoint
  <2>2. \A l : Usable(l)' = Usable(l)
    BY <2>1 DEF Usable, Converts
  <2> SUFFICES ASSUME NEW j \in DOMAIN points', points'[j].by # NULL
               PROVE  /\ Usable(points'[j].loc) # {}
                      /\ points'[j].by = Refined(tables[Min(Usable(points'[j].loc))], points'[j].loc)
    BY <2>1, <2>2 DEF FirstUsableTable
  <2>3. CASE j # ipoint
    BY <1>1, <2>3, ServedPoint DEF FirstUsableTable
  <2>4. CASE j = ipoint
    <3>1. points'[j].loc = Here /\ points'[j].by = gi /\ Here = points[ipoint].loc
      BY <1>1, <2>4, ServedPoint DEF Here
    <3>2. itable \in Usable(Here)
      BY <1>1, ServedPoint DEF ServePoint, AtTable, Usable, gi
    <3>3. \A t \in Usable(Here) : itable <= t
      BY <1>1, <3>1 DEF ServePoint, AtTable, Trying, Tried
    <3>4. Usable(Here) \subseteq Nat
      BY DEF Usable, ShiftTypeOK
    <3>5. Min(Usable(Here)) = itable
      <4>1. Min(Usable(Here)) \in Usable(Here) /\ Min(Usable(Here)) <= itable
        BY <3>2, <3>4, MinOfNaturals
      <4> QED BY <3>2, <3>3, <3>4, <4>1
    <3> QED BY <3>1, <3>2, <3>5 DEF gi
  <2> QED BY <2>3, <2>4
<1>2. CASE \/ AllServed \/ NextPoint \/ SkipTable \/ NoValue \/ Load \/ Exhausted
           \/ \E f \in Files, state \in {"good", "short", "gone"} : FileChange(f, state)
           \/ UNCHANGED shiftVars
  <2>1. UNCHANGED <<points, tables, inverse>>
    BY <1>2, ArraysKept
  <2> QED BY <2>1 DEF FirstUsableTable, Usable, Converts
<1>3. CASE \/ \E list \in TableLists, where \in PointArrays, inv \in BOOLEAN : ShiftCall(list, where, inv)
           \/ \E where \in PointArrays, err \in {0, NoTable} : CallNoTables(where, err)
           \/ DeallocateTables
  BY <1>3, FreshArrays DEF FirstUsableTable
<1> QED BY <1>1, <1>2, <1>3 DEF ShiftNext, ShiftStep

-----------------------------------------------------------------------------
(* Theorems of the specification                                            *)

(* The strengthened invariant holds in every state of every run of the      *)
(* calling thread.                                                          *)
THEOREM Invariance == ShiftSpec => []IInv
<1>1. ShiftInit => IInv
  BY InitIInv
<1>2. IInv /\ [ShiftNext]_shiftVars => IInv'
  BY TypeOKStep, ServedStep, StoppedStep, TriedStep, FreedStep, FirstUsableStep DEF IInv
<1> QED BY <1>1, <1>2, PTL DEF ShiftSpec

(* The locals of pj_apply_gridshift and the tables keep their types.        *)
THEOREM Typing == ShiftSpec => []ShiftTypeOK
<1>1. IInv => ShiftTypeOK
  BY DEF IInv
<1> QED BY <1>1, Invariance, PTL

(* Whatever the order and the extent of the tables, a point is shifted by   *)
(* the first table of the list that gives it a value.                       *)
THEOREM FirstTable == ShiftSpec => []FirstUsableTable
<1>1. IInv => FirstUsableTable
  BY DEF IInv
<1> QED BY <1>1, Invariance, PTL

(* A point that is HUGE_VAL ends the call: neither it nor a later point is  *)
(* shifted.                                                                 *)
THEOREM HugeEndsCall == ShiftSpec => []HugeIsTheEnd
<1>1. IInv => HugeIsTheEnd
  <2> SUFFICES ASSUME ShiftTypeOK, Served,
                      NEW j \in DOMAIN points, NEW k \in DOMAIN points, points[j].loc = HUGE, k >= j
               PROVE  points[k].by = NULL
    BY DEF IInv, HugeIsTheEnd
  <2>1. j \in Nat /\ k \in Nat /\ ipoint \in Nat
    BY DEF ShiftTypeOK
  <2>2. ~(j < ipoint)
    BY DEF Served
  <2> QED BY <2>1, <2>2 DEF Served
<1> QED BY <1>1, Invariance, PTL

(* Both together, as the run checks them.                                   *)
THEOREM Sound == ShiftSpec => []ShiftSound
  BY Typing, HugeEndsCall, PTL DEF ShiftSound

(* Between calls the arrays are a shifted prefix and an untouched rest, and *)
(* the error number returned tells whether the prefix is everything.        *)
THEOREM ContractKept == ShiftSpec => []KeepsContract
<1>1. IInv => KeepsContract
  <2> SUFFICES ASSUME ShiftTypeOK, Served, Stopped, phase = "idle"
               PROVE  Outcome(AsGiven, Arrays, status, [j \in DOMAIN AsGiven |-> Shift(AsGiven[j])])
    BY DEF IInv, KeepsContract
  <2> DEFINE shifted == [j \in DOMAIN AsGiven |-> Shift(AsGiven[j])]
  <2>1. /\ Len(points) \in Nat /\ DOMAIN points = 1..Len(points) /\ ipoint \in Nat \ {0}
        /\ status \in {0, NoTable}
    BY DEF ShiftTypeOK
  <2>2. Len(AsGiven) = Len(points) /\ Len(Arrays) = Len(points) /\ DOMAIN AsGiven = 1..Len(points)
    BY <2>1 DEF AsGiven, Arrays
  <2>3. \A j \in 1..Len(points) : /\ AsGiven[j] = [loc |-> points[j].loc, shifted |-> FALSE]
                              /\ shifted[j] = [loc |-> points[j].loc, shifted |-> TRUE]
    BY <2>1 DEF AsGiven, Shift
  <2>4. \A j \in 1..Len(points) : Arrays[j] = IF j < ipoint THEN shifted[j] ELSE AsGiven[j]
    <3> SUFFICES ASSUME NEW j \in 1..Len(points)
                 PROVE  Arrays[j] = IF j < ipoint THEN shifted[j] ELSE AsGiven[j]
      OBVIOUS
    <3>1. Arrays[j] = [loc |-> points[j].loc, shifted |-> points[j].by # NULL]
      BY <2>1 DEF Arrays
    <3>2. (points[j].by # NULL) <=> j < ipoint
      BY <2>1 DEF Served
    <3>3. CASE j < ipoint
      <4>1. (points[j].by # NULL) = TRUE
        BY <3>2, <3>3
      <4> QED BY <2>3, <3>1, <3>3, <4>1
    <3>4. CASE ~(j < ipoint)
      <4>1. (points[j].by # NULL) = FALSE
        BY <3>2, <3>4
      <4> QED BY <2>3, <3>1, <3>4, <4>1
    <3> QED BY <3>3, <3>4
  <2> HIDE DEF shifted
  <2>5. CASE ipoint = 1
    <3>1. Arrays = AsGiven
      BY <2>1, <2>4, <2>5 DEF Arrays, AsGiven
    <3> QED BY <2>1, <3>1 DEF Outcome, shifted
  <2>6. CASE status = 0 /\ ipoint > Len(points)
    <3>1. ShiftedUpTo(Len(AsGiven), AsGiven, Arrays, shifted)
      BY <2>1, <2>2, <2>4, <2>6 DEF ShiftedUpTo
    <3> QED BY <2>6, <3>1 DEF Outcome, shifted
  <2>7. CASE status = NoTable /\ ipoint <= Len(points)
    <3>1. ipoint - 1 \in 0..Len(AsGiven) - 1
      BY <2>1, <2>2, <2>7
    <3>2. ShiftedUpTo(ipoint - 1, AsGiven, Arrays, shifted)
      BY <2>1, <2>2, <2>4 DEF ShiftedUpTo
    <3> QED BY <2>7, <3>1, <3>2 DEF Outcome, shifted
  <2> QED BY <2>5, <2>6, <2>7 DEF Stopped
<1> QED BY <1>1, Invariance, PTL

(* No table but an NTv1 one is interpolated in without its shift data.      *)
THEOREM ReadsLoadedData == ShiftSpec => ReadBeforeUse
<1>1. IInv /\ [ShiftNext]_shiftVars => [(ServePoint \/ NoValue) => cvs[gi] = "data" \/ Format[gi] = "ntv1"]_shiftVars
  <2> SUFFICES ASSUME ShiftTypeOK, Served, Freed, ServePoint \/ NoValue
               PROVE  cvs[gi] = "data" \/ Format[gi] = "ntv1"
    BY DEF IInv
  <2>1. gi \in Grid /\ cvs[gi] # "none"
    BY TableInUse DEF ServePoint, NoValue
  <2> HIDE DEF gi
  <2> QED BY <2>1 DEF Freed, ShiftTypeOK
<1> QED BY <1>1, Invariance, PTL DEF ShiftSpec, ReadBeforeUse
=============================================================================
