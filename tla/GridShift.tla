------------------------------ MODULE GridShift ------------------------------
(***************************************************************************)
(* One thread calling pj_apply_gridshift again and again: the search for a  *)
(* table that serves each point, the delayed loading of its data            *)
(* (pj_gridinfo_load) and the interpolation (nad_cvt), with grid files that *)
(* vanish or are cut short between two reads.                               *)
(*                                                                          *)
(* A location is a model value: what matters is which headers cover it and  *)
(* for which tables the interpolation gives a value.                        *)
(***************************************************************************)
EXTENDS FiniteSetsExt, GridshiftContract

CONSTANTS
  Grid,       \* PJ_GRIDINFOs with a header table
  FileOf,     \* FileOf[g]: the file g was found in
  Format,     \* Format[g]: "ctable", "ntv1" or "ntv2"
  Children,   \* Children[g]: the subgrids of g, in file order (NTv2)
  Loc,        \* places a point may be at
  CoverOf,    \* CoverOf[g]: the places inside the header's rectangle
  Inside,     \* Inside[g]: the places where nad_intr gives a value
  Iteration,  \* Iteration[g][l]: how nad_cvt's inverse iteration would end
  MaxTry,     \* MAX_TRY, 9 in the code
  TableLists  \* the answers the catalogue gives, with tables in them

ASSUME TablesAssumption ==
  /\ Children \in [Grid -> Seq(Grid)]
  /\ CoverOf \in [Grid -> SUBSET Loc]
  /\ Inside \in [Grid -> SUBSET Loc]
  /\ TableLists \subseteq Seq(Grid) \ {<<>>}

(* The iteration reaches its tolerance, or leaves the table, in round n.    *)
ASSUME IterationAssumption ==
  Iteration \in [Grid -> [Loc -> [n : Nat \ {0}, edge : BOOLEAN]]]

ASSUME LimitsAssumption == MaxTry \in Nat /\ MaxPoints \in Nat /\ HUGE \notin Loc /\ NULL \notin Grid

(* A point: where it is, and the table that has shifted it, if any.         *)
Point == [loc : Loc \cup {HUGE}, by : Grid \cup {NULL}]

VARIABLES
  file,     \* file[f]: "good", "short" (data cut off) or "gone"
  cvs,      \* cvs[g]: "none" (null), "data", or "freed" and not nulled
  tables,   \* the answer of pj_gridlist_from_nadgrids
  inverse,
  points,   \* the arrays x and y
  ipoint,   \* i: the point being served
  itable,   \* the table being tried for it
  status,   \* pj_errno, also the value returned
  phase     \* where the call in progress stands

callVars == <<tables, inverse, points, ipoint, itable, status, phase>>
shiftVars == <<file, cvs, callVars>>

Files == {FileOf[g] : g \in Grid}

ShiftTypeOK ==
  /\ file \in [Files -> {"good", "short", "gone"}]
  /\ cvs \in [Grid -> {"none", "data", "freed"}]
  /\ tables \in Seq(Grid)
  /\ inverse \in BOOLEAN
  /\ points \in Seq(Point)
  /\ ipoint \in Nat \ {0}
  /\ itable \in Nat \ {0}
  /\ status \in {0, NoTable}
  /\ phase \in {"idle", "point", "table"}

ShiftInit ==
  /\ file = [f \in Files |-> "good"]
  /\ cvs = [g \in Grid |-> "none"]
  /\ tables = <<>>
  /\ inverse = FALSE
  /\ points = <<>>
  /\ ipoint = 1
  /\ itable = 1
  /\ status = 0
  /\ phase = "idle"

PointArrays == UNION {[1..n -> Loc \cup {HUGE}] : n \in 0..MaxPoints}

Unshifted(where) == [j \in DOMAIN where |-> [loc |-> where[j], by |-> NULL]]

(* A call whose nadgrids string yields tables.                              *)
ShiftCall(list, where, inv) ==
  /\ phase = "idle"
  /\ tables' = list
  /\ inverse' = inv
  /\ points' = Unshifted(where)
  /\ ipoint' = 1
  /\ itable' = 1
  /\ status' = 0
  /\ phase' = "point"
  /\ UNCHANGED <<file, cvs>>

(* A call whose string yields none: pj_errno is what the catalogue left.    *)
CallNoTables(where, err) ==
  /\ phase = "idle"
  /\ tables' = <<>>
  /\ inverse' = FALSE
  /\ points' = Unshifted(where)
  /\ ipoint' = 1
  /\ itable' = 1
  /\ status' = err
  /\ UNCHANGED <<file, cvs, phase>>

ShiftReturn(err) ==
  /\ status' = err
  /\ phase' = "idle"
  /\ UNCHANGED <<tables, inverse, points, ipoint, itable>>

AllServed ==
  /\ phase = "point"
  /\ ipoint > Len(points)
  /\ ShiftReturn(0)
  /\ UNCHANGED <<file, cvs>>

(* Fault: the search goes on from the table that served the last point.     *)
NextPointKeepsTable ==
  /\ phase = "point"
  /\ ipoint <= Len(points)
  /\ phase' = "table"
  /\ UNCHANGED <<file, cvs, tables, inverse, points, ipoint, itable, status>>

NextPoint ==
  /\ phase = "point"
  /\ ipoint <= Len(points)
  /\ itable' = 1
  /\ phase' = "table"
  /\ UNCHANGED <<file, cvs, tables, inverse, points, ipoint, status>>

Here == points[ipoint].loc
Trying == phase = "table" /\ itable <= Len(tables)

(* HUGE_VAL lies outside every rectangle.                                   *)
Covered(g, l) == l \in CoverOf[g]

SkipTable ==
  /\ Trying
  /\ ~Covered(tables[itable], Here)
  /\ itable' = itable + 1
  /\ UNCHANGED <<file, cvs, tables, inverse, points, ipoint, status, phase>>

(* The first subgrid that covers the place, else the grid itself.           *)
Refined(g, l) ==
  LET covering == {c \in DOMAIN Children[g] : Covered(Children[g][c], l)}
  IN  IF covering = {} THEN g ELSE Children[g][Min(covering)]

gi == Refined(tables[itable], Here)
AtTable == Trying /\ Covered(tables[itable], Here)

(* nad_cvt: the interpolation fails outside the table; the inverse iterates *)
(* at most MaxTry rounds, and settles for less when it leaves the table.    *)
Converts(g, l, inv) ==
  /\ l \in Inside[g]
  /\ inv => LET it == Iteration[g][l]
            IN  it.n <= MaxTry \/ (it.edge /\ it.n = MaxTry + 1)

ServePoint ==
  /\ AtTable
  /\ cvs[gi] # "none"
  /\ Converts(gi, Here, inverse)
  /\ points' = [points EXCEPT ![ipoint].by = gi]
  /\ ipoint' = ipoint + 1
  /\ phase' = "point"
  /\ UNCHANGED <<file, cvs, tables, inverse, itable, status>>

(* Fault: a table without a value for the point is tried again.             *)
NoValueTriesAgain ==
  /\ AtTable
  /\ cvs[gi] # "none"
  /\ ~Converts(gi, Here, inverse)
  /\ UNCHANGED shiftVars

NoValue ==
  /\ AtTable
  /\ cvs[gi] # "none"
  /\ ~Converts(gi, Here, inverse)
  /\ itable' = itable + 1
  /\ UNCHANGED <<file, cvs, tables, inverse, points, ipoint, status, phase>>

(* pj_gridinfo_load                                                         *)
LoadData ==
  /\ AtTable
  /\ cvs[gi] = "none"
  /\ file[FileOf[gi]] = "good"
  /\ cvs' = [cvs EXCEPT ![gi] = "data"]
  /\ UNCHANGED <<file, callVars>>

(* Fault: no format nulls the pointer to the data it has just freed.        *)
AfterShortReadFreed(g) == "freed"

(* The ctable and NTv2 readers null the pointer; the NTv1 reader does not.  *)
AfterShortRead(g) == IF Format[g] = "ntv1" THEN "freed" ELSE "none"

LoadFails ==
  /\ AtTable
  /\ cvs[gi] = "none"
  /\ file[FileOf[gi]] # "good"
  /\ cvs' = IF file[FileOf[gi]] = "gone" THEN cvs ELSE [cvs EXCEPT ![gi] = AfterShortRead(gi)]
  /\ ShiftReturn(NoTable)
  /\ UNCHANGED file

(* Fault: a point no table serves is passed over.                           *)
ExhaustedPassesOver ==
  /\ phase = "table"
  /\ itable > Len(tables)
  /\ ipoint' = ipoint + 1
  /\ phase' = "point"
  /\ UNCHANGED <<file, cvs, tables, inverse, points, itable, status>>

Exhausted ==
  /\ phase = "table"
  /\ itable > Len(tables)
  /\ ShiftReturn(NoTable)
  /\ UNCHANGED <<file, cvs>>

(* pj_deallocate_grids: the next request makes new headers, without data.   *)
DeallocateTables ==
  /\ phase = "idle"
  /\ cvs' = [g \in Grid |-> "none"]
  /\ tables' = <<>>
  /\ points' = <<>>
  /\ status' = 0
  /\ UNCHANGED <<file, inverse, ipoint, itable, phase>>

FileChange(f, state) ==
  /\ file[f] # state
  /\ file' = [file EXCEPT ![f] = state]
  /\ UNCHANGED <<cvs, callVars>>

Load == LoadData \/ LoadFails
ShiftStep == AllServed \/ NextPoint \/ SkipTable \/ ServePoint \/ NoValue \/ Load \/ Exhausted

ShiftNext ==
  \/ \E list \in TableLists, where \in PointArrays, inv \in BOOLEAN : ShiftCall(list, where, inv)
  \/ \E where \in PointArrays, err \in {0, NoTable} : CallNoTables(where, err)
  \/ ShiftStep
  \/ DeallocateTables
  \/ \E f \in Files, state \in {"good", "short", "gone"} : FileChange(f, state)

(* The calling thread runs a call to its end.                               *)
ShiftSpec == ShiftInit /\ [][ShiftNext]_shiftVars /\ WF_shiftVars(ShiftStep)

-----------------------------------------------------------------------------
(* The arrays as the caller sees them: which points have been shifted.      *)
Arrays == [j \in DOMAIN points |-> [loc |-> points[j].loc, shifted |-> points[j].by # NULL]]
AsGiven == [j \in DOMAIN points |-> [loc |-> points[j].loc, shifted |-> FALSE]]
Shift(pt) == [pt EXCEPT !.shifted = TRUE]

(* The contract Transform builds on: between calls the arrays are a shifted *)
(* prefix and an untouched rest, and the error number says which.           *)
KeepsContract ==
  phase = "idle" => Outcome(AsGiven, Arrays, status, [j \in DOMAIN AsGiven |-> Shift(AsGiven[j])])

(* The tables that could serve a place, by position in the list.            *)
Usable(l) == {t \in DOMAIN tables : /\ Covered(tables[t], l)
                                    /\ Converts(Refined(tables[t], l), l, inverse)}

(* A point is shifted by the first table of the list that gives it a value, *)
(* in its most refined form: earlier points, loads that failed in earlier   *)
(* calls and tables that give no value never change that choice.            *)
FirstUsableTable ==
  \A j \in DOMAIN points :
    points[j].by # NULL =>
      /\ Usable(points[j].loc) # {}
      /\ points[j].by = Refined(tables[Min(Usable(points[j].loc))], points[j].loc)

(* A point that failed an earlier step of a transformation is HUGE_VAL and  *)
(* never comes back to life here; every point after it is left alone.       *)
HugeIsTheEnd ==
  \A j, k \in DOMAIN points : points[j].loc = HUGE /\ k >= j => points[k].by = NULL

(* Every variable has its type, and nothing is shifted from the first point *)
(* that is HUGE_VAL on.                                                     *)
ShiftSound == ShiftTypeOK /\ HugeIsTheEnd

(* A table is interpolated in only while its shift data is in memory.  The   *)
(* NTv1 reader is set apart: after a short read it leaves the block it has  *)
(* freed in ct->cvs, and the test for loaded data takes it for the data.    *)
ReadBeforeUse ==
  [][(ServePoint \/ NoValue) => cvs[gi] = "data" \/ Format[gi] = "ntv1"]_shiftVars

(* Every call returns, whatever becomes of the files meanwhile.             *)
ShiftReturns == (phase # "idle") ~> (phase = "idle")
=============================================================================
