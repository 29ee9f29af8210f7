------------------------------- MODULE MCProj -------------------------------
(***************************************************************************)
(* TLC instance of the three parts of PROJ: the grid catalogue, the grid    *)
(* shift, and pj_init with pj_transform.  They share no state that matters  *)
(* to another: a behaviour is about one, and the others stay as they began. *)
(***************************************************************************)
EXTENDS GridList, GridShift, ProjInit

CONSTANTS
  Parts,                  \* the parts that are followed
  conus, alaska,          \* grid files
  wide, sub1, sub2, old,  \* grids
  inner, outer, coarse    \* places

VARIABLE part

-----------------------------------------------------------------------------
(* GridList                                                                 *)
\* Two grid files, requests that share a file, repeat one, need one, and
\* name one too long for the buffer.

Req(n) == [name |-> n, required |-> TRUE,  fits |-> TRUE]
Opt(n) == [name |-> n, required |-> FALSE, fits |-> TRUE]
Big(n) == [name |-> n, required |-> TRUE,  fits |-> FALSE]

MCName == {conus, alaska}
MCNadGrids ==
  { <<Req(conus), Req(alaska)>>, <<Opt(conus), Req(alaska), Opt(conus)>>, <<Opt(alaska)>>, <<Opt(conus), Big(alaska)>> }

-----------------------------------------------------------------------------
(* GridShift                                                                *)
\* An NTv2 grid with two overlapping subgrids, a coarse NTv1 grid behind it,
\* places at the edges of both.

MCGrid == {wide, sub1, sub2, old}
MCFileOf == [g \in MCGrid |-> IF g = old THEN "ntv1.dat" ELSE "canada.gsb"]
MCFormat == [g \in MCGrid |-> IF g = old THEN "ntv1" ELSE "ntv2"]
MCChildren == [g \in MCGrid |-> IF g = wide THEN <<sub1, sub2>> ELSE <<>>]
MCLoc == {inner, outer, coarse}
MCCovers == [g \in MCGrid |->
  CASE g = wide -> {inner, outer} [] g = sub1 -> {inner} [] g = sub2 -> {inner, outer} [] g = old -> {inner, outer, coarse}]
MCInside == [g \in MCGrid |->
  CASE g = wide -> {inner, outer} [] g = sub1 -> {inner} [] g = sub2 -> {inner} [] g = old -> {inner, coarse}]
MCIteration == [g \in MCGrid |-> [l \in MCLoc |->
  IF g = sub1 THEN [n |-> 3, edge |-> FALSE]
  ELSE IF l = coarse THEN [n |-> 3, edge |-> TRUE] ELSE [n |-> 1, edge |-> FALSE]]]
MCTableLists == {<<wide, old>>, <<old>>}

-----------------------------------------------------------------------------
(* Transform and ProjInit                                                   *)
\* One system for each way through the stages, and definitions that meet
\* every branch of pj_init, with one or two words beside the projection, or
\* three that speak of the earth.

Sys(form, type, ell, params) ==
  [kind |-> form, type |-> type, ell |-> ell, params |-> params,
   pm |-> "", unit |-> "", wrap |-> 0, inv |-> TRUE]

MCSystem ==
  { Sys("latlong", "wgs84", "WGS84", ""),
    [Sys("geocent", "wgs84", "WGS84", "") EXCEPT !.unit = "km"],
    [Sys("projected", "3param", "bessel", "dhdn") EXCEPT !.pm = "ferro"],
    Sys("latlong", "7param", "bessel", "mgi"),
    Sys("projected", "gridshift", "clrk66", "conus"),
    [Sys("latlong", "gridshift", "clrk66", "canada") EXCEPT !.pm = "ferro"],
    [Sys("latlong", "3param", "intl", "ed50") EXCEPT !.wrap = 2],
    [Sys("geocent", "unknown", "intl", "") EXCEPT !.unit = "km"],
    [Sys("projected", "unknown", "intl", "") EXCEPT !.inv = FALSE] }

MCInitFile ==
  LET File(colon, home, ws) == [colon |-> colon, home |-> home, words |-> ws]
  IN  [epsg     |-> File(FALSE, TRUE, <<>>),
       home     |-> File(TRUE, FALSE, <<>>),
       empty    |-> File(TRUE, TRUE, <<>>),
       nad27    |-> File(TRUE, TRUE, <<Word("proj", "latlong"), Word("datum", "NAD27"), Word("no_defs", "")>>),
       bessel   |-> File(TRUE, TRUE, <<Word("ellps", "bessel"), Word("towgs84", "ire65"), Word("pm", "ferro")>>)]

Earth ==
  {Word("datum", d) : d \in {"WGS84", "NAD27", "potsdam", "carthage", "nowhere"}} \cup
  {Word("ellps", e) : e \in {"GRS80", "clrk66", "sphere", "flat"}} \cup
  {Word("towgs84", "0,0,0"), Word("nadgrids", "conus"), Word("a", "6378137.0"), Word("a", "0"),
   Word("b", "6356583.8"), Word("rf", "298.257223563"), Word("rf", "0"), Word("R", "6370997.0")}
Others ==
  {Word("init", id) : id \in DOMAIN MCInitFile} \cup
  {Word("no_defs", v) : v \in {"", "F", "maybe"}} \cup
  {Word("es", "1"), Word("f", "<0"), Word("R_A", ""), Word("R_A", "maybe"), Word("R_lat_a", "95"),
   Word("R", "0"), Word("towgs84", "OSGB36"), Word("geoc", "maybe"), Word("k_0", "0"),
   Word("units", "km"), Word("units", "ell"), Word("to_meter", "0.3"),
   Word("pm", "paris"), Word("pm", "0"), Word("pm", "nowhere"), Word("lon_wrap", "180")}

MCDefinitions ==
  LET proj == {Word("proj", p) : p \in {"latlong", "lcc"}}
      one == {<<p>> : p \in proj \cup {Word("proj", "geocent"), Word("proj", "flat"), Word("init", "nad27"), Word("ellps", "bessel")}}
      two == {<<p, w>> : p \in proj, w \in Earth \cup Others}
      three == {<<p, v, w>> : p \in proj, v \in Earth \cup Others, w \in Earth \cup Others}
      four == {<<Word("proj", "airy"), u, v, w>> : u, v, w \in Earth}
  IN  {<<>>} \cup one \cup two \cup three \cup four

-----------------------------------------------------------------------------
(* One part at a time                                                       *)

libraryVars == <<vars, initVars>>
OthersThanList    == <<part, shiftVars, libraryVars>>
OthersThanShift   == <<part, listVars, libraryVars>>
OthersThanLibrary == <<part, listVars, shiftVars>>
projVars == <<listVars, OthersThanList>>

\* The catalogue of another part's behaviours is empty, over some disk.
QuietList == ListInit /\ disk = [n \in Name |-> 1]

MCInit ==
  /\ part \in Parts
  /\ IF part = "catalogue" THEN ListInit ELSE QuietList
  /\ ShiftInit
  /\ LibraryInit

MCNext ==
  \/ part = "catalogue" /\ ListNext /\ UNCHANGED OthersThanList
  \/ part = "shift" /\ ShiftNext /\ UNCHANGED OthersThanShift
  \/ part = "transform" /\ LibraryNext /\ UNCHANGED OthersThanLibrary

\* The fairness of the three specifications
MCFairness ==
  /\ WF_projVars(part = "catalogue" /\ ListStep /\ UNCHANGED OthersThanList)
  /\ WF_projVars(part = "shift" /\ ShiftStep /\ UNCHANGED OthersThanShift)
  /\ WF_projVars(part = "transform" /\ Step /\ UNCHANGED <<initVars, OthersThanLibrary>>)

MCSpec == MCInit /\ [][MCNext]_projVars /\ MCFairness
=============================================================================
