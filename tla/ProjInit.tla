------------------------------ MODULE ProjInit -------------------------------
(***************************************************************************)
(* pj_init, pj_init_plus and pj_free: a list of parameters grows word by    *)
(* word (the caller's, those of an init file, the defaults, those a datum   *)
(* stands for), and becomes a coordinate system that pj_transform goes      *)
(* between, or is freed again on one of a dozen error paths.                *)
(*                                                                          *)
(* A parameter is a key and a value, both names.  What is an ellipsoid, a   *)
(* datum or a unit is in tables, whose rows here stand for all of theirs.   *)
(* The caller's thread initialises, transforms and frees in turn.           *)
(***************************************************************************)
EXTENDS Transform, SequencesExt

CONSTANTS
  Definitions, \* sequences of words a caller passes
  InitFile,    \* init=file:id -> whether it has a colon and a home, and the words of id
  MAX_ARG      \* places for words in pj_init_plus

Words == [key : STRING, val : STRING]
(* What PIN points at.                                                      *)
Handles == [kind : Kinds, type : DatumTypes, params : STRING, a : STRING, es : Seq(STRING),
            unit : STRING, pm : STRING, wrap : {0, 2}, inv : BOOLEAN]

ASSUME ProjInitAssumption ==
  /\ MAX_ARG \in Nat \ {0}
  /\ \A ws \in Definitions :
       /\ ws \in Seq(Words)
       /\ \A k \in DOMAIN ws : ws[k].key = "init" => ws[k].val \in DOMAIN InitFile
  /\ \A id \in DOMAIN InitFile :
       InitFile[id] \in [colon : BOOLEAN, home : BOOLEAN, words : Seq(Words)]
  /\ NULL \notin Handles

VARIABLES
  at,      \* the step of pj_init about to run
  words,   \* what the caller passed
  list,    \* the list of parameters, each with where it is from
  cells,   \* places in the list whose memory is allocated
  copy,    \* whether the copy of the definition is allocated
  pin,     \* PIN
  pj,      \* whether the memory PIN points at is allocated
  perrno,  \* pj_errno
  cerrno   \* errno

initVars == <<at, words, list, cells, copy, pin, pj, perrno, cerrno>>

ENOMEM == 12
ENOENT == 2
ERANGE == 34

ProjInitInit ==
  /\ at = "out"
  /\ words = <<>> /\ list = <<>> /\ cells = {}
  /\ copy = FALSE
  /\ pin = NULL /\ pj = FALSE
  /\ perrno = 0 /\ cerrno = 0

-----------------------------------------------------------------------------
(* Tables                                                                   *)

Word(key, val) == [key |-> key, val |-> val]

(* pj_list: what a projection makes of coordinates, and whether pj_inv can. *)
Projections ==
  [latlong |-> [kind |-> "latlong", inv |-> TRUE],
   geocent |-> [kind |-> "geocent", inv |-> TRUE],
   lcc     |-> [kind |-> "projected", inv |-> TRUE],
   airy    |-> [kind |-> "projected", inv |-> FALSE]]

(* pj_ellps: those the datums name are all here; a minor axis or a flattening. *)
Ellipsoid(axis, form, flattening) == <<Word("a", axis), Word(form, flattening)>>
Ellipsoids ==
  [WGS84    |-> Ellipsoid("6378137.0", "rf", "298.257223563"),
   GRS80    |-> Ellipsoid("6378137.0", "rf", "298.257222101"),
   clrk66   |-> Ellipsoid("6378206.4", "b", "6356583.8"),
   clrk80   |-> Ellipsoid("6378249.145", "rf", "293.4663"),
   bessel   |-> Ellipsoid("6377397.155", "rf", "299.1528128"),
   mod_airy |-> Ellipsoid("6377340.189", "b", "6356034.446"),
   intl     |-> Ellipsoid("6378388.0", "rf", "297."),
   airy     |-> Ellipsoid("6377563.396", "b", "6356256.910"),
   sphere   |-> Ellipsoid("6370997.0", "b", "6370997.0")]

(* pj_datums, where the numbers of towgs84 are those of the datum named.    *)
Datum(key, val, ellipse) == <<Word("ellps", ellipse), Word(key, val)>>
DatumTable ==
  [WGS84    |-> Datum("towgs84", "0,0,0", "WGS84"),
   GGRS87   |-> Datum("towgs84", "GGRS87", "GRS80"),
   NAD83    |-> Datum("towgs84", "0,0,0", "GRS80"),
   NAD27    |-> Datum("nadgrids", "@conus,@alaska,@ntv2_0.gsb,@ntv1_can.dat", "clrk66"),
   potsdam  |-> Datum("towgs84", "potsdam", "bessel"),
   carthage |-> Datum("towgs84", "carthage", "clark80"),
   hermannskogel |-> Datum("towgs84", "hermannskogel", "bessel"),
   ire65    |-> Datum("towgs84", "ire65", "mod_airy"),
   nzgd49   |-> Datum("towgs84", "nzgd49", "intl"),
   OSGB36   |-> Datum("towgs84", "OSGB36", "airy")]

(* Values of towgs84 of which one of the last four numbers is not zero.     *)
Rotated == {"ire65", "nzgd49", "OSGB36"}

Units == {"km", "m", "us-ft"}
PrimeMeridians == {"greenwich", "lisbon", "paris", "ferro"}
Angles == {"10e", "0"}

(* proj_def.dat                                                             *)
General == <<Word("ellps", "WGS84")>>
Special == [lcc |-> <<Word("lat_1", "33"), Word("lat_2", "45")>>]

(* Whatever is spelt out is a string: TLC evaluates it, and the provers, who *)
(* do not know it of a literal, cite it.                                    *)
ASSUME SpellingAssumption ==
  /\ General \in Seq(Words)
  /\ \A name \in DOMAIN Special : Special[name] \in Seq(Words)
  /\ \A name \in DOMAIN DatumTable : DatumTable[name] \in Seq(Words)
  /\ \A name \in DOMAIN Ellipsoids : Ellipsoids[name] \in Seq(Words)
  /\ {"caller", "init", "defaults", "datum", "ellipsoid"} \subseteq STRING
  /\ {"", "0", "1", "<0", "m", "greenwich", "mean", "nan", "-inf", "es", "e", "rf", "f", "b"} \subseteq STRING

-----------------------------------------------------------------------------
(* The list                                                                 *)

Entry(word, from) == [key |-> word.key, val |-> word.val, from |-> from]

(* pj_param: the first entry of that key.                                   *)
Given(pl, key) == \E k \in DOMAIN pl : pl[k].key = key
FirstOf(pl, key) == pl[Min({k \in DOMAIN pl : pl[k].key = key})]
Value(pl, key) == FirstOf(pl, key).val
ValueOr(pl, key, none) == IF Given(pl, key) THEN Value(pl, key) ELSE none

Bool(pl, key) == ValueOr(pl, key, "F") \in {"", "T", "t"}
BadBool(pl, key) == ValueOr(pl, key, "F") \notin {"", "T", "t", "F", "f"}
BoolErrno(pl, key) == IF BadBool(pl, key) THEN -8 ELSE perrno

(* What get_opt looks for is the whole word, so that another value of a key  *)
(* is appended, behind the one that counts.                                 *)
Present(pl, word) ==
  \E k \in DOMAIN pl : pl[k].key = word.key /\ word.val \in {"", pl[k].val}

(* Fault: a datum does not keep the default ellipsoid out.                  *)
EarthGivenButDatum(pl) == \E key \in {"ellps", "a", "b", "rf", "f"} : Given(pl, key)

(* Any earth model information, which keeps a default ellipsoid out.        *)
EarthKeys == {"datum", "ellps", "a", "b", "rf", "f"}
EarthGiven(pl) == \E key \in EarthKeys : Given(pl, key)

(* get_opt, once it has found the section: one word of it, and all of them.  *)
WithWord(pl, word, from) ==
  IF Present(pl, word) \/ (word.key = "ellps" /\ EarthGiven(pl))
  THEN pl ELSE Append(pl, Entry(word, from))
ExtendedBy(pl, section, from) ==
  LET upTo[n \in 0..Len(section)] ==
        IF n = 0 THEN pl ELSE WithWord(upTo[n - 1], section[n], from)
  IN  upTo
Extended(pl, section, from) == ExtendedBy(pl, section, from)[Len(section)]

(* With a row of a table behind it.                                         *)
WithRow(pl, row, from) == pl \o [k \in DOMAIN row |-> Entry(row[k], from)]

Grow(pl) ==
  /\ list' = pl
  /\ cells' = cells \cup (Len(list) + 1..Len(pl))

Fail(code) == perrno' = code /\ at' = "bum_call"

-----------------------------------------------------------------------------
(* pj_init_plus and pj_init                                                 *)

(* More words than places: the copy of the definition is not freed.         *)
TooManyWords(ws) ==
  /\ Len(ws) >= MAX_ARG
  /\ words' = ws
  /\ copy' = TRUE
  /\ perrno' = -44
  /\ at' = "returned"
  /\ UNCHANGED <<list, cells, pin, pj, cerrno>>

CallInit(ws, plus) ==
  /\ plus => Len(ws) < MAX_ARG
  /\ words' = ws
  /\ copy' = plus
  /\ Grow([k \in DOMAIN ws |-> Entry(ws[k], "caller")])
  /\ cerrno' = 0
  /\ IF ws = <<>> THEN Fail(-1) ELSE perrno' = 0 /\ at' = "init"
  /\ UNCHANGED <<pin, pj>>

NoInit ==
  /\ at = "init"
  /\ ~Given(list, "init")
  /\ at' = "proj"
  /\ UNCHANGED <<words, list, cells, copy, pin, pj, perrno, cerrno>>

(* get_init fails: no colon, no HOME to look in (and no error), no file.    *)
InitFails ==
  /\ at = "init"
  /\ Given(list, "init")
  /\ at' = "bum_call"
  /\ LET file == InitFile[Value(list, "init")]
     IN  IF ~file.colon THEN perrno' = -3 /\ UNCHANGED cerrno
         ELSE IF ~file.home THEN UNCHANGED <<perrno, cerrno>>
         ELSE cerrno' = ENOENT /\ UNCHANGED perrno
  /\ UNCHANGED <<words, list, cells, copy, pin, pj>>

ReadInit ==
  /\ at = "init"
  /\ Given(list, "init")
  /\ LET file == InitFile[Value(list, "init")]
     IN  /\ file.colon /\ file.home
         /\ Grow(Extended(list, file.words, "init"))
  /\ IF list' = list THEN Fail(-2) ELSE at' = "proj" /\ UNCHANGED perrno
  /\ UNCHANGED <<words, copy, pin, pj, cerrno>>

SelectProjection ==
  /\ at = "proj"
  /\ CASE ~Given(list, "proj") -> Fail(-4)
       [] Given(list, "proj") /\ Value(list, "proj") \notin DOMAIN Projections -> Fail(-5)
       [] OTHER -> at' = "defaults" /\ UNCHANGED perrno
  /\ UNCHANGED <<words, list, cells, copy, pin, pj, cerrno>>

(* get_defaults; what errno says of a file that is not there is forgotten.  *)
Defaults(found) ==
  /\ at = "defaults"
  /\ LET name == Value(list, "proj")
         special == IF name \in DOMAIN Special THEN Special[name] ELSE <<>>
     IN  Grow(IF found /\ ~Bool(list, "no_defs")
              THEN Extended(Extended(list, General, "defaults"), special, "defaults")
              ELSE list)
  /\ perrno' = BoolErrno(list, "no_defs")
  /\ at' = "alloc"
  /\ UNCHANGED <<words, copy, pin, pj, cerrno>>

NoMemory ==
  /\ at = "alloc"
  /\ cerrno' = ENOMEM
  /\ at' = "bum_call"
  /\ UNCHANGED <<words, list, cells, copy, pin, pj, perrno>>

Allocate ==
  /\ at = "alloc"
  /\ pj' = TRUE
  /\ pin' = [kind |-> "projected", type |-> "unknown", params |-> "",
             a |-> "", es |-> <<>>, unit |-> "", pm |-> "", wrap |-> 0, inv |-> FALSE]
  /\ at' = "datum"
  /\ UNCHANGED <<words, list, cells, copy, perrno, cerrno>>

(* pj_datum_set                                                             *)
UnknownDatum ==
  /\ at = "datum"
  /\ Given(list, "datum")
  /\ Value(list, "datum") \notin DOMAIN DatumTable
  /\ Fail(-9)
  /\ UNCHANGED <<words, list, cells, copy, pin, pj, cerrno>>

DatumSet ==
  /\ at = "datum"
  /\ Given(list, "datum") => Value(list, "datum") \in DOMAIN DatumTable
  /\ LET row == DatumTable[Value(list, "datum")]
         full == IF Given(list, "datum") THEN WithRow(list, row, "datum") ELSE list
         towgs84 == Value(full, "towgs84")
     IN  /\ Grow(full)
         /\ pin' = CASE Given(full, "nadgrids") ->
                          [pin EXCEPT !.type = "gridshift", !.params = Value(full, "nadgrids")]
                     [] ~Given(full, "nadgrids") /\ Given(full, "towgs84") ->
                          [pin EXCEPT !.type = IF towgs84 \in Rotated THEN "7param" ELSE "3param",
                                      !.params = towgs84]
                     [] OTHER -> pin
  /\ at' = "ellipsoid"
  /\ UNCHANGED <<words, copy, pj, perrno, cerrno>>

-----------------------------------------------------------------------------
(* pj_ell_set                                                               *)

(* The list with the two words of its ellipsoid, as long as pj_ell_set runs. *)
WithEllipsoid(pl) ==
  IF Given(pl, "ellps") THEN WithRow(pl, Ellipsoids[Value(pl, "ellps")], "ellipsoid") ELSE pl

(* Fault: the words are left on the list, although their memory is freed.   *)
KeptEllipsoid(pl) == WithEllipsoid(pl)
CutBack(pl) == pl

(* The square of the eccentricity: <<>> for zero, "1", "<0", the form it was *)
(* given in, or "-inf": a minor axis, which no one gives as zero, is divided *)
(* by a major axis of zero.  The first form counts, wherever it is from.    *)
Forms == <<"es", "e", "rf", "f", "b">>
Flattening(pl, a) ==
  LET given == {k \in DOMAIN Forms : Given(pl, Forms[k])}
      form == Forms[Min(given)]
      val == Value(pl, form)
  IN  IF given = {} THEN <<>>
      ELSE IF form = "b"
           THEN IF a = "0" THEN <<"-inf">> ELSE IF a = val THEN <<>> ELSE <<"b", val>>
           ELSE IF val = "0" THEN <<>> ELSE IF val \in {"1", "<0"} THEN <<val>> ELSE <<form, val>>

(* R_A stands for the five ways to a sphere of like size, of which R_a, R_g *)
(* and R_h differ where b is given without a; R_lat_a for the two at a      *)
(* latitude, whose sine is compared with a right angle and passes.          *)
Sphere(pl) == Bool(pl, "R_A") \/ Given(pl, "R_lat_a")

(* The radius of that sphere: zero times an infinity is not a number, and   *)
(* not found to be <= 0 either.                                             *)
Radius(a, es) == IF es = <<"-inf">> THEN "nan" ELSE IF a = "0" THEN a ELSE "mean"

ByRadius(pl) == Given(pl, "R")

UnknownEllipsoid ==
  /\ at = "ellipsoid"
  /\ ~ByRadius(list)
  /\ Given(list, "ellps")
  /\ Value(list, "ellps") \notin DOMAIN Ellipsoids
  /\ Fail(-9)
  /\ UNCHANGED <<words, list, cells, copy, pin, pj, cerrno>>

RadiusSet ==
  /\ at = "ellipsoid"
  /\ ByRadius(list)
  /\ pin' = [pin EXCEPT !.a = Value(list, "R")]
  /\ IF Value(list, "R") = "0" THEN Fail(-13) ELSE at' = "shape" /\ UNCHANGED perrno
  /\ UNCHANGED <<words, list, cells, copy, pj, cerrno>>

EllipsoidSet ==
  /\ at = "ellipsoid"
  /\ ~ByRadius(list)
  /\ Given(list, "ellps") => Value(list, "ellps") \in DOMAIN Ellipsoids
  /\ LET pl == WithEllipsoid(list)
         a == ValueOr(pl, "a", "0")
         es == Flattening(pl, a)
         noRf == ~Given(pl, "es") /\ ~Given(pl, "e") /\ ValueOr(pl, "rf", "1") = "0"
         axis == IF Sphere(pl) THEN Radius(a, es) ELSE a
         negative == ~Sphere(pl) /\ es \in {<<"<0">>, <<"-inf">>}
         code == BoolErrno(pl, "R_A")
     IN  /\ pin' = IF Sphere(pl) THEN [pin EXCEPT !.a = axis]
                   ELSE [pin EXCEPT !.a = axis, !.es = es]
         /\ CASE noRf -> Fail(-10)
              [] ~noRf /\ code # 0 -> Fail(code)
              [] ~noRf /\ code = 0 /\ negative -> Fail(-12)
              [] ~noRf /\ code = 0 /\ ~negative /\ axis = "0" -> Fail(-13)
              [] OTHER -> at' = "shape" /\ UNCHANGED perrno
  /\ list' = CutBack(list)
  /\ UNCHANGED <<words, cells, copy, pj, cerrno>>

-----------------------------------------------------------------------------
(* The rest of pj_init                                                      *)

GRS80Like == {<<"rf", "298.257223563">>, <<"rf", "298.257222101">>}

ShapeSet ==
  /\ at = "shape"
  /\ LET zero == pin.type = "3param" /\ pin.params = "0,0,0"
         wgs84 == zero /\ pin.a = "6378137.0" /\ pin.es \in GRS80Like
         pending == IF BadBool(list, "over") \/ (pin.es # <<>> /\ BadBool(list, "geoc"))
                    THEN -8 ELSE perrno
     IN  IF pin.es = <<"1">> THEN Fail(-6) /\ UNCHANGED pin
         ELSE /\ pin' = [pin EXCEPT !.type = IF wgs84 THEN "wgs84" ELSE @,
                                    !.params = IF wgs84 THEN "" ELSE @,
                                    !.wrap = IF ValueOr(list, "lon_wrap", "0") = "180" THEN 2 ELSE 0]
              /\ IF ValueOr(list, "k_0", ValueOr(list, "k", "1")) \in {"0", "<0"}
                 THEN Fail(-31)
                 ELSE perrno' = pending /\ at' = "units"
  /\ UNCHANGED <<words, list, cells, copy, pj, cerrno>>

UnitsSet ==
  /\ at = "units"
  /\ LET unit == ValueOr(list, "units", ValueOr(list, "to_meter", "m"))
     IN  IF Given(list, "units") /\ unit \notin Units
         THEN Fail(-7) /\ UNCHANGED pin
         ELSE /\ pin' = [pin EXCEPT !.unit = IF unit = "m" THEN "" ELSE unit]
              /\ at' = "meridian"
              /\ UNCHANGED perrno
  /\ UNCHANGED <<words, list, cells, copy, pj, cerrno>>

MeridianSet ==
  /\ at = "meridian"
  /\ LET pm == ValueOr(list, "pm", "greenwich")
     IN  IF pm \notin PrimeMeridians \cup Angles
         THEN Fail(-46) /\ UNCHANGED pin
         ELSE /\ pin' = [pin EXCEPT !.pm = IF pm \in {"greenwich", "0"} THEN "" ELSE pm]
              /\ at' = "setup"
              /\ UNCHANGED perrno
  /\ UNCHANGED <<words, list, cells, copy, pj, cerrno>>

(* The projection refuses its parameters: it frees PIN and returns null.     *)
SetupFails(code) ==
  /\ at = "setup"
  /\ pj' = FALSE
  /\ pin' = NULL
  /\ Fail(code)
  /\ UNCHANGED <<words, list, cells, copy, cerrno>>

(* It returns PIN; an errno of its numbers, or an error noted before, counts. *)
Setup(err) ==
  /\ at = "setup"
  /\ LET row == Projections[Value(list, "proj")]
     IN  pin' = [pin EXCEPT !.kind = row.kind, !.inv = row.inv]
  /\ cerrno' = err
  /\ IF err # 0 \/ perrno # 0
     THEN at' = "bum_call" /\ UNCHANGED copy
     ELSE at' = "returned" /\ copy' = FALSE
  /\ UNCHANGED <<words, list, cells, pj, perrno>>

(* Freeing what is not allocated ends the program.                          *)
FreeAll(next) ==
  IF (pin # NULL => pj) /\ DOMAIN list \subseteq cells
  THEN /\ cells' = cells \ DOMAIN list
       /\ list' = <<>>
       /\ pj' = (pj /\ pin = NULL)
       /\ pin' = NULL
       /\ at' = next
  ELSE at' = "crash" /\ UNCHANGED <<cells, list, pj, pin>>

BumCall ==
  /\ at = "bum_call"
  /\ perrno' = IF perrno = 0 THEN cerrno ELSE perrno
  /\ FreeAll("returned")
  /\ copy' = FALSE
  /\ UNCHANGED <<words, cerrno>>

(* pj_free, by a caller who has a handle.                                   *)
Free ==
  /\ at = "returned"
  /\ pin # NULL
  /\ FreeAll("freed")
  /\ UNCHANGED <<words, copy, perrno, cerrno>>

(* The caller goes on to something else; what is lost is forgotten.         *)
Leave ==
  /\ at = "freed" \/ (at = "returned" /\ pin = NULL)
  /\ at' = "out"
  /\ words' = <<>> /\ list' = <<>> /\ cells' = {}
  /\ copy' = FALSE
  /\ pin' = NULL /\ pj' = FALSE
  /\ perrno' = 0 /\ cerrno' = 0

-----------------------------------------------------------------------------
InitCalls ==
  at = "out" /\ \E ws \in Definitions : TooManyWords(ws) \/ \E plus \in BOOLEAN : CallInit(ws, plus)
ParameterStep ==
  NoInit \/ InitFails \/ ReadInit \/ SelectProjection \/ (\E found \in BOOLEAN : Defaults(found))
  \/ NoMemory \/ Allocate
EarthStep ==
  UnknownDatum \/ DatumSet \/ UnknownEllipsoid \/ RadiusSet \/ EllipsoidSet \/ ShapeSet
  \/ UnitsSet \/ MeridianSet
SetupStep == (\E code \in {-21, -35} : SetupFails(code)) \/ (\E err \in {0, ERANGE} : Setup(err))

ProjInitNext == InitCalls \/ ParameterStep \/ EarthStep \/ SetupStep \/ BumCall \/ Free \/ Leave

(* One call at a time, of pj_init, pj_free or pj_transform.                 *)
LibraryInit == Init /\ ProjInitInit
LibraryNext ==
  \/ at = "out" /\ Next /\ UNCHANGED initVars
  \/ pc = "idle" /\ dst = NULL /\ ProjInitNext /\ UNCHANGED vars

LibrarySpec == LibraryInit /\ [][LibraryNext]_<<vars, initVars>> /\ WF_vars(Step)

-----------------------------------------------------------------------------
(* What a handle is made of                                                 *)

SizeKeys == {"R", "a", "es", "e", "rf", "f", "b", "ellps", "R_A", "R_lat_a"}

(* By the caller, or by the init file he names.                             *)
Said(pl, key) == \E k \in DOMAIN pl : pl[k].key = key /\ pl[k].from \in {"caller", "init"}
EarthSaid(pl) == \E key \in EarthKeys : Said(pl, key)
SizeSaid(pl)  == \E key \in SizeKeys : Said(pl, key)

(* The coordinate system a handle stands for, as Transform knows it.        *)
EllipsoidName(a, es) ==
  IF a = "6378137.0" /\ es \in GRS80Like THEN "WGS84" ELSE <<a, es>>
SystemOf(p) ==
  [kind |-> p.kind, type |-> p.type, ell |-> EllipsoidName(p.a, p.es), params |-> p.params,
   pm |-> p.pm, unit |-> p.unit, wrap |-> p.wrap, inv |-> p.inv]

Returned == at = "returned" /\ pin # NULL

(* pj_init ends in a handle and no error, or in an error and nothing left   *)
(* of what it allocated: whichever error path it takes, it frees each block *)
(* once and none that the projection has freed.  Two exceptions the code    *)
(* has: a definition of too many words keeps its copy, and a home directory  *)
(* that is not set is an error without a number.                            *)
InitClean ==
  /\ at # "crash"
  /\ at \notin {"out", "crash"} => DOMAIN list \subseteq cells /\ (pin # NULL => pj)
  /\ Returned => perrno = 0 /\ cells = DOMAIN list /\ ~copy
  /\ at = "returned" /\ pin = NULL =>
       /\ cells = {} /\ ~pj
       /\ copy <=> perrno = -44
       /\ perrno = 0 => \E k \in DOMAIN words : words[k].key = "init" /\ ~InitFile[words[k].val].home
  /\ at = "freed" => cells = {} /\ ~pj /\ ~copy

(* A handle is what its definition says: it is one of the systems Transform *)
(* is right about; what the caller says of a key is never replaced by an    *)
(* init file, a default or a table; the default ellipsoid joins only those  *)
(* who said nothing of the earth; the datum of the list stands on its own   *)
(* ellipsoid unless someone before it named another or gave a size; and     *)
(* nothing is on the list but what was said and what the datum stands for.  *)
HandleAsDefined ==
  Returned =>
    /\ IsSystem(SystemOf(pin))
    /\ \A k \in DOMAIN words : Value(list, words[k].key) = Value(words, words[k].key)
    /\ (\E k \in DOMAIN list : list[k] = Entry(General[1], "defaults")) => ~EarthSaid(list)
    /\ Given(list, "datum") /\ ~SizeSaid(list) =>
         LET axes == Ellipsoids[DatumTable[Value(list, "datum")][1].val]
         IN  pin.a = axes[1].val /\ pin.es = <<axes[2].key, axes[2].val>>
    /\ \A k \in DOMAIN list : list[k].from \in {"caller", "init", "defaults", "datum"}
=============================================================================
