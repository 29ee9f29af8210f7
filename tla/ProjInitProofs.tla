--------------------------- MODULE ProjInitProofs ---------------------------
(***************************************************************************)
(* What pj_init and pj_free do with memory, errors and parameters, for any  *)
(* definitions and init files, and that pj_transform is in the library what *)
(* it is on its own.                                                        *)
(*                                                                          *)
(* PInv says of each step of pj_init what is allocated (Held), which errors *)
(* can be noted (Errors), who has put what on the list (Listed), which      *)
(* ellipsoid the list and PIN then have (Measured) and when the datum is    *)
(* that of WGS84 (Formed).                                                  *)
(***************************************************************************)
EXTENDS ProjInit, TransformProofs, Induction

Entries == [key : STRING, val : STRING, from : STRING]

(* The steps of pj_init without PIN, and those with it.                     *)
Before == {"init", "proj", "defaults", "alloc"}
Making == {"datum", "ellipsoid", "shape", "units", "meridian", "setup"}
InitStages == Before \cup Making
Alive  == at \in InitStages \/ Returned

(* Has one of the words an init file without a home to look in?             *)
Homeless == \E k \in DOMAIN words : words[k].key = "init" /\ ~InitFile[words[k].val].home

Typed ==
  /\ at \in InitStages \cup {"out", "bum_call", "returned", "freed"}
  /\ words \in Seq(Words)
  /\ \A k \in DOMAIN words : words[k].key = "init" => words[k].val \in DOMAIN InitFile
  /\ list \in Seq(Entries)
  /\ pin \in Handles \cup {NULL} /\ copy \in BOOLEAN
  /\ perrno \in Int /\ cerrno \in {0, ENOENT, ENOMEM, ERANGE}

(* What is allocated: the places of the list and no others, PIN from one    *)
(* step to its end, and after a return only what the caller then holds.     *)
Held ==
  /\ cells = DOMAIN list
  /\ pj = (pin # NULL)
  /\ at \in Before \cup {"out", "freed"} => pin = NULL
  /\ at \in Making => pin # NULL
  /\ at \in {"out", "freed"} \/ (at = "returned" /\ pin = NULL) => list = <<>>
  /\ at \in {"out", "freed"} \/ Returned => ~copy

(* An error is noted on the way, and only that of a flag does not end it.   *)
Errors ==
  /\ at \in InitStages => perrno \in {0, -8}
  /\ at \in {"init", "proj", "defaults"} => perrno = 0
  /\ at = "init" => cerrno = 0
  /\ at = "bum_call" => perrno # -44 /\ (perrno = 0 /\ cerrno = 0 => Homeless)
  /\ Returned => perrno = 0
  /\ at = "returned" /\ pin = NULL => (copy <=> perrno = -44) /\ (perrno = 0 => Homeless)

(* The list begins with the words of the caller; all its entries are from    *)
(* some places, and the defaults say no more than they may.                 *)
StartsWith(pl, ws) ==
  Len(ws) <= Len(pl) /\ \A k \in DOMAIN ws : pl[k] = Entry(ws[k], "caller")
From(pl, froms) == \A k \in DOMAIN pl : pl[k].from \in froms
Unobtrusive(pl) ==
  \A k \in DOMAIN pl : pl[k].from = "defaults" =>
    pl[k].key \in {"ellps", "lat_1", "lat_2"} /\ (pl[k].key = "ellps" => ~EarthSaid(pl))

HasProjection(pl) == Given(pl, "proj") /\ Value(pl, "proj") \in DOMAIN Projections

Listed ==
  Alive =>
    /\ StartsWith(list, words) /\ Unobtrusive(list)
    /\ at \in {"defaults", "alloc"} \cup Making => HasProjection(list)
    /\ at = "init" => Len(list) = Len(words)
    /\ at \in {"init", "proj", "defaults"} => From(list, {"caller", "init"})
    /\ at \in {"alloc", "datum"} => From(list, {"caller", "init", "defaults"})
    /\ From(list, {"caller", "init", "defaults", "datum"})

(* A datum that is given and whose size nobody has said brings its own.     *)
DatumCounts(pl) == Given(pl, "datum") /\ ~SizeSaid(pl)
OwnEllipsoid(pl) == DatumTable[Value(pl, "datum")][1].val
Brought(pl) ==
  DatumCounts(pl) =>
    /\ Value(pl, "datum") \in DOMAIN DatumTable
    /\ Given(pl, "ellps") /\ Value(pl, "ellps") = OwnEllipsoid(pl)
    /\ \A key \in SizeKeys \ {"ellps"} : ~Given(pl, key)
Fits(p, pl) ==
  DatumCounts(pl) =>
    LET axes == Ellipsoids[OwnEllipsoid(pl)]
    IN  p.a = axes[1].val /\ p.es = <<axes[2].key, axes[2].val>>

Measured ==
  /\ at \in Making \ {"datum"} \/ Returned => Brought(list)
  /\ at \in Making \ {"datum", "ellipsoid"} \/ Returned => Fits(pin, list)

(* The datum is that of WGS84 only on an ellipsoid like it.                 *)
LikeWGS84(p) == p.type = "wgs84" => p.params = "" /\ p.a = "6378137.0" /\ p.es \in GRS80Like
Formed ==
  /\ at \in {"datum", "ellipsoid", "shape"} => pin.type # "wgs84"
  /\ at \in {"units", "meridian", "setup"} \/ Returned => LikeWGS84(pin)

PInv == Typed /\ Held /\ Errors /\ Listed /\ Measured /\ Formed

LEMMA ShortSequences ==
  ASSUME NEW S, NEW x \in S, NEW y \in S
  PROVE  <<>> \in Seq(S) /\ <<x>> \in Seq(S) /\ <<x, y>> \in Seq(S)
<1>1. <<>> \in Seq(S)
  OBVIOUS
<1>2. <<x>> \in Seq(S)
  OBVIOUS
<1>3. <<x, y>> \in Seq(S)
  OBVIOUS
<1> QED BY <1>1, <1>2, <1>3

-----------------------------------------------------------------------------
(* The list                                                                 *)

(* The first entry of a key is the one no other of that key is before.      *)
LEMMA FirstIs ==
  ASSUME NEW pl, NEW n \in Nat, DOMAIN pl = 1..n, NEW key,
         NEW m \in 1..n, pl[m].key = key, \A j \in 1..m - 1 : pl[j].key # key
  PROVE  Given(pl, key) /\ FirstOf(pl, key) = pl[m]
<1> DEFINE S == {k \in DOMAIN pl : pl[k].key = key}
<1>1. S \subseteq Nat /\ m \in S /\ \A k \in S : m <= k
  OBVIOUS
<1> HIDE DEF S
<1>2. Min(S) \in S /\ \A k \in S : Min(S) <= k
  BY <1>1, MinOfNaturals
<1>3. Min(S) = m
  <2>1. Min(S) \in Nat /\ m \in Nat /\ Min(S) <= m /\ m <= Min(S)
    BY <1>1, <1>2
  <2> QED BY <2>1
<1>4. FirstOf(pl, key) = pl[m]
  BY <1>3 DEF FirstOf, S
<1> QED BY <1>4 DEF Given

(* Of a key that is given there is a first entry.                           *)
LEMMA FirstGiven ==
  ASSUME NEW pl, NEW n \in Nat, DOMAIN pl = 1..n, NEW key, Given(pl, key)
  PROVE  \E m \in 1..n : /\ pl[m].key = key /\ \A j \in 1..m - 1 : pl[j].key # key
                         /\ FirstOf(pl, key) = pl[m]
<1> DEFINE S == {k \in DOMAIN pl : pl[k].key = key}
<1>1. S \subseteq Nat /\ S # {}
  BY DEF Given
<1> HIDE DEF S
<1>2. Min(S) \in S /\ \A k \in S : Min(S) <= k
  BY <1>1, MinOfNaturals
<1>3. /\ Min(S) \in 1..n /\ pl[Min(S)].key = key
      /\ \A j \in 1..Min(S) - 1 : pl[j].key # key
  <2>1. Min(S) \in 1..n /\ pl[Min(S)].key = key
    BY <1>2 DEF S
  <2>2. ASSUME NEW j \in 1..Min(S) - 1 PROVE pl[j].key # key
    <3>1. j \in 1..n /\ ~(Min(S) <= j)
      BY <2>1
    <3> QED BY <1>2, <3>1 DEF S
  <2> QED BY <2>1, <2>2
<1>4. FirstOf(pl, key) = pl[Min(S)]
  BY DEF FirstOf, S
<1> QED BY <1>3, <1>4

(* What a list of entries says of a key is a name.                          *)
LEMMA ValueType ==
  ASSUME NEW pl \in Seq(Entries), NEW key
  PROVE  /\ Given(pl, key) => Value(pl, key) \in STRING
         /\ \A none \in STRING : ValueOr(pl, key, none) \in STRING
<1>1. ASSUME Given(pl, key) PROVE Value(pl, key) \in STRING
  <2>1. DOMAIN pl = 1..Len(pl) /\ Len(pl) \in Nat
    OBVIOUS
  <2>2. PICK m \in 1..Len(pl) : FirstOf(pl, key) = pl[m]
    BY <1>1, <2>1, FirstGiven
  <2>3. pl[m] \in Entries
    BY <2>2
  <2> QED BY <2>2, <2>3 DEF Value, Entries
<1> QED BY <1>1 DEF ValueOr

(* One list begins with another.                                            *)
Grown(pl, ql) == Len(pl) <= Len(ql) /\ \A k \in 1..Len(pl) : ql[k] = pl[k]

(* What a list says, a longer one says as well.                             *)
LEMMA GrownSays ==
  ASSUME NEW pl \in Seq(Entries), NEW ql \in Seq(Entries), Grown(pl, ql), NEW key, Given(pl, key)
  PROVE  Given(ql, key) /\ Value(ql, key) = Value(pl, key)
<1>1. /\ DOMAIN pl = 1..Len(pl) /\ Len(pl) \in Nat
      /\ DOMAIN ql = 1..Len(ql) /\ Len(ql) \in Nat
  OBVIOUS
<1>2. PICK m \in 1..Len(pl) : /\ pl[m].key = key /\ \A j \in 1..m - 1 : pl[j].key # key
                              /\ FirstOf(pl, key) = pl[m]
  BY <1>1, FirstGiven
<1>3. m \in 1..Len(ql) /\ ql[m] = pl[m] /\ \A j \in 1..m - 1 : ql[j].key # key
  BY <1>2 DEF Grown
<1>4. ql[m].key = key
  BY <1>2, <1>3
<1>5. Given(ql, key) /\ FirstOf(ql, key) = ql[m]
  BY <1>1, <1>3, <1>4, FirstIs
<1> QED BY <1>2, <1>3, <1>5 DEF Value

(* One that begins with words says of their keys what the words say.        *)
LEMMA WordsCount ==
  ASSUME NEW pl \in Seq(Entries), NEW ws \in Seq(Words), StartsWith(pl, ws), NEW key, Given(ws, key)
  PROVE  Given(pl, key) /\ Value(pl, key) = Value(ws, key)
<1>1. /\ DOMAIN ws = 1..Len(ws) /\ Len(ws) \in Nat
      /\ DOMAIN pl = 1..Len(pl) /\ Len(pl) \in Nat
  OBVIOUS
<1>2. PICK m \in 1..Len(ws) : /\ ws[m].key = key /\ \A j \in 1..m - 1 : ws[j].key # key
                              /\ FirstOf(ws, key) = ws[m]
  BY <1>1, FirstGiven
<1>3. \A k \in 1..Len(ws) : pl[k].key = ws[k].key /\ pl[k].val = ws[k].val
  <2> SUFFICES ASSUME NEW k \in 1..Len(ws)
               PROVE  pl[k].key = ws[k].key /\ pl[k].val = ws[k].val
    OBVIOUS
  <2>1. pl[k] = Entry(ws[k], "caller")
    BY <1>1 DEF StartsWith
  <2>2. Entry(ws[k], "caller").key = ws[k].key /\ Entry(ws[k], "caller").val = ws[k].val
    BY DEF Entry
  <2> QED BY <2>1, <2>2
<1>4. m \in 1..Len(pl) /\ pl[m].key = key /\ \A j \in 1..m - 1 : pl[j].key # key
  BY <1>1, <1>2, <1>3 DEF StartsWith
<1>5. Given(pl, key) /\ FirstOf(pl, key) = pl[m]
  BY <1>1, <1>4, FirstIs
<1> QED BY <1>2, <1>3, <1>5 DEF Value

(* A word with where it is from is an entry.                                *)
LEMMA EntryType ==
  ASSUME NEW word \in Words, NEW from \in STRING
  PROVE  Entry(word, from) \in Entries
BY DEF Words, Entry, Entries

(* get_opt as the recursion it is.                                          *)
LEMMA ExtendedUnfold ==
  ASSUME NEW pl \in Seq(Entries), NEW section \in Seq(Words), NEW from \in STRING
  PROVE  /\ ExtendedBy(pl, section, from)[0] = pl
         /\ \A n \in 1..Len(section) :
              ExtendedBy(pl, section, from)[n] =
                WithWord(ExtendedBy(pl, section, from)[n - 1], section[n], from)
<1> DEFINE N == Len(section)
           next(x, n) == WithWord(x, section[n], from)
           Is(f) == f = [n \in 0..N |-> IF n = 0 THEN pl ELSE next(f[n - 1], n)]
           t == ExtendedBy(pl, section, from)
<1>1. N \in Nat /\ \A n \in 1..N, x \in Seq(Entries) : next(x, n) \in Seq(Entries)
  <2>1. ASSUME NEW n \in 1..N PROVE Entry(section[n], from) \in Entries
    <3>1. section[n] \in Words
      OBVIOUS
    <3> QED BY <3>1, EntryType
  <2> QED BY <2>1 DEF WithWord
<1> HIDE DEF N, next
<1>2. Is(t)
  <2> DEFINE step == [p \in Seq(Entries) \X (1..N) |-> next(p[1], p[2])]
  <2>1. \A x \in Seq(Entries), n \in 1..N : step[<<x, n>>] = next(x, n)
    OBVIOUS
  <2> HIDE DEF step
  <2>2. Steps(step, Seq(Entries), N)
    BY <1>1, <2>1 DEF Steps
  <2>3. PICK f : Iterates(f, pl, step, Seq(Entries), N)
    BY <1>1, <2>2, IterationExists
  <2>4. /\ f \in [0..N -> Seq(Entries)] /\ f[0] = pl
        /\ \A n \in 1..N : f[n] = step[<<f[n - 1], n>>]
    BY <2>3 DEF Iterates
  <2>5. \A n \in 0..N : n # 0 => n \in 1..N /\ f[n - 1] \in Seq(Entries)
    BY <1>1, <2>4
  <2>6. Is(f)
    BY <2>1, <2>4, <2>5
  <2> QED BY <2>6 DEF ExtendedBy, N, next
<1> HIDE DEF t
<1>3. t[0] = pl
  BY <1>1, <1>2
<1>4. \A n \in 1..N : t[n] = next(t[n - 1], n)
  <2> SUFFICES ASSUME NEW n \in 1..N PROVE t[n] = next(t[n - 1], n)
    OBVIOUS
  <2>1. n \in 0..N /\ n # 0
    BY <1>1
  <2> QED BY <1>2, <2>1
<1> QED BY <1>3, <1>4 DEF t, N, next

(* What a section of a file adds: words of it, and an ellipsoid only to a    *)
(* list that says nothing of the earth.                                     *)
Adds(pl, ql, section, from) ==
  /\ Grown(pl, ql)
  /\ \A k \in Len(pl) + 1..Len(ql) :
       /\ \E n \in 1..Len(section) : ql[k] = Entry(section[n], from)
       /\ ql[k].key = "ellps" => ~EarthGiven(pl)

LEMMA ExtendedAdds ==
  ASSUME NEW pl \in Seq(Entries), NEW section \in Seq(Words), NEW from \in STRING
  PROVE  /\ Extended(pl, section, from) \in Seq(Entries)
         /\ Adds(pl, Extended(pl, section, from), section, from)
<1> DEFINE N == Len(section)
           t == ExtendedBy(pl, section, from)
           S == {ql \in Seq(Entries) : Adds(pl, ql, section, from)}
<1>1. N \in Nat /\ t[0] = pl /\ \A n \in 1..N : t[n] = WithWord(t[n - 1], section[n], from)
  <2>1. N \in Nat
    OBVIOUS
  <2> QED BY <2>1, ExtendedUnfold, Zenon
<1>2. t[0] \in S
  <2>1. Adds(pl, pl, section, from)
    BY DEF Adds, Grown
  <2> QED BY <1>1, <2>1
<1>3. ASSUME NEW n \in 1..N, t[n - 1] \in S PROVE t[n] \in S
  <2> DEFINE ql == t[n - 1]
             word == section[n]
  <2>1. ql \in Seq(Entries) /\ Adds(pl, ql, section, from) /\ t[n] = WithWord(ql, word, from)
    BY <1>1, <1>3
  <2>2. word \in Words /\ Entry(word, from) \in Entries
    <3>1. word \in Words
      OBVIOUS
    <3> QED BY <3>1, EntryType
  <2> HIDE DEF ql
  <2>3. CASE Present(ql, word) \/ (word.key = "ellps" /\ EarthGiven(ql))
    BY <2>1, <2>3 DEF WithWord
  <2>4. CASE ~(Present(ql, word) \/ (word.key = "ellps" /\ EarthGiven(ql)))
    <3> DEFINE rl == Append(ql, Entry(word, from))
    <3>1. /\ rl \in Seq(Entries) /\ Len(rl) = Len(ql) + 1 /\ rl[Len(ql) + 1] = Entry(word, from)
          /\ \A k \in 1..Len(ql) : rl[k] = ql[k]
      BY <2>1, <2>2
    <3>2. t[n] = rl
      BY <2>1, <2>4 DEF WithWord
    <3> HIDE DEF rl
    <3>3. Len(pl) \in Nat /\ Len(ql) \in Nat /\ Len(pl) <= Len(ql) /\ Grown(pl, ql)
      BY <2>1 DEF Adds, Grown
    <3>4. Grown(pl, rl)
      BY <3>1, <3>3 DEF Grown
    <3>5. word.key = "ellps" => ~EarthGiven(pl)
      <4>1. ASSUME word.key = "ellps", EarthGiven(pl) PROVE EarthGiven(ql)
        BY <2>1, <3>3, <4>1, GrownSays DEF EarthGiven
      <4> QED BY <2>4, <4>1
    <3>6. ASSUME NEW k \in Len(pl) + 1..Len(rl)
          PROVE  /\ \E m \in 1..Len(section) : rl[k] = Entry(section[m], from)
                 /\ rl[k].key = "ellps" => ~EarthGiven(pl)
      <4>1. CASE k = Len(ql) + 1
        BY <3>1, <3>5, <4>1 DEF Entry
      <4>2. CASE k # Len(ql) + 1
        <5>1. k \in Len(pl) + 1..Len(ql) /\ k \in 1..Len(ql)
          BY <3>1, <3>3, <4>2
        <5> QED BY <2>1, <3>1, <5>1 DEF Adds
      <4> QED BY <4>1, <4>2
    <3> QED BY <3>1, <3>2, <3>4, <3>6 DEF Adds
  <2> QED BY <2>3, <2>4
<1> HIDE DEF t, S
<1>4. \A n \in 0..N : t[n] \in S
  BY <1>1, <1>2, <1>3, StaysIn
<1>5. t[N] \in S
  BY <1>1, <1>4
<1> QED BY <1>5 DEF S, t, N, Extended

(* A list that begins with the words still does when it has grown.          *)
LEMMA GrownStarts ==
  ASSUME NEW pl \in Seq(Entries), NEW ql \in Seq(Entries), Grown(pl, ql),
         NEW ws \in Seq(Words), StartsWith(pl, ws)
  PROVE  StartsWith(ql, ws)
BY DEF Grown, StartsWith

(* What a section adds is from where it is read.                            *)
LEMMA AddsFrom ==
  ASSUME NEW pl \in Seq(Entries), NEW ql \in Seq(Entries), NEW section, NEW from,
         Adds(pl, ql, section, from), NEW froms, from \in froms, From(pl, froms)
  PROVE  From(ql, froms)
<1> SUFFICES ASSUME NEW k \in 1..Len(ql) PROVE ql[k].from \in froms
  BY DEF From
<1>1. CASE k \in 1..Len(pl)
  BY <1>1 DEF Adds, Grown, From
<1>2. CASE k \notin 1..Len(pl)
  <2>1. k \in Len(pl) + 1..Len(ql)
    BY <1>2
  <2>2. PICK n \in 1..Len(section) : ql[k] = Entry(section[n], from)
    BY <2>1 DEF Adds
  <2> QED BY <2>2 DEF Entry
<1> QED BY <1>1, <1>2

-----------------------------------------------------------------------------
(* Steps before PIN is allocated                                            *)

LEMMA TooManyWordsStep ==
  ASSUME PInv, at = "out", NEW ws \in Definitions, TooManyWords(ws)
  PROVE  PInv'
<1> USE DEF PInv, TooManyWords
<1>1. Typed'
  BY ProjInitAssumption DEF Typed, InitStages, Before, Making
<1>2. Held'
  BY DEF Held, Before, Making, Returned
<1>3. Errors'
  BY DEF Held, Errors, InitStages, Before, Making, Returned
<1>4. Listed' /\ Measured' /\ Formed'
  BY DEF Held, Listed, Measured, Formed, Alive, InitStages, Before, Making, Returned
<1> QED BY <1>1, <1>2, <1>3, <1>4

LEMMA CallInitStep ==
  ASSUME PInv, at = "out", NEW ws \in Definitions, NEW plus \in BOOLEAN, CallInit(ws, plus)
  PROVE  PInv'
<1> DEFINE pl == [k \in DOMAIN ws |-> Entry(ws[k], "caller")]
<1> USE DEF PInv, CallInit, Grow, Fail
<1>1. /\ ws \in Seq(Words) /\ pl \in Seq(Entries) /\ Len(pl) = Len(ws)
      /\ \A k \in DOMAIN ws : ws[k].key = "init" => ws[k].val \in DOMAIN InitFile
  <2>1. ws \in Seq(Words) /\ \A k \in DOMAIN ws : ws[k].key = "init" => ws[k].val \in DOMAIN InitFile
    BY ProjInitAssumption
  <2>2. ASSUME NEW k \in 1..Len(ws) PROVE Entry(ws[k], "caller") \in Entries
    <3>1. ws[k] \in Words
      BY <2>1
    <3> QED BY <3>1, EntryType, SpellingAssumption
  <2> QED BY <2>1, <2>2
<1>2. list' = pl /\ list = <<>> /\ cells = {} /\ pin' = pin /\ pin = NULL
  BY DEF Held
<1>3. cells' = DOMAIN list'
  BY <1>1, <1>2
<1>4. at' \in {"init", "bum_call"}
  OBVIOUS
<1>5. Typed'
  BY <1>1, <1>2, <1>4 DEF Typed, InitStages, Before, Making
<1>6. Held'
  BY <1>2, <1>3, <1>4 DEF Held, Before, Making, Returned
<1>7. Errors'
  BY <1>4 DEF Errors, InitStages, Before, Making, Returned
<1>8. Listed'
  <2>1. StartsWith(pl, ws) /\ From(pl, {"caller"})
    BY <1>1 DEF StartsWith, From, Entry
  <2>2. Unobtrusive(pl) /\ From(pl, {"caller", "init"}) /\ From(pl, {"caller", "init", "defaults", "datum"})
    BY <2>1 DEF Unobtrusive, From
  <2> HIDE DEF pl
  <2> QED BY <1>1, <1>2, <1>4, <2>1, <2>2 DEF Listed, Alive, InitStages, Before, Making, Returned
<1>9. Measured' /\ Formed'
  BY <1>4 DEF Measured, Formed, Making, Returned
<1> QED BY <1>5, <1>6, <1>7, <1>8, <1>9

LEMMA NoInitStep == ASSUME PInv, NoInit PROVE PInv'
<1> USE DEF PInv, NoInit
<1>1. Typed'
  BY DEF Typed, InitStages, Before, Making
<1>2. Held' /\ Errors'
  BY DEF Held, Errors, InitStages, Before, Making, Returned
<1>3. Listed'
  BY DEF Listed, Alive, InitStages, Before, Making, Returned
<1>4. Measured' /\ Formed'
  BY DEF Measured, Formed, Making, Returned
<1> QED BY <1>1, <1>2, <1>3, <1>4

(* The init file the list names is one the caller named.                    *)
LEMMA InitNamed ==
  ASSUME PInv, at = "init", Given(list, "init")
  PROVE  /\ Value(list, "init") \in DOMAIN InitFile
         /\ \E k \in DOMAIN words : words[k].key = "init" /\ words[k].val = Value(list, "init")
<1>1. words \in Seq(Words) /\ list \in Seq(Entries) /\ StartsWith(list, words) /\ Len(list) = Len(words)
  BY DEF PInv, Typed, Listed, Alive, InitStages, Before
<1>2. Given(words, "init")
  <2>1. PICK k \in 1..Len(list) : list[k].key = "init"
    BY <1>1 DEF Given
  <2>2. list[k] = Entry(words[k], "caller") /\ k \in DOMAIN words
    BY <1>1 DEF StartsWith
  <2> QED BY <2>1, <2>2 DEF Given, Entry
<1>3. Value(list, "init") = Value(words, "init")
  BY <1>1, <1>2, WordsCount
<1>4. PICK m \in 1..Len(words) : words[m].key = "init" /\ FirstOf(words, "init") = words[m]
  <2>1. DOMAIN words = 1..Len(words) /\ Len(words) \in Nat
    BY <1>1
  <2> QED BY <1>2, <2>1, FirstGiven
<1>5. m \in DOMAIN words /\ words[m].val = Value(list, "init")
  BY <1>1, <1>3, <1>4 DEF Value
<1> QED BY <1>4, <1>5 DEF PInv, Typed

LEMMA InitFailsStep == ASSUME PInv, InitFails PROVE PInv'
<1> DEFINE file == InitFile[Value(list, "init")]
<1> USE DEF PInv
<1>1. /\ at = "init" /\ at' = "bum_call" /\ UNCHANGED <<words, list, cells, copy, pin, pj>>
      /\ \/ perrno' = -3 /\ UNCHANGED cerrno
         \/ ~file.home /\ UNCHANGED <<perrno, cerrno>>
         \/ cerrno' = ENOENT /\ UNCHANGED perrno
  BY DEF InitFails
<1>2. ~file.home => Homeless
  BY <1>1, InitNamed DEF InitFails, Homeless
<1>3. Homeless => Homeless'
  BY <1>1 DEF Homeless
<1> HIDE DEF file
<1>4. Typed'
  BY <1>1 DEF Typed, InitStages, Before, Making
<1>5. Held'
  BY <1>1 DEF Held, InitStages, Before, Making, Returned
<1>6. Errors'
  BY <1>1, <1>2, <1>3 DEF Errors, InitStages, Before, Making, Returned, ENOENT
<1>7. Listed' /\ Measured' /\ Formed'
  BY <1>1 DEF Listed, Measured, Formed, Alive, InitStages, Before, Making, Returned
<1> QED BY <1>4, <1>5, <1>6, <1>7

(* A list that grows by words that are not "datum"'s.                       *)
LEMMA GrowCells ==
  ASSUME NEW pl \in Seq(Entries), list \in Seq(Entries), cells = DOMAIN list, Grown(list, pl), Grow(pl)
  PROVE  list' = pl /\ cells' = DOMAIN list'
<1>1. list' = pl /\ cells' = (1..Len(list)) \cup (Len(list) + 1..Len(pl))
  BY DEF Grow
<1>2. Len(list) \in Nat /\ Len(pl) \in Nat /\ Len(list) <= Len(pl) /\ DOMAIN pl = 1..Len(pl)
  BY DEF Grown
<1> QED BY <1>1, <1>2

LEMMA ReadInitStep == ASSUME PInv, ReadInit PROVE PInv'
<1> DEFINE section == InitFile[Value(list, "init")].words
           pl == Extended(list, section, "init")
<1> USE DEF PInv
<1>1. at = "init" /\ Grow(pl) /\ UNCHANGED <<words, copy, pin, pj, cerrno>>
  BY DEF ReadInit
<1>2. \/ at' = "proj" /\ perrno' = perrno
      \/ at' = "bum_call" /\ perrno' = -2
  BY DEF ReadInit, Fail
<1>3. section \in Seq(Words)
  BY <1>1, InitNamed, ProjInitAssumption DEF ReadInit
<1> HIDE DEF section
<1>4. list \in Seq(Entries) /\ pl \in Seq(Entries) /\ Adds(list, pl, section, "init")
  <2>1. list \in Seq(Entries) /\ "init" \in STRING
    BY SpellingAssumption DEF Typed
  <2> QED BY <1>3, <2>1, ExtendedAdds, Zenon
<1> HIDE DEF pl
<1>5. Grown(list, pl)
  BY <1>4 DEF Adds
<1>6. list' = pl /\ cells' = DOMAIN list'
  BY <1>1, <1>4, <1>5, GrowCells DEF Held
<1>7. Typed'
  BY <1>1, <1>2, <1>4, <1>6 DEF Typed, InitStages, Before, Making
<1>8. Held'
  BY <1>1, <1>2, <1>6 DEF Held, InitStages, Before, Making, Returned
<1>9. Errors'
  BY <1>1, <1>2 DEF Errors, InitStages, Before, Making, Returned
<1>10. Listed'
  <2>1. StartsWith(list, words) /\ From(list, {"caller", "init"})
    BY <1>1 DEF Listed, Alive, InitStages, Before
  <2>2. StartsWith(pl, words)
    BY <1>4, <1>5, <2>1, GrownStarts DEF Typed
  <2>3. From(pl, {"caller", "init"})
    BY <1>4, <2>1, AddsFrom
  <2>4. Unobtrusive(pl) /\ From(pl, {"caller", "init", "defaults", "datum"})
    BY <2>3 DEF Unobtrusive, From
  <2> QED BY <1>1, <1>2, <1>6, <2>2, <2>3, <2>4 DEF Listed, Alive, InitStages, Before, Making, Returned
<1>11. Measured' /\ Formed'
  BY <1>1, <1>2 DEF Measured, Formed, Making, Returned
<1> QED BY <1>7, <1>8, <1>9, <1>10, <1>11

LEMMA SelectProjectionStep == ASSUME PInv, SelectProjection PROVE PInv'
<1> USE DEF PInv
<1>1. at = "proj" /\ UNCHANGED <<words, list, cells, copy, pin, pj, cerrno>>
  BY DEF SelectProjection
<1>2. \/ at' = "bum_call" /\ perrno' \in {-4, -5}
      \/ at' = "defaults" /\ perrno' = perrno /\ HasProjection(list)
  <2>1. CASE ~Given(list, "proj")
    BY <2>1 DEF SelectProjection, Fail
  <2>2. CASE Given(list, "proj") /\ Value(list, "proj") \notin DOMAIN Projections
    BY <2>2 DEF SelectProjection, Fail
  <2>3. CASE HasProjection(list)
    BY <2>3 DEF SelectProjection, HasProjection
  <2> QED BY <2>1, <2>2, <2>3 DEF HasProjection
<1>3. Typed'
  BY <1>1, <1>2 DEF Typed, InitStages, Before, Making
<1>4. Held' /\ Errors'
  BY <1>1, <1>2 DEF Held, Errors, InitStages, Before, Making, Returned
<1>5. Listed'
  BY <1>1, <1>2 DEF Listed, Alive, InitStages, Before, Making, Returned
<1>6. Measured' /\ Formed'
  BY <1>1, <1>2 DEF Measured, Formed, Making, Returned
<1> QED BY <1>3, <1>4, <1>5, <1>6

(* What nobody has said, those who come later do not say either.             *)
LEMMA SaidBefore ==
  ASSUME NEW pl \in Seq(Entries), NEW ql \in Seq(Entries), Grown(pl, ql),
         \A k \in Len(pl) + 1..Len(ql) : ql[k].from \notin {"caller", "init"}
  PROVE  /\ \A key : Said(ql, key) => Said(pl, key)
         /\ EarthSaid(ql) => EarthSaid(pl)
         /\ \A key : Said(pl, key) => Said(ql, key)
         /\ SizeSaid(pl) => SizeSaid(ql)
<1>1. ASSUME NEW key, Said(ql, key) PROVE Said(pl, key)
  <2>1. PICK k \in 1..Len(ql) : ql[k].key = key /\ ql[k].from \in {"caller", "init"}
    BY <1>1 DEF Said
  <2>2. k \in 1..Len(pl)
    <3>1. k \notin Len(pl) + 1..Len(ql)
      BY <2>1
    <3> QED BY <3>1
  <2> QED BY <2>1, <2>2 DEF Said, Grown
<1>2. ASSUME NEW key, Said(pl, key) PROVE Said(ql, key)
  <2>1. PICK k \in 1..Len(pl) : pl[k].key = key /\ pl[k].from \in {"caller", "init"}
    BY <1>2 DEF Said
  <2>2. k \in 1..Len(ql) /\ ql[k] = pl[k]
    BY DEF Grown
  <2> QED BY <2>1, <2>2 DEF Said
<1> QED BY <1>1, <1>2 DEF EarthSaid, SizeSaid

(* The defaults add an ellipsoid only where nothing is said of the earth.    *)
LEMMA DefaultsAdd ==
  ASSUME NEW pl \in Seq(Entries), From(pl, {"caller", "init"}), NEW name
  PROVE  LET special == IF name \in DOMAIN Special THEN Special[name] ELSE <<>>
             ql == Extended(Extended(pl, General, "defaults"), special, "defaults")
         IN  /\ ql \in Seq(Entries) /\ Grown(pl, ql)
             /\ From(ql, {"caller", "init", "defaults"}) /\ Unobtrusive(ql)
<1> DEFINE special == IF name \in DOMAIN Special THEN Special[name] ELSE <<>>
           ml == Extended(pl, General, "defaults")
           ql == Extended(ml, special, "defaults")
<1>1. /\ special \in Seq(Words) /\ General \in Seq(Words) /\ "defaults" \in STRING
      /\ \A n \in 1..Len(General) : General[n].key = "ellps"
      /\ \A n \in 1..Len(special) : special[n].key \in {"lat_1", "lat_2"}
  <2>1. \A n \in 1..Len(General) : General[n].key = "ellps"
    BY DEF General, Word
  <2>2. \A n \in 1..Len(special) : special[n].key \in {"lat_1", "lat_2"}
    <3>1. CASE name \in DOMAIN Special
      <4>1. special = <<Word("lat_1", "33"), Word("lat_2", "45")>>
        BY <3>1 DEF Special
      <4> QED BY <4>1 DEF Word
    <3>2. CASE name \notin DOMAIN Special
      BY <3>2
    <3> QED BY <3>1, <3>2
  <2>3. special \in Seq(Words)
    <3>1. CASE name \in DOMAIN Special
      BY <3>1, SpellingAssumption
    <3>2. CASE name \notin DOMAIN Special
      BY <3>2
    <3> QED BY <3>1, <3>2
  <2> QED BY <2>1, <2>2, <2>3, SpellingAssumption
<1> HIDE DEF special
<1>2. ml \in Seq(Entries) /\ Adds(pl, ml, General, "defaults")
  BY <1>1, ExtendedAdds, Zenon
<1> HIDE DEF ml
<1>3. ql \in Seq(Entries) /\ Adds(ml, ql, special, "defaults")
  BY <1>1, <1>2, ExtendedAdds, Zenon
<1> HIDE DEF ql
<1>4. /\ Len(pl) \in Nat /\ Len(ml) \in Nat /\ Len(ql) \in Nat
      /\ Grown(pl, ml) /\ Grown(ml, ql) /\ Grown(pl, ql)
  <2>1. Grown(pl, ml) /\ Grown(ml, ql)
    BY <1>2, <1>3 DEF Adds
  <2> QED BY <1>2, <1>3, <2>1 DEF Grown
<1>5. From(ql, {"caller", "init", "defaults"})
  <2>1. From(pl, {"caller", "init", "defaults"})
    BY DEF From
  <2>2. From(ml, {"caller", "init", "defaults"})
    BY <1>2, <2>1, AddsFrom
  <2> QED BY <1>2, <1>3, <2>2, AddsFrom
<1>6. ASSUME NEW k \in Len(pl) + 1..Len(ql)
      PROVE  /\ ql[k].from = "defaults" /\ ql[k].key \in {"ellps", "lat_1", "lat_2"}
             /\ ql[k].key = "ellps" => ~EarthGiven(pl)
  <2>1. CASE k \in Len(pl) + 1..Len(ml)
    <3>1. k \in 1..Len(ml) /\ ql[k] = ml[k]
      BY <1>4, <2>1 DEF Grown
    <3>2. PICK n \in 1..Len(General) : ml[k] = Entry(General[n], "defaults")
      BY <1>2, <2>1 DEF Adds
    <3>3. ml[k].key = "ellps" /\ ml[k].from = "defaults"
      BY <1>1, <3>2 DEF Entry
    <3>4. ~EarthGiven(pl)
      BY <1>2, <2>1, <3>3 DEF Adds
    <3> QED BY <3>1, <3>3, <3>4
  <2>2. CASE k \notin Len(pl) + 1..Len(ml)
    <3>1. k \in Len(ml) + 1..Len(ql)
      BY <1>4, <2>2
    <3>2. PICK n \in 1..Len(special) : ql[k] = Entry(special[n], "defaults")
      BY <1>3, <3>1 DEF Adds
    <3>3. ql[k].key \in {"lat_1", "lat_2"} /\ ql[k].from = "defaults"
      BY <1>1, <3>2 DEF Entry
    <3> QED BY <3>3
  <2> QED BY <2>1, <2>2
<1>7. Unobtrusive(ql)
  <2> SUFFICES ASSUME NEW k \in 1..Len(ql), ql[k].from = "defaults"
               PROVE  /\ ql[k].key \in {"ellps", "lat_1", "lat_2"}
                      /\ ql[k].key = "ellps" => ~EarthSaid(ql)
    BY <1>3 DEF Unobtrusive
  <2>1. k \in Len(pl) + 1..Len(ql)
    <3>1. ASSUME k \in 1..Len(pl) PROVE FALSE
      <4>1. ql[k] = pl[k] /\ pl[k].from \in {"caller", "init"}
        BY <1>4, <3>1 DEF Grown, From
      <4> QED BY <4>1
    <3> QED BY <1>4, <3>1
  <2>2. EarthSaid(pl) => EarthGiven(pl)
    BY DEF EarthSaid, EarthGiven, Said, Given
  <2>3. EarthSaid(ql) => EarthSaid(pl)
    <3>1. \A j \in Len(pl) + 1..Len(ql) : ql[j].from \notin {"caller", "init"}
      BY <1>6
    <3> QED BY <1>3, <1>4, <3>1, SaidBefore
  <2> QED BY <1>6, <2>1, <2>2, <2>3
<1> QED BY <1>3, <1>4, <1>5, <1>7 DEF ql, ml, special

LEMMA DefaultsStep == ASSUME PInv, NEW found \in BOOLEAN, Defaults(found) PROVE PInv'
<1> DEFINE name == Value(list, "proj")
           special == IF name \in DOMAIN Special THEN Special[name] ELSE <<>>
           full == Extended(Extended(list, General, "defaults"), special, "defaults")
           pl == IF found /\ ~Bool(list, "no_defs") THEN full ELSE list
<1> USE DEF PInv
<1>1. /\ at = "defaults" /\ at' = "alloc" /\ Grow(pl) /\ UNCHANGED <<words, copy, pin, pj, cerrno>>
      /\ perrno' = BoolErrno(list, "no_defs")
  BY DEF Defaults
<1>2. perrno' \in {0, -8}
  BY <1>1 DEF BoolErrno, Errors
<1>3. /\ list \in Seq(Entries) /\ words \in Seq(Words) /\ cells = DOMAIN list
      /\ StartsWith(list, words) /\ Unobtrusive(list) /\ From(list, {"caller", "init"})
      /\ HasProjection(list)
  BY <1>1 DEF Typed, Held, Listed, Alive, InitStages, Before, Making
<1>4. /\ pl \in Seq(Entries) /\ Grown(list, pl) /\ Unobtrusive(pl)
      /\ From(pl, {"caller", "init", "defaults"})
  <2>1. Grown(list, list) /\ From(list, {"caller", "init", "defaults"})
    BY <1>3 DEF Grown, From
  <2>2. /\ full \in Seq(Entries) /\ Grown(list, full) /\ Unobtrusive(full)
        /\ From(full, {"caller", "init", "defaults"})
    BY <1>3, DefaultsAdd
  <2> HIDE DEF full
  <2> QED BY <1>3, <2>1, <2>2
<1> HIDE DEF pl
<1>5. list' = pl /\ cells' = DOMAIN list'
  BY <1>1, <1>3, <1>4, GrowCells
<1>6. Typed'
  BY <1>1, <1>2, <1>4, <1>5 DEF Typed, InitStages, Before, Making
<1>7. Held' /\ Errors'
  BY <1>1, <1>2, <1>5 DEF Held, Errors, InitStages, Before, Making, Returned
<1>8. Listed'
  <2>1. StartsWith(pl, words) /\ HasProjection(pl)
    <3>1. Value(list, "proj") = Value(pl, "proj") /\ Given(pl, "proj")
      BY <1>3, <1>4, GrownSays DEF HasProjection
    <3>2. StartsWith(pl, words)
      BY <1>3, <1>4, GrownStarts
    <3> QED BY <1>3, <3>1, <3>2 DEF HasProjection
  <2>2. From(pl, {"caller", "init", "defaults", "datum"})
    BY <1>4 DEF From
  <2> QED BY <1>1, <1>4, <1>5, <2>1, <2>2 DEF Listed, Alive, InitStages, Before, Making, Returned
<1>9. Measured' /\ Formed'
  BY <1>1 DEF Measured, Formed, Making, Returned
<1> QED BY <1>6, <1>7, <1>8, <1>9

LEMMA NoMemoryStep == ASSUME PInv, NoMemory PROVE PInv'
<1> USE DEF PInv, NoMemory
<1>1. Typed'
  BY DEF Typed, InitStages, Before, Making
<1>2. Held' /\ Errors'
  BY DEF Held, Errors, InitStages, Before, Making, Returned, ENOMEM
<1>3. Listed' /\ Measured' /\ Formed'
  BY DEF Listed, Measured, Formed, Alive, InitStages, Before, Making, Returned
<1> QED BY <1>1, <1>2, <1>3

LEMMA NewHandle ==
  [kind |-> "projected", type |-> "unknown", params |-> "",
   a |-> "", es |-> <<>>, unit |-> "", pm |-> "", wrap |-> 0, inv |-> FALSE] \in Handles
<1>1. "" \in STRING
  BY SpellingAssumption
<1>2. <<>> \in Seq(STRING)
  OBVIOUS
<1>3. "projected" \in Kinds /\ "unknown" \in DatumTypes
  BY DEF Kinds, DatumTypes
<1> QED BY <1>1, <1>2, <1>3 DEF Handles

LEMMA AllocateStep == ASSUME PInv, Allocate PROVE PInv'
<1> USE DEF PInv, Allocate
<1>1. pin' \in Handles /\ pin' # NULL /\ pin'.type = "unknown"
  <2>2. pin' \in Handles
    BY NewHandle
  <2> QED BY <2>2, ProjInitAssumption
<1>2. Typed'
  BY <1>1 DEF Typed, InitStages, Before, Making
<1>3. Held' /\ Errors'
  BY <1>1 DEF Held, Errors, InitStages, Before, Making, Returned
<1>4. Listed'
  BY DEF Listed, Alive, InitStages, Before, Making, Returned
<1>5. Measured' /\ Formed'
  BY <1>1 DEF Measured, Formed, Making, Returned
<1> QED BY <1>2, <1>3, <1>4, <1>5

-----------------------------------------------------------------------------
(* Steps with PIN                                                           *)

(* The rows of the tables of datums and ellipsoids.                         *)
LEMMA DatumRows ==
  \A name \in DOMAIN DatumTable :
    LET row == DatumTable[name]
    IN  /\ Len(row) = 2 /\ row[1].key = "ellps" /\ row[1].val # "sphere"
        /\ row[2].key \in {"towgs84", "nadgrids"}
<1> SUFFICES ASSUME NEW name \in DOMAIN DatumTable
             PROVE  LET row == DatumTable[name]
                    IN  /\ Len(row) = 2 /\ row[1].key = "ellps" /\ row[1].val # "sphere"
                        /\ row[2].key \in {"towgs84", "nadgrids"}
  OBVIOUS
<1>1. name \in {"WGS84", "GGRS87", "NAD83", "NAD27", "potsdam", "carthage", "hermannskogel",
                "ire65", "nzgd49", "OSGB36"}
  BY DEF DatumTable
<1>2. CASE name = "WGS84"
  BY <1>2 DEF DatumTable, Datum, Word
<1>3. CASE name = "GGRS87"
  BY <1>3 DEF DatumTable, Datum, Word
<1>4. CASE name = "NAD83"
  BY <1>4 DEF DatumTable, Datum, Word
<1>5. CASE name = "NAD27"
  BY <1>5 DEF DatumTable, Datum, Word
<1>6. CASE name = "potsdam"
  BY <1>6 DEF DatumTable, Datum, Word
<1>7. CASE name = "carthage"
  BY <1>7 DEF DatumTable, Datum, Word
<1>8. CASE name = "hermannskogel"
  BY <1>8 DEF DatumTable, Datum, Word
<1>9. CASE name = "ire65"
  BY <1>9 DEF DatumTable, Datum, Word
<1>10. CASE name = "nzgd49"
  BY <1>10 DEF DatumTable, Datum, Word
<1>11. CASE name = "OSGB36"
  BY <1>11 DEF DatumTable, Datum, Word
<1> QED BY <1>1, <1>2, <1>3, <1>4, <1>5, <1>6, <1>7, <1>8, <1>9, <1>10, <1>11

LEMMA EllipsoidRows ==
  \A name \in DOMAIN Ellipsoids :
    LET row == Ellipsoids[name]
    IN  /\ Len(row) = 2 /\ row[1].key = "a" /\ row[2].key \in {"rf", "b"}
        /\ row[1].val # "0" /\ row[2].val \notin {"0", "1", "<0"}
        /\ name # "sphere" => row[1].val # row[2].val
<1> SUFFICES ASSUME NEW name \in DOMAIN Ellipsoids
             PROVE  LET row == Ellipsoids[name]
                    IN  /\ Len(row) = 2 /\ row[1].key = "a" /\ row[2].key \in {"rf", "b"}
                        /\ row[1].val # "0" /\ row[2].val \notin {"0", "1", "<0"}
                        /\ name # "sphere" => row[1].val # row[2].val
  OBVIOUS
<1>1. name \in {"WGS84", "GRS80", "clrk66", "clrk80", "bessel", "mod_airy", "intl", "airy", "sphere"}
  BY DEF Ellipsoids
<1> QED BY <1>1 DEF Ellipsoids, Ellipsoid, Word

LEMMA UnknownDatumStep == ASSUME PInv, UnknownDatum PROVE PInv'
<1> USE DEF PInv, UnknownDatum, Fail
<1>1. Typed'
  BY DEF Typed, InitStages, Before, Making
<1>2. Held' /\ Errors'
  BY DEF Held, Errors, InitStages, Before, Making, Returned
<1>3. Listed' /\ Measured' /\ Formed'
  BY DEF Listed, Measured, Formed, Alive, InitStages, Before, Making, Returned
<1> QED BY <1>1, <1>2, <1>3

(* A list with a row of a table behind it.                                  *)
LEMMA RowBehind ==
  ASSUME NEW pl \in Seq(Entries), NEW row \in Seq(Words), NEW from \in STRING
  PROVE  /\ WithRow(pl, row, from) \in Seq(Entries) /\ Grown(pl, WithRow(pl, row, from))
         /\ Len(WithRow(pl, row, from)) = Len(pl) + Len(row)
         /\ \A k \in 1..Len(row) : WithRow(pl, row, from)[Len(pl) + k] = Entry(row[k], from)
<1> DEFINE rl == [k \in DOMAIN row |-> Entry(row[k], from)]
<1>1. rl \in Seq(Entries) /\ Len(rl) = Len(row) /\ \A k \in 1..Len(row) : rl[k] = Entry(row[k], from)
  <2>1. ASSUME NEW k \in 1..Len(row) PROVE Entry(row[k], from) \in Entries
    <3>1. row[k] \in Words
      OBVIOUS
    <3> QED BY <3>1, EntryType
  <2>2. DOMAIN row = 1..Len(row) /\ Len(row) \in Nat
    OBVIOUS
  <2>3. DOMAIN rl = 1..Len(row) /\ \A k \in 1..Len(row) : rl[k] = Entry(row[k], from)
    BY <2>2
  <2>4. rl = [k \in 1..Len(row) |-> rl[k]]
    BY <2>2
  <2> HIDE DEF rl
  <2> QED BY <2>1, <2>2, <2>3, <2>4, SequenceOf
<1> HIDE DEF rl
<1>2. /\ pl \o rl \in Seq(Entries) /\ Len(pl \o rl) = Len(pl) + Len(rl)
      /\ \A k \in 1..Len(pl) : (pl \o rl)[k] = pl[k]
      /\ \A k \in 1..Len(rl) : (pl \o rl)[Len(pl) + k] = rl[k]
  BY <1>1
<1> DEFINE ql == pl \o rl
<1>3. Len(pl) \in Nat /\ Len(row) \in Nat
  OBVIOUS
<1>4. Grown(pl, ql)
  BY <1>1, <1>2, <1>3 DEF Grown
<1>5. WithRow(pl, row, from) = ql
  BY DEF WithRow, rl
<1> QED BY <1>1, <1>2, <1>4, <1>5

(* Where a row of two words is behind a list that does not give their keys.  *)
LEMMA RowCounts ==
  ASSUME NEW pl \in Seq(Entries), NEW row \in Seq(Words), NEW from \in STRING, Len(row) = 2,
         row[1].key # row[2].key
  PROVE  LET ql == WithRow(pl, row, from) IN
         /\ \A m \in {1, 2} : ~Given(pl, row[m].key) =>
               Given(ql, row[m].key) /\ Value(ql, row[m].key) = row[m].val
         /\ \A key : ~Given(pl, key) /\ key # row[1].key /\ key # row[2].key => ~Given(ql, key)
<1> DEFINE ql == WithRow(pl, row, from)
           n == Len(pl)
<1>1. /\ ql \in Seq(Entries) /\ Grown(pl, ql) /\ Len(ql) = n + 2 /\ n \in Nat
      /\ ql[n + 1] = Entry(row[1], from) /\ ql[n + 2] = Entry(row[2], from)
  <2>1. 1 \in 1..Len(row) /\ 2 \in 1..Len(row)
    OBVIOUS
  <2>2. /\ ql \in Seq(Entries) /\ Grown(pl, ql) /\ Len(ql) = Len(pl) + 2
        /\ \A k \in 1..Len(row) : ql[Len(pl) + k] = Entry(row[k], from)
    BY RowBehind
  <2> QED BY <2>1, <2>2
<1>2. /\ DOMAIN ql = 1..n + 2 /\ n + 2 \in Nat /\ n + 1 \in 1..n + 2 /\ n + 2 \in 1..n + 2
      /\ \A k \in 1..n : ql[k] = pl[k]
      /\ \A m \in {1, 2} : ql[n + m].key = row[m].key /\ ql[n + m].val = row[m].val
      /\ DOMAIN pl = 1..n
  BY <1>1 DEF Grown, Entry
<1> HIDE DEF ql, n
<1>3. ASSUME NEW m \in {1, 2}, ~Given(pl, row[m].key)
      PROVE  Given(ql, row[m].key) /\ Value(ql, row[m].key) = row[m].val
  <2>1. \A j \in 1..n : ql[j].key # row[m].key
    BY <1>2, <1>3 DEF Given
  <2>2. n + m \in 1..n + 2 /\ \A j \in 1..(n + m) - 1 : ql[j].key # row[m].key
    BY <1>1, <1>2, <2>1
  <2>3. Given(ql, row[m].key) /\ FirstOf(ql, row[m].key) = ql[n + m]
    <3>1. ql[n + m].key = row[m].key
      BY <1>2
    <3> DEFINE key == row[m].key
               at1 == n + m
               N == n + 2
    <3>2. /\ N \in Nat /\ DOMAIN ql = 1..N /\ at1 \in 1..N /\ ql[at1].key = key
          /\ \A j \in 1..at1 - 1 : ql[j].key # key
      BY <1>2, <2>2, <3>1
    <3> HIDE DEF key, at1, N
    <3>3. Given(ql, key) /\ FirstOf(ql, key) = ql[at1]
      BY <3>2, FirstIs
    <3> QED BY <3>3 DEF key, at1
  <2> QED BY <1>2, <2>3 DEF Value
<1>4. ASSUME NEW key, ~Given(pl, key), key # row[1].key, key # row[2].key PROVE ~Given(ql, key)
  <2> SUFFICES ASSUME NEW k \in 1..n + 2 PROVE ql[k].key # key
    BY <1>2 DEF Given
  <2>1. k \in 1..n \/ k = n + 1 \/ k = n + 2
    BY <1>1
  <2> QED BY <1>2, <1>4, <2>1 DEF Given
<1> QED BY <1>3, <1>4 DEF ql

(* A datum brings its ellipsoid.                                            *)
LEMMA DatumBrings ==
  ASSUME NEW pl \in Seq(Entries), From(pl, {"caller", "init", "defaults"}), Unobtrusive(pl),
         Given(pl, "datum"), Value(pl, "datum") \in DOMAIN DatumTable
  PROVE  LET ql == WithRow(pl, DatumTable[Value(pl, "datum")], "datum")
         IN  /\ ql \in Seq(Entries) /\ Grown(pl, ql)
             /\ From(ql, {"caller", "init", "defaults", "datum"}) /\ Unobtrusive(ql) /\ Brought(ql)
<1> DEFINE row == DatumTable[Value(pl, "datum")]
           ql == WithRow(pl, row, "datum")
<1>1. /\ row \in Seq(Words) /\ "datum" \in STRING /\ Len(row) = 2
      /\ row[1].key = "ellps" /\ row[2].key \in {"towgs84", "nadgrids"}
  BY SpellingAssumption, DatumRows
<1>2. /\ ql \in Seq(Entries) /\ Grown(pl, ql) /\ Len(ql) = Len(pl) + Len(row)
      /\ \A k \in 1..Len(row) : ql[Len(pl) + k] = Entry(row[k], "datum")
  <2> HIDE DEF row
  <2> QED BY <1>1, RowBehind
<1>3. ~Given(pl, "ellps") => Given(ql, "ellps") /\ Value(ql, "ellps") = row[1].val
  <2> HIDE DEF row
  <2>1. row[1].key # row[2].key /\ 1 \in {1, 2}
    BY <1>1
  <2> QED BY <1>1, <2>1, RowCounts
<1>4. ASSUME NEW key \in SizeKeys \ {"ellps"}, ~Given(pl, key) PROVE ~Given(ql, key)
  <2> HIDE DEF row
  <2>1. row[1].key # row[2].key /\ key # row[1].key /\ key # row[2].key
    BY <1>1 DEF SizeKeys
  <2> QED BY <1>1, <1>4, <2>1, RowCounts
<1>5. Given(ql, "datum") /\ Value(ql, "datum") = Value(pl, "datum")
  BY <1>2, GrownSays
<1> HIDE DEF row, ql
<1>6. \A k \in Len(pl) + 1..Len(ql) : ql[k].from = "datum"
  <2> SUFFICES ASSUME NEW k \in Len(pl) + 1..Len(ql) PROVE ql[k].from = "datum"
    OBVIOUS
  <2>1. Len(pl) \in Nat /\ k - Len(pl) \in 1..Len(row) /\ Len(pl) + (k - Len(pl)) = k
    BY <1>1, <1>2
  <2>2. ql[k] = Entry(row[k - Len(pl)], "datum")
    BY <1>2, <2>1
  <2> QED BY <2>2 DEF Entry
<1>7. /\ DOMAIN pl = 1..Len(pl) /\ DOMAIN ql = 1..Len(ql) /\ Len(pl) \in Nat /\ Len(ql) \in Nat
      /\ \A k \in DOMAIN ql : ql[k].from # "datum" => k \in DOMAIN pl /\ ql[k] = pl[k]
  <2>1. /\ DOMAIN pl = 1..Len(pl) /\ DOMAIN ql = 1..Len(ql) /\ Len(pl) \in Nat /\ Len(ql) \in Nat
    BY <1>2
  <2>2. ASSUME NEW k \in DOMAIN ql, ql[k].from # "datum" PROVE k \in DOMAIN pl /\ ql[k] = pl[k]
    <3>1. k \notin Len(pl) + 1..Len(ql)
      BY <1>6, <2>2
    <3> QED BY <1>2, <2>1, <3>1 DEF Grown
  <2> QED BY <2>1, <2>2
<1>8. From(ql, {"caller", "init", "defaults", "datum"})
  <2> SUFFICES ASSUME NEW k \in DOMAIN ql, ql[k].from # "datum"
               PROVE  ql[k].from \in {"caller", "init", "defaults"}
    BY DEF From
  <2> QED BY <1>7 DEF From
<1>9. (EarthSaid(ql) => EarthSaid(pl)) /\ (SizeSaid(pl) => SizeSaid(ql))
  <2>1. \A k \in Len(pl) + 1..Len(ql) : ql[k].from \notin {"caller", "init"}
    BY <1>6
  <2> QED BY <1>2, <2>1, SaidBefore
<1>10. Unobtrusive(ql)
  <2> SUFFICES ASSUME NEW k \in DOMAIN ql, ql[k].from = "defaults"
               PROVE  /\ ql[k].key \in {"ellps", "lat_1", "lat_2"}
                      /\ ql[k].key = "ellps" => ~EarthSaid(ql)
    BY DEF Unobtrusive
  <2>1. k \in DOMAIN pl /\ ql[k] = pl[k]
    BY <1>7
  <2> QED BY <1>9, <2>1 DEF Unobtrusive
<1>11. Brought(ql)
  <2> SUFFICES ASSUME ~SizeSaid(ql)
               PROVE  /\ Value(ql, "datum") \in DOMAIN DatumTable
                      /\ Given(ql, "ellps") /\ Value(ql, "ellps") = OwnEllipsoid(ql)
                      /\ \A key \in SizeKeys \ {"ellps"} : ~Given(ql, key)
    BY DEF Brought, DatumCounts
  <2>1. EarthSaid(pl)
    <3>1. PICK k \in DOMAIN pl : pl[k].key = "datum"
      BY DEF Given
    <3>2. pl[k].from \in {"caller", "init"}
      BY <3>1 DEF From, Unobtrusive
    <3> QED BY <3>1, <3>2 DEF EarthSaid, Said, EarthKeys
  <2>2. ASSUME NEW key \in SizeKeys PROVE ~Given(pl, key)
    <3> SUFFICES ASSUME NEW k \in DOMAIN pl, pl[k].key = key PROVE FALSE
      BY DEF Given
    <3>1. pl[k].from \notin {"caller", "init"}
      BY <1>9 DEF SizeSaid, Said
    <3>2. pl[k].from = "defaults"
      BY <3>1 DEF From
    <3>3. key \notin {"lat_1", "lat_2"}
      BY DEF SizeKeys
    <3> QED BY <2>1, <3>2, <3>3 DEF Unobtrusive
  <2>3. Given(ql, "ellps") /\ Value(ql, "ellps") = row[1].val
    BY <1>3, <2>2 DEF SizeKeys
  <2>4. \A key \in SizeKeys \ {"ellps"} : ~Given(ql, key)
    BY <1>4, <2>2
  <2> QED BY <1>5, <2>3, <2>4 DEF OwnEllipsoid, row
<1> QED BY <1>2, <1>8, <1>10, <1>11 DEF ql, row

LEMMA DatumSetStep == ASSUME PInv, DatumSet PROVE PInv'
<1> DEFINE row == DatumTable[Value(list, "datum")]
           full == IF Given(list, "datum") THEN WithRow(list, row, "datum") ELSE list
           towgs84 == Value(full, "towgs84")
<1> USE DEF PInv
<1>1. /\ at = "datum" /\ at' = "ellipsoid" /\ Grow(full)
      /\ Given(list, "datum") => Value(list, "datum") \in DOMAIN DatumTable
      /\ UNCHANGED <<words, copy, pj, perrno, cerrno>>
  BY DEF DatumSet
<1>2. /\ list \in Seq(Entries) /\ words \in Seq(Words) /\ cells = DOMAIN list
      /\ StartsWith(list, words) /\ HasProjection(list)
      /\ From(list, {"caller", "init", "defaults"}) /\ Unobtrusive(list)
      /\ pin \in Handles /\ pin # NULL /\ pin.type # "wgs84"
  BY <1>1 DEF Typed, Held, Listed, Formed, Alive, InitStages, Before, Making
<1>3. /\ full \in Seq(Entries) /\ Grown(list, full) /\ Brought(full) /\ Unobtrusive(full)
      /\ From(full, {"caller", "init", "defaults", "datum"})
  <2>1. CASE Given(list, "datum")
    <3>1. full = WithRow(list, DatumTable[Value(list, "datum")], "datum")
      BY <2>1
    <3> HIDE DEF full
    <3> QED BY <1>1, <1>2, <2>1, <3>1, DatumBrings
  <2>2. CASE ~Given(list, "datum")
    <3>1. full = list
      BY <2>2
    <3> HIDE DEF full
    <3>2. Brought(list) /\ Grown(list, list) /\ From(list, {"caller", "init", "defaults", "datum"})
      BY <1>2, <2>2 DEF Brought, DatumCounts, Grown, From
    <3> QED BY <1>2, <3>1, <3>2
  <2> QED BY <2>1, <2>2
<1>4. pin' \in Handles /\ pin'.type # "wgs84"
  <2>1. /\ Given(full, "nadgrids") => Value(full, "nadgrids") \in STRING
        /\ Given(full, "towgs84") => Value(full, "towgs84") \in STRING
    <3> HIDE DEF full
    <3> QED BY <1>3, ValueType
  <2>2. {"gridshift", "7param", "3param"} \subseteq DatumTypes \ {"wgs84"}
    BY DEF DatumTypes
  <2>3. ASSUME NEW type \in DatumTypes \ {"wgs84"}, NEW params \in STRING
        PROVE  /\ [pin EXCEPT !.type = type, !.params = params] \in Handles
               /\ [pin EXCEPT !.type = type, !.params = params].type # "wgs84"
    BY <1>2 DEF Handles
  <2>4. CASE Given(full, "nadgrids")
    <3>1. pin' = [pin EXCEPT !.type = "gridshift", !.params = Value(full, "nadgrids")]
      BY <2>4 DEF DatumSet
    <3> HIDE DEF full
    <3> QED BY <2>1, <2>2, <2>3, <2>4, <3>1
  <2>5. CASE ~Given(full, "nadgrids") /\ Given(full, "towgs84")
    <3>1. PICK type \in {"7param", "3param"} : pin' = [pin EXCEPT !.type = type, !.params = towgs84]
      BY <2>5 DEF DatumSet
    <3> HIDE DEF full
    <3> QED BY <2>1, <2>2, <2>3, <2>5, <3>1
  <2>6. CASE ~Given(full, "nadgrids") /\ ~Given(full, "towgs84")
    <3>1. pin' = pin
      BY <2>6 DEF DatumSet
    <3> QED BY <1>2, <3>1
  <2> QED BY <2>4, <2>5, <2>6
<1> HIDE DEF full
<1>5. list' = full /\ cells' = DOMAIN list'
  BY <1>1, <1>2, <1>3, GrowCells
<1>6. Typed'
  BY <1>1, <1>3, <1>4, <1>5 DEF Typed, InitStages, Before, Making
<1>7. Held'
  BY <1>1, <1>4, <1>5, ProjInitAssumption DEF Held, Before, Making, Returned
<1>8. Errors'
  BY <1>1, <1>4 DEF Errors, InitStages, Before, Making, Returned
<1>9. Listed'
  <2>1. StartsWith(full, words) /\ HasProjection(full)
    <3>1. Value(list, "proj") = Value(full, "proj") /\ Given(full, "proj")
      BY <1>2, <1>3, GrownSays DEF HasProjection
    <3>2. StartsWith(full, words)
      BY <1>2, <1>3, GrownStarts
    <3> QED BY <1>2, <3>1, <3>2 DEF HasProjection
  <2> QED BY <1>1, <1>3, <1>5, <2>1 DEF Listed, Alive, InitStages, Before, Making, Returned
<1>10. Measured' /\ Formed'
  BY <1>1, <1>3, <1>4, <1>5 DEF Measured, Formed, Making, Returned
<1> QED BY <1>6, <1>7, <1>8, <1>9, <1>10

LEMMA UnknownEllipsoidStep == ASSUME PInv, UnknownEllipsoid PROVE PInv'
<1> USE DEF PInv, UnknownEllipsoid, Fail
<1>1. Typed'
  BY DEF Typed, InitStages, Before, Making
<1>2. Held' /\ Errors'
  BY DEF Held, Errors, InitStages, Before, Making, Returned
<1>3. Listed' /\ Measured' /\ Formed'
  BY DEF Listed, Measured, Formed, Alive, InitStages, Before, Making, Returned
<1> QED BY <1>1, <1>2, <1>3

(* A step that changes the fields of PIN, and no parameter.                 *)
LEMMA PinStep ==
  ASSUME PInv, at \in Making, at' \in Making \cup {"bum_call"},
         UNCHANGED <<words, list, cells, copy, pj>>, cerrno' = cerrno,
         pin' \in Handles,
         perrno' \in Int, at' \in Making => perrno' \in {0, -8},
         at' = "bum_call" => perrno' \notin {0, -44},
         at' # "datum" /\ (at = "datum" => at' \notin Making),
         at' \in Making \ {"datum", "ellipsoid"} => Fits(pin', list),
         at' \in {"ellipsoid", "shape"} => pin'.type # "wgs84",
         at' \in {"units", "meridian", "setup"} => LikeWGS84(pin')
  PROVE  PInv'
<1> USE DEF PInv
<1>1. Typed'
  BY DEF Typed, InitStages
<1>2. Held'
  BY ProjInitAssumption DEF Held, Before, Making, Returned
<1>3. Errors'
  BY DEF Errors, InitStages, Before, Making, Returned
<1>4. Listed'
  BY DEF Listed, Alive, InitStages, Before, Making, Returned
<1>5. Measured' /\ Formed'
  BY DEF Measured, Formed, Making, Returned
<1> QED BY <1>1, <1>2, <1>3, <1>4, <1>5

LEMMA RadiusSetStep == ASSUME PInv, RadiusSet PROVE PInv'
<1>1. /\ at = "ellipsoid" /\ Given(list, "R") /\ pin' = [pin EXCEPT !.a = Value(list, "R")]
      /\ UNCHANGED <<words, list, cells, copy, pj, cerrno>>
  BY DEF RadiusSet, ByRadius
<1>2. \/ at' = "bum_call" /\ perrno' = -13
      \/ at' = "shape" /\ perrno' = perrno
  BY DEF RadiusSet, Fail
<1>3. /\ pin \in Handles /\ pin.type # "wgs84" /\ perrno \in {0, -8} /\ list \in Seq(Entries)
      /\ Brought(list)
  BY <1>1 DEF PInv, Typed, Held, Errors, Formed, Measured, InitStages, Making
<1>4. Value(list, "R") \in STRING
  BY <1>1, <1>3, ValueType
<1>5. pin' \in Handles /\ pin'.type # "wgs84"
  BY <1>1, <1>3, <1>4 DEF Handles
<1>6. ~DatumCounts(list)
  BY <1>1, <1>3 DEF Brought, SizeKeys
<1>7. Fits(pin', list)
  BY <1>6 DEF Fits
<1> QED BY <1>1, <1>2, <1>3, <1>5, <1>7, PinStep DEF Making

(* The flattening is one name or two.                                       *)
LEMMA FlatteningType ==
  ASSUME NEW pl \in Seq(Entries), NEW a
  PROVE  Flattening(pl, a) \in Seq(STRING)
<1> DEFINE given == {k \in DOMAIN Forms : Given(pl, Forms[k])}
           form == Forms[Min(given)]
           val == Value(pl, form)
<1>1. CASE given = {}
  BY <1>1 DEF Flattening
<1>2. CASE given # {}
  <2>1. given \subseteq Nat /\ DOMAIN Forms = 1..5
    BY DEF Forms
  <2>2. Min(given) \in given
    BY <1>2, <2>1, MinOfNaturals
  <2>3. Min(given) \in 1..5 /\ Given(pl, form)
    BY <2>1, <2>2
  <2>4. form \in {"es", "e", "rf", "f", "b"}
    BY <2>3 DEF Forms
  <2>5. form \in STRING /\ val \in STRING /\ "-inf" \in STRING /\ "b" \in STRING
    BY <2>3, <2>4, ValueType, SpellingAssumption
  <2>6. Flattening(pl, a) \in {<<>>, <<"-inf">>, <<"b", val>>, <<val>>, <<form, val>>}
    <3> HIDE DEF form, val
    <3>1. Flattening(pl, a) =
            IF given = {} THEN <<>>
            ELSE IF form = "b"
                 THEN IF a = "0" THEN <<"-inf">> ELSE IF a = val THEN <<>> ELSE <<"b", val>>
                 ELSE IF val = "0" THEN <<>> ELSE IF val \in {"1", "<0"} THEN <<val>> ELSE <<form, val>>
      BY DEF Flattening, form, val
    <3> QED BY <3>1
  <2> HIDE DEF form, val
  <2>7. ASSUME NEW x \in STRING, NEW y \in STRING
        PROVE  <<>> \in Seq(STRING) /\ <<x>> \in Seq(STRING) /\ <<x, y>> \in Seq(STRING)
    BY ShortSequences
  <2>8. \A s \in {<<>>, <<"-inf">>, <<"b", val>>, <<val>>, <<form, val>>} : s \in Seq(STRING)
    BY <2>5, <2>7
  <2> QED BY <2>6, <2>8
<1> QED BY <1>1, <1>2

(* An ellipsoid that alone is named is the one that is measured.             *)
LEMMA EllipsoidMeasured ==
  ASSUME NEW pl \in Seq(Entries), Brought(pl), DatumCounts(pl), Value(pl, "ellps") \in DOMAIN Ellipsoids
  PROVE  LET wl == WithEllipsoid(pl)
             a == ValueOr(wl, "a", "0")
             axes == Ellipsoids[OwnEllipsoid(pl)]
         IN  ~Sphere(wl) /\ a = axes[1].val /\ Flattening(wl, a) = <<axes[2].key, axes[2].val>>
<1> DEFINE name == OwnEllipsoid(pl)
           axes == Ellipsoids[name]
           wl == WithEllipsoid(pl)
           a == ValueOr(wl, "a", "0")
<1>1. /\ name = Value(pl, "ellps") /\ name \in DOMAIN Ellipsoids /\ Given(pl, "ellps") /\ name # "sphere"
      /\ \A key \in SizeKeys \ {"ellps"} : ~Given(pl, key)
  BY DatumRows DEF Brought, OwnEllipsoid
<1> HIDE DEF name
<1>2. /\ axes \in Seq(Words) /\ Len(axes) = 2 /\ axes[1].key = "a" /\ axes[2].key \in {"rf", "b"}
      /\ axes[1].val # "0" /\ axes[2].val \notin {"0", "1", "<0"} /\ axes[1].val # axes[2].val
  BY <1>1, EllipsoidRows, SpellingAssumption
<1>3. wl = WithRow(pl, axes, "ellipsoid")
  BY <1>1 DEF WithEllipsoid
<1> HIDE DEF axes, wl
<1>4. /\ \A m \in {1, 2} : ~Given(pl, axes[m].key) =>
            Given(wl, axes[m].key) /\ Value(wl, axes[m].key) = axes[m].val
      /\ \A key : ~Given(pl, key) /\ key # axes[1].key /\ key # axes[2].key => ~Given(wl, key)
  <2>1. "ellipsoid" \in STRING /\ axes[1].key # axes[2].key
    BY <1>2, SpellingAssumption
  <2> QED BY <1>2, <1>3, <2>1, RowCounts
<1>5. Given(wl, "a") /\ Value(wl, "a") = axes[1].val
  BY <1>1, <1>2, <1>4 DEF SizeKeys
<1>6. a = axes[1].val
  BY <1>5 DEF ValueOr
<1>7. Given(wl, axes[2].key) /\ Value(wl, axes[2].key) = axes[2].val
  BY <1>1, <1>2, <1>4 DEF SizeKeys
<1>8. ~Sphere(wl)
  <2>1. ~Given(wl, "R_A") /\ ~Given(wl, "R_lat_a")
    BY <1>1, <1>2, <1>4 DEF SizeKeys
  <2> QED BY <2>1 DEF Sphere, Bool, ValueOr
<1>9. Flattening(wl, a) = <<axes[2].key, axes[2].val>>
  <2> DEFINE given == {k \in DOMAIN Forms : Given(wl, Forms[k])}
             form == Forms[Min(given)]
             n == IF axes[2].key = "rf" THEN 3 ELSE 5
  <2>1. /\ DOMAIN Forms = 1..5 /\ Forms[1] = "es" /\ Forms[2] = "e" /\ Forms[3] = "rf"
        /\ Forms[4] = "f" /\ Forms[5] = "b"
    BY DEF Forms
  <2>2. \A key \in {"es", "e", "rf", "f", "b"} : Given(wl, key) <=> key = axes[2].key
    BY <1>1, <1>2, <1>4, <1>7 DEF SizeKeys
  <2>3. n \in 1..5 /\ Forms[n] = axes[2].key /\ \A k \in 1..5 : Given(wl, Forms[k]) <=> k = n
    BY <1>2, <2>1, <2>2
  <2>4. given = {n}
    BY <2>1, <2>3
  <2> HIDE DEF n
  <2>5. Min(given) = n
    <3>1. {n} \subseteq Nat /\ {n} # {}
      BY <2>3
    <3>2. Min({n}) \in {n}
      BY <3>1, MinOfNaturals
    <3> QED BY <2>4, <3>2
  <2>6. form = axes[2].key
    BY <2>3, <2>5
  <2>7. Flattening(wl, a) =
          IF given = {} THEN <<>>
          ELSE IF form = "b"
               THEN IF a = "0" THEN <<"-inf">> ELSE IF a = Value(wl, form) THEN <<>> ELSE <<"b", Value(wl, form)>>
               ELSE IF Value(wl, form) = "0" THEN <<>>
                    ELSE IF Value(wl, form) \in {"1", "<0"} THEN <<Value(wl, form)>>
                    ELSE <<form, Value(wl, form)>>
    BY DEF Flattening
  <2> HIDE DEF given, form
  <2>8. given # {}
    BY <2>4
  <2> QED BY <1>2, <1>6, <1>7, <2>6, <2>7, <2>8
<1> QED BY <1>6, <1>8, <1>9 DEF wl, a, axes, name

LEMMA EllipsoidSetStep == ASSUME PInv, EllipsoidSet PROVE PInv'
<1> DEFINE wl == WithEllipsoid(list)
           a == ValueOr(wl, "a", "0")
           es == Flattening(wl, a)
           code == BoolErrno(wl, "R_A")
           axis == IF Sphere(wl) THEN Radius(a, es) ELSE a
<1>1. /\ at = "ellipsoid" /\ UNCHANGED <<words, list, cells, copy, pj, cerrno>>
      /\ Given(list, "ellps") => Value(list, "ellps") \in DOMAIN Ellipsoids
      /\ pin' = IF Sphere(wl) THEN [pin EXCEPT !.a = axis] ELSE [pin EXCEPT !.a = axis, !.es = es]
  BY DEF EllipsoidSet, CutBack
<1>2. /\ pin \in Handles /\ pin.type # "wgs84" /\ perrno \in {0, -8} /\ list \in Seq(Entries)
      /\ Brought(list)
  BY <1>1 DEF PInv, Typed, Held, Errors, Formed, Measured, InitStages, Making
<1>3. code \in {0, -8}
  BY <1>2 DEF BoolErrno
<1>4. \/ at' = "bum_call" /\ perrno' \in {-8, -10, -12, -13}
      \/ at' = "shape" /\ perrno' = perrno
  <2> DEFINE noRf == ~Given(wl, "es") /\ ~Given(wl, "e") /\ ValueOr(wl, "rf", "1") = "0"
             negative == ~Sphere(wl) /\ es \in {<<"<0">>, <<"-inf">>}
  <2>1. (CASE noRf -> Fail(-10)
          [] ~noRf /\ code # 0 -> Fail(code)
          [] ~noRf /\ code = 0 /\ negative -> Fail(-12)
          [] ~noRf /\ code = 0 /\ ~negative /\ axis = "0" -> Fail(-13)
          [] OTHER -> at' = "shape" /\ UNCHANGED perrno)
    BY DEF EllipsoidSet
  <2> HIDE DEF noRf, negative, code, axis
  <2>2. CASE noRf
    BY <2>1, <2>2 DEF Fail
  <2>3. CASE ~noRf /\ code # 0
    BY <1>3, <2>1, <2>3 DEF Fail
  <2>4. CASE ~noRf /\ code = 0 /\ negative
    BY <2>1, <2>4 DEF Fail
  <2>5. CASE ~noRf /\ code = 0 /\ ~negative /\ axis = "0"
    BY <2>1, <2>5 DEF Fail
  <2>6. CASE ~noRf /\ code = 0 /\ ~negative /\ axis # "0"
    BY <2>1, <2>6
  <2> QED BY <2>2, <2>3, <2>4, <2>5, <2>6
<1>5. axis \in STRING /\ es \in Seq(STRING)
  <2>1. wl \in Seq(Entries)
    <3>1. CASE Given(list, "ellps")
      <4> DEFINE row == Ellipsoids[Value(list, "ellps")]
      <4>1. row \in Seq(Words) /\ "ellipsoid" \in STRING /\ wl = WithRow(list, row, "ellipsoid")
        BY <1>1, <3>1, SpellingAssumption DEF WithEllipsoid
      <4> HIDE DEF row, wl
      <4> QED BY <1>2, <4>1, RowBehind
    <3>2. CASE ~Given(list, "ellps")
      BY <1>2, <3>2 DEF WithEllipsoid
    <3> QED BY <3>1, <3>2
  <2> HIDE DEF wl
  <2>2. {"0", "mean", "nan"} \subseteq STRING
    BY SpellingAssumption
  <2>3. a \in STRING
    BY <2>1, <2>2, ValueType
  <2>4. es \in Seq(STRING)
    BY <2>1, FlatteningType
  <2> HIDE DEF a, es
  <2> QED BY <2>2, <2>3, <2>4 DEF Radius
<1>6. Fits(pin', list)
  <2> SUFFICES ASSUME DatumCounts(list)
               PROVE  LET axes == Ellipsoids[OwnEllipsoid(list)]
                      IN  pin'.a = axes[1].val /\ pin'.es = <<axes[2].key, axes[2].val>>
    BY DEF Fits
  <2>1. Value(list, "ellps") \in DOMAIN Ellipsoids
    BY <1>1, <1>2 DEF Brought
  <2>2. LET axes == Ellipsoids[OwnEllipsoid(list)]
        IN  ~Sphere(wl) /\ a = axes[1].val /\ es = <<axes[2].key, axes[2].val>>
    BY <1>2, <2>1, EllipsoidMeasured
  <2> HIDE DEF wl, a, es
  <2>3. pin'.a = a /\ pin'.es = es
    BY <1>1, <1>2, <2>2 DEF Handles
  <2> QED BY <2>2, <2>3
<1> HIDE DEF wl, a, es, axis
<1>7. pin' \in Handles /\ pin'.type # "wgs84"
  BY <1>1, <1>2, <1>5 DEF Handles
<1> QED BY <1>1, <1>2, <1>4, <1>6, <1>7, PinStep DEF Making

LEMMA ShapeSetStep == ASSUME PInv, ShapeSet PROVE PInv'
<1> DEFINE wgs84 == /\ pin.type = "3param" /\ pin.params = "0,0,0"
                    /\ pin.a = "6378137.0" /\ pin.es \in GRS80Like
           pending == IF BadBool(list, "over") \/ (pin.es # <<>> /\ BadBool(list, "geoc"))
                      THEN -8 ELSE perrno
           turned == IF ValueOr(list, "lon_wrap", "0") = "180" THEN 2 ELSE 0
           type == IF wgs84 THEN "wgs84" ELSE pin.type
           params == IF wgs84 THEN "" ELSE pin.params
<1>1. at = "shape" /\ UNCHANGED <<words, list, cells, copy, pj, cerrno>>
  BY DEF ShapeSet
<1>2. /\ pin \in Handles /\ pin.type # "wgs84" /\ perrno \in {0, -8} /\ Fits(pin, list)
  BY <1>1 DEF PInv, Typed, Held, Errors, Formed, Measured, InitStages, Making
<1>3. pending \in {0, -8} /\ turned \in {0, 2} /\ type \in DatumTypes /\ params \in STRING
      /\ (type = "wgs84" => wgs84)
  <2>1. "" \in STRING
    BY SpellingAssumption
  <2>2. pin.params \in STRING /\ pin.type \in DatumTypes /\ "wgs84" \in DatumTypes
    BY <1>2 DEF Handles, DatumTypes
  <2> QED BY <1>2, <2>1, <2>2
<1>4. \/ at' = "bum_call" /\ perrno' = -6 /\ pin' = pin
      \/ /\ pin' = [pin EXCEPT !.type = type, !.params = params, !.wrap = turned]
         /\ \/ at' = "bum_call" /\ perrno' = -31
            \/ at' = "units" /\ perrno' = pending
  <2>1. CASE pin.es = <<"1">>
    BY <2>1 DEF ShapeSet, Fail
  <2>2. CASE pin.es # <<"1">>
    <3>1. pin' = [pin EXCEPT !.type = type, !.params = params, !.wrap = turned]
      BY <2>2 DEF ShapeSet
    <3>2. \/ at' = "bum_call" /\ perrno' = -31
          \/ at' = "units" /\ perrno' = pending
      BY <2>2 DEF ShapeSet, Fail
    <3> QED BY <3>1, <3>2
  <2> QED BY <2>1, <2>2
<1>5. CASE at' = "bum_call" /\ perrno' = -6 /\ pin' = pin
  BY <1>1, <1>2, <1>5, PinStep DEF Making
<1>6. CASE /\ pin' = [pin EXCEPT !.type = type, !.params = params, !.wrap = turned]
           /\ \/ at' = "bum_call" /\ perrno' = -31
              \/ at' = "units" /\ perrno' = pending
  <2> HIDE DEF type, params, turned, pending
  <2>1. /\ pin' \in Handles /\ pin'.type = type /\ pin'.params = params
        /\ pin'.a = pin.a /\ pin'.es = pin.es
    BY <1>2, <1>3, <1>6 DEF Handles
  <2>2. LikeWGS84(pin')
    BY <1>3, <2>1 DEF LikeWGS84, params
  <2>3. Fits(pin', list)
    BY <1>2, <2>1 DEF Fits
  <2>4. CASE at' = "bum_call" /\ perrno' = -31
    BY <1>1, <2>1, <2>2, <2>3, <2>4, PinStep DEF Making
  <2>5. CASE at' = "units" /\ perrno' = pending
    <3>1. perrno' \in {0, -8} /\ at' \in Making \ {"datum", "ellipsoid", "shape"}
      BY <1>3, <2>5 DEF Making
    <3> QED BY <1>1, <2>1, <2>2, <2>3, <2>5, <3>1, PinStep DEF Making
  <2> QED BY <1>6, <2>4, <2>5
<1> QED BY <1>4, <1>5, <1>6

(* What the unit and the meridian do to PIN.                                *)
LEMMA NameSet ==
  ASSUME pin \in Handles, LikeWGS84(pin), Fits(pin, list), NEW name \in STRING,
         \/ pin' = [pin EXCEPT !.unit = name]
         \/ pin' = [pin EXCEPT !.pm = name]
         \/ pin' = pin
  PROVE  pin' \in Handles /\ LikeWGS84(pin') /\ Fits(pin', list)
<1>1. /\ pin' \in Handles /\ pin'.type = pin.type /\ pin'.params = pin.params
      /\ pin'.a = pin.a /\ pin'.es = pin.es
  BY DEF Handles
<1> QED BY <1>1 DEF LikeWGS84, Fits

LEMMA UnitsSetStep == ASSUME PInv, UnitsSet PROVE PInv'
<1> DEFINE unit == ValueOr(list, "units", ValueOr(list, "to_meter", "m"))
           name == IF unit = "m" THEN "" ELSE unit
<1>1. at = "units" /\ UNCHANGED <<words, list, cells, copy, pj, cerrno>>
  BY DEF UnitsSet
<1>2. /\ pin \in Handles /\ LikeWGS84(pin) /\ perrno \in {0, -8} /\ Fits(pin, list)
      /\ list \in Seq(Entries)
  BY <1>1 DEF PInv, Typed, Held, Errors, Formed, Measured, InitStages, Making
<1>3. name \in STRING
  <2>1. "m" \in STRING /\ "" \in STRING
    BY SpellingAssumption
  <2>2. unit \in STRING
    BY <1>2, <2>1, ValueType
  <2> QED BY <2>1, <2>2
<1>4. \/ at' = "bum_call" /\ perrno' = -7 /\ pin' = pin
      \/ at' = "meridian" /\ perrno' = perrno /\ pin' = [pin EXCEPT !.unit = name]
  BY DEF UnitsSet, Fail
<1> HIDE DEF name
<1>5. pin' \in Handles /\ LikeWGS84(pin') /\ Fits(pin', list)
  BY <1>2, <1>3, <1>4, NameSet
<1> QED BY <1>1, <1>2, <1>4, <1>5, PinStep DEF Making

LEMMA MeridianSetStep == ASSUME PInv, MeridianSet PROVE PInv'
<1> DEFINE pm == ValueOr(list, "pm", "greenwich")
           name == IF pm \in {"greenwich", "0"} THEN "" ELSE pm
<1>1. at = "meridian" /\ UNCHANGED <<words, list, cells, copy, pj, cerrno>>
  BY DEF MeridianSet
<1>2. /\ pin \in Handles /\ LikeWGS84(pin) /\ perrno \in {0, -8} /\ Fits(pin, list)
      /\ list \in Seq(Entries)
  BY <1>1 DEF PInv, Typed, Held, Errors, Formed, Measured, InitStages, Making
<1>3. name \in STRING
  <2>1. "greenwich" \in STRING /\ "" \in STRING
    BY SpellingAssumption
  <2>2. pm \in STRING
    BY <1>2, <2>1, ValueType
  <2> QED BY <2>1, <2>2
<1>4. \/ at' = "bum_call" /\ perrno' = -46 /\ pin' = pin
      \/ at' = "setup" /\ perrno' = perrno /\ pin' = [pin EXCEPT !.pm = name]
  BY DEF MeridianSet, Fail
<1> HIDE DEF name
<1>5. pin' \in Handles /\ LikeWGS84(pin') /\ Fits(pin', list)
  BY <1>2, <1>3, <1>4, NameSet
<1> QED BY <1>1, <1>2, <1>4, <1>5, PinStep DEF Making

LEMMA SetupFailsStep == ASSUME PInv, NEW code \in {-21, -35}, SetupFails(code) PROVE PInv'
<1>1. /\ at = "setup" /\ at' = "bum_call" /\ perrno' = code /\ code \in {-21, -35}
      /\ pin' = NULL /\ UNCHANGED <<words, list, cells, copy, cerrno>>
  BY DEF SetupFails, Fail
<1>2. pj' = (pin' # NULL)
  BY Zenon DEF SetupFails
<1> USE DEF PInv
<1>3. Typed'
  BY <1>1 DEF Typed, InitStages
<1>4. Held'
  BY <1>1, <1>2 DEF Held, Before, Making, Returned
<1>5. Errors'
  BY <1>1 DEF Errors, InitStages, Before, Making, Returned
<1>6. Listed' /\ Measured' /\ Formed'
  BY <1>1 DEF Listed, Measured, Formed, Alive, InitStages, Before, Making, Returned
<1> QED BY <1>3, <1>4, <1>5, <1>6

LEMMA SetupSucceedsStep == ASSUME PInv, NEW err \in {0, ERANGE}, Setup(err) PROVE PInv'
<1> DEFINE row == Projections[Value(list, "proj")]
<1>1. /\ at = "setup" /\ UNCHANGED <<words, list, cells, pj, perrno>> /\ cerrno' = err
      /\ pin' = [pin EXCEPT !.kind = row.kind, !.inv = row.inv]
      /\ \/ at' = "bum_call" /\ copy' = copy /\ (err # 0 \/ perrno # 0)
         \/ at' = "returned" /\ copy' = FALSE /\ perrno = 0
  BY DEF Setup
<1>2. /\ pin \in Handles /\ LikeWGS84(pin) /\ perrno \in {0, -8} /\ Fits(pin, list) /\ Brought(list)
      /\ HasProjection(list)
  BY <1>1 DEF PInv, Typed, Held, Errors, Formed, Measured, Listed, Alive, InitStages, Making
<1>3. row.kind \in Kinds /\ row.inv \in BOOLEAN
  <2>1. \A name \in DOMAIN Projections :
          Projections[name].kind \in Kinds /\ Projections[name].inv \in BOOLEAN
    <3> SUFFICES ASSUME NEW name \in DOMAIN Projections
                 PROVE  Projections[name].kind \in Kinds /\ Projections[name].inv \in BOOLEAN
      OBVIOUS
    <3>1. name \in {"latlong", "geocent", "lcc", "airy"}
      BY DEF Projections
    <3>2. CASE name = "latlong"
      BY <3>2 DEF Projections, Kinds
    <3>3. CASE name = "geocent"
      BY <3>3 DEF Projections, Kinds
    <3>4. CASE name = "lcc"
      BY <3>4 DEF Projections, Kinds
    <3>5. CASE name = "airy"
      BY <3>5 DEF Projections, Kinds
    <3> QED BY <3>1, <3>2, <3>3, <3>4, <3>5
  <2> QED BY <1>2, <2>1 DEF HasProjection
<1> HIDE DEF row
<1>4. /\ pin' \in Handles /\ pin'.type = pin.type /\ pin'.params = pin.params
      /\ pin'.a = pin.a /\ pin'.es = pin.es
  BY <1>1, <1>2, <1>3 DEF Handles
<1>5. LikeWGS84(pin') /\ Fits(pin', list) /\ pin' # NULL
  BY <1>2, <1>4, ProjInitAssumption DEF LikeWGS84, Fits
<1> USE DEF PInv
<1>6. Typed'
  BY <1>1, <1>2, <1>4 DEF Typed, InitStages, ERANGE
<1>7. Held'
  BY <1>1, <1>5 DEF Held, Before, Making, Returned
<1>8. Errors'
  BY <1>1, <1>2, <1>5 DEF Errors, InitStages, Before, Making, Returned, ERANGE
<1>9. Listed'
  BY <1>1 DEF Listed, Alive, InitStages, Before, Making, Returned
<1>10. Measured' /\ Formed'
  BY <1>1, <1>2, <1>5 DEF Measured, Formed, Making, Returned
<1> QED BY <1>6, <1>7, <1>8, <1>9, <1>10

-----------------------------------------------------------------------------
(* Freeing                                                                  *)

(* What is freed is what is allocated.                                      *)
LEMMA FreesAll ==
  ASSUME PInv, NEW next, FreeAll(next)
  PROVE  at' = next /\ cells' = {} /\ list' = <<>> /\ pj' = (pin' # NULL) /\ pin' = NULL
<1>1. cells = DOMAIN list /\ pj = (pin # NULL)
  BY DEF PInv, Held
<1>2. /\ cells' = cells \ DOMAIN list /\ list' = <<>> /\ pj' = (pj /\ pin = NULL)
      /\ pin' = NULL /\ at' = next
  BY <1>1 DEF FreeAll
<1>3. pj' = (pin' # NULL)
  BY <1>1, <1>2, Zenon
<1> QED BY <1>1, <1>2, <1>3

LEMMA BumCallStep == ASSUME PInv, BumCall PROVE PInv'
<1>1. /\ at = "bum_call" /\ perrno' = (IF perrno = 0 THEN cerrno ELSE perrno)
      /\ ~copy' /\ words' = words /\ cerrno' = cerrno
      /\ at' = "returned" /\ cells' = {} /\ list' = <<>> /\ pin' = NULL
  BY FreesAll DEF BumCall
<1>2. copy' \in BOOLEAN /\ pj' = (pin' # NULL)
  <2>1. copy' = FALSE /\ pj' = (pin' # NULL)
    BY FreesAll, Zenon DEF BumCall
  <2> QED BY <2>1, Zenon
<1>3. Homeless => Homeless'
  BY <1>1 DEF Homeless
<1> USE DEF PInv
<1>4. perrno \in Int /\ perrno # -44 /\ cerrno \in {0, 2, 12, 34} /\ (perrno = 0 /\ cerrno = 0 => Homeless)
  BY <1>1 DEF Typed, Errors, ENOMEM, ENOENT, ERANGE
<1>5. Typed'
  BY <1>1, <1>2, <1>4 DEF Typed, ENOMEM, ENOENT, ERANGE
<1>6. Held'
  BY <1>1, <1>2 DEF Held, Before, Making, Returned
<1>7. Errors'
  BY <1>1, <1>3, <1>4 DEF Errors, InitStages, Before, Making, Returned
<1>8. Listed' /\ Measured' /\ Formed'
  BY <1>1 DEF Listed, Measured, Formed, Alive, InitStages, Before, Making, Returned
<1> QED BY <1>5, <1>6, <1>7, <1>8

LEMMA FreeStep == ASSUME PInv, Free PROVE PInv'
<1>1. /\ at = "returned" /\ pin # NULL /\ UNCHANGED <<words, copy, perrno, cerrno>>
      /\ at' = "freed" /\ cells' = {} /\ list' = <<>> /\ pin' = NULL
  BY FreesAll DEF Free
<1>2. pj' = (pin' # NULL)
  BY FreesAll, Zenon DEF Free
<1> USE DEF PInv
<1>3. Typed'
  BY <1>1 DEF Typed
<1>4. Held' /\ Errors'
  BY <1>1, <1>2 DEF Held, Errors, InitStages, Before, Making, Returned
<1>5. Listed' /\ Measured' /\ Formed'
  BY <1>1 DEF Listed, Measured, Formed, Alive, InitStages, Before, Making, Returned
<1> QED BY <1>3, <1>4, <1>5

LEMMA LeaveStep == ASSUME PInv, Leave PROVE PInv'
<1>1. /\ at' = "out" /\ words' = <<>> /\ list' = <<>> /\ cells' = {} /\ ~copy' /\ pin' = NULL
      /\ perrno' = 0 /\ cerrno' = 0
  BY DEF Leave
<1>2. copy' \in BOOLEAN /\ pj' = (pin' # NULL)
  BY Zenon DEF Leave
<1>3. Typed'
  BY <1>1, <1>2 DEF Typed
<1>4. Held' /\ Errors'
  BY <1>1, <1>2 DEF Held, Errors, InitStages, Before, Making, Returned
<1>5. Listed' /\ Measured' /\ Formed'
  BY <1>1 DEF Listed, Measured, Formed, Alive, InitStages, Before, Making, Returned
<1> QED BY <1>3, <1>4, <1>5 DEF PInv

-----------------------------------------------------------------------------
(* The library                                                              *)

LEMMA PInvInit == LibraryInit => PInv
<1> SUFFICES ASSUME LibraryInit PROVE PInv
  OBVIOUS
<1>1. /\ at = "out" /\ words = <<>> /\ list = <<>> /\ cells = {} /\ ~copy /\ pin = NULL
      /\ perrno = 0 /\ cerrno = 0
  BY DEF LibraryInit, ProjInitInit
<1>2. copy \in BOOLEAN /\ pj = (pin # NULL)
  BY Zenon DEF LibraryInit, ProjInitInit
<1>3. Typed
  BY <1>1, <1>2 DEF Typed
<1>4. Held /\ Errors
  BY <1>1, <1>2 DEF Held, Errors, InitStages, Before, Making, Returned
<1>5. Listed /\ Measured /\ Formed
  BY <1>1 DEF Listed, Measured, Formed, Alive, InitStages, Before, Making, Returned
<1> QED BY <1>3, <1>4, <1>5 DEF PInv

LEMMA PInvStep == PInv /\ [LibraryNext]_<<vars, initVars>> => PInv'
<1> SUFFICES ASSUME PInv, [LibraryNext]_<<vars, initVars>> PROVE PInv'
  OBVIOUS
<1>1. CASE UNCHANGED initVars
  BY <1>1 DEF initVars, PInv, Typed, Held, Errors, Listed, Measured, Formed, Alive, Homeless, Returned
<1>2. CASE InitCalls
  BY <1>2, TooManyWordsStep, CallInitStep DEF InitCalls
<1>3. CASE ParameterStep
  BY <1>3, NoInitStep, InitFailsStep, ReadInitStep, SelectProjectionStep, DefaultsStep, NoMemoryStep,
     AllocateStep DEF ParameterStep
<1>4. CASE EarthStep
  BY <1>4, UnknownDatumStep, DatumSetStep, UnknownEllipsoidStep, RadiusSetStep, EllipsoidSetStep,
     ShapeSetStep, UnitsSetStep, MeridianSetStep DEF EarthStep
<1>5. CASE SetupStep
  BY <1>5, SetupFailsStep, SetupSucceedsStep DEF SetupStep
<1>6. CASE BumCall \/ Free \/ Leave
  BY <1>6, BumCallStep, FreeStep, LeaveStep
<1>7. CASE UNCHANGED <<vars, initVars>>
  BY <1>1, <1>7
<1> QED BY <1>1, <1>2, <1>3, <1>4, <1>5, <1>6, <1>7 DEF LibraryNext, ProjInitNext

(* At every step of pj_init and pj_free it is known what is allocated, which *)
(* errors are noted, and who has put what on the list.                      *)
THEOREM InitInvariant == LibrarySpec => []PInv
<1>1. PInv /\ [LibraryNext]_<<vars, initVars>> => PInv'
  BY PInvStep
<1> QED BY <1>1, PInvInit, PTL DEF LibrarySpec

(* pj_init ends in a handle or in an error with nothing left: each block is  *)
(* freed once, on whichever of its error paths, for all definitions and      *)
(* init files.                                                              *)
THEOREM InitLeavesNothing == LibrarySpec => []InitClean
<1>1. PInv => InitClean
  <2> SUFFICES ASSUME PInv PROVE InitClean
    OBVIOUS
  <2>1. Typed /\ Held /\ Errors
    BY DEF PInv
  <2>2. /\ at # "crash"
        /\ at \in InitStages \cup {"out", "bum_call", "returned", "freed"}
    BY <2>1 DEF Typed, InitStages, Before, Making
  <2>3. at = "freed" => pin = NULL /\ list = <<>> /\ ~copy
    BY <2>1 DEF Held
  <2>4. at = "returned" /\ pin = NULL => list = <<>> /\ (copy <=> perrno = -44) /\ (perrno = 0 => Homeless)
    BY <2>1 DEF Held, Errors
  <2>5. Returned => perrno = 0 /\ ~copy
    BY <2>1 DEF Held, Errors
  <2>6. cells = DOMAIN list /\ (list = <<>> => cells = {})
    BY <2>1 DEF Held
  <2>7. (pin # NULL => pj) /\ (pin = NULL => ~pj)
    BY <2>1, Zenon DEF Held
  <2> QED BY <2>2, <2>3, <2>4, <2>5, <2>6, <2>7, Zenon DEF InitClean, Homeless
<1> QED BY <1>1, InitInvariant, PTL

(* A handle is what its definition says, for all of them.                   *)
THEOREM HandlesAsDefined == LibrarySpec => []HandleAsDefined
<1>1. PInv => HandleAsDefined
  <2> SUFFICES ASSUME PInv, Returned PROVE HandleAsDefined
    BY DEF HandleAsDefined
  <2>1. /\ words \in Seq(Words) /\ list \in Seq(Entries) /\ pin \in Handles
        /\ StartsWith(list, words) /\ Unobtrusive(list)
        /\ From(list, {"caller", "init", "defaults", "datum"})
        /\ Fits(pin, list) /\ LikeWGS84(pin)
    BY DEF PInv, Typed, Listed, Measured, Formed, Alive, Returned
  <2>2. IsSystem(SystemOf(pin))
    <3> DEFINE s == SystemOf(pin)
    <3>1. /\ s.kind = pin.kind /\ s.type = pin.type /\ s.params = pin.params
          /\ s.pm = pin.pm /\ s.unit = pin.unit /\ s.wrap = pin.wrap /\ s.inv = pin.inv
          /\ s.ell = EllipsoidName(pin.a, pin.es)
      BY DEF SystemOf
    <3> HIDE DEF s
    <3>2. /\ pin.kind \in Kinds /\ pin.type \in DatumTypes /\ pin.params \in STRING
          /\ pin.pm \in STRING /\ pin.unit \in STRING /\ pin.wrap \in {0, 2}
          /\ pin.inv \in BOOLEAN
      BY <2>1 DEF Handles
    <3>3. s.wrap \in -2..2
      BY <3>1, <3>2
    <3>4. s.type = "wgs84" => s.ell = "WGS84" /\ s.params = ""
      BY <2>1, <3>1 DEF LikeWGS84, EllipsoidName
    <3>5. IsSystem(s)
      BY <3>1, <3>2, <3>3, <3>4, Zenon DEF IsSystem
    <3> QED BY <3>5 DEF s
  <2>3. ASSUME NEW k \in DOMAIN words PROVE Value(list, words[k].key) = Value(words, words[k].key)
    <3>1. Given(words, words[k].key)
      BY DEF Given
    <3> QED BY <2>1, <3>1, WordsCount
  <2>4. ASSUME NEW k \in DOMAIN list, list[k] = Entry(General[1], "defaults") PROVE ~EarthSaid(list)
    <3>1. list[k].from = "defaults" /\ list[k].key = "ellps"
      BY <2>4 DEF Entry, General, Word
    <3> QED BY <2>1, <3>1 DEF Unobtrusive
  <2>5. Fits(pin, list) /\ From(list, {"caller", "init", "defaults", "datum"})
    BY <2>1
  <2> QED BY <2>2, <2>3, <2>4, <2>5 DEF HandleAsDefined, Fits, DatumCounts, OwnEllipsoid, From
<1> QED BY <1>1, InitInvariant, PTL

(* In the library, where initialising and freeing come between the calls,    *)
(* pj_transform is what it is alone: what is proved of it holds there.       *)
THEOREM LibraryTransforms == LibrarySpec => Spec
<1>1. LibraryInit => Init
  BY DEF LibraryInit
<1>2. [LibraryNext]_<<vars, initVars>> => [Next]_vars
  BY DEF LibraryNext
<1> QED BY <1>1, <1>2, PTL DEF LibrarySpec, Spec
=============================================================================
