--------------------------- MODULE GridListProofs ---------------------------
(***************************************************************************)
(* Invariance proofs for GridList, for any set of files, any +nadgrids      *)
(* strings, any number of grids per file and any SlotsAdded >= 2.           *)
(*                                                                          *)
(* IInv strengthens the checked invariants with what the loops know:        *)
(*   InMerge    the merge loop runs for an entry, and only once a string    *)
(*              has been remembered;                                        *)
(*   Unmatched  while nothing has matched, no grid behind the cursor bears  *)
(*              the entry's name: so a load adds a file not on the list.    *)
(*                                                                          *)
(* BuildInv says how far a request has come: InOrder, that the answer is     *)
(* what the entries done with ask for and what the one at work asks of the   *)
(* grids before the cursor, which holds because the files of the entries    *)
(* done with are on the list (Tried), so that loading another leaves what    *)
(* they are offered as it is, and because a stub is the only grid of its     *)
(* file (StubsAlone), so that nothing follows one.  What is offered is       *)
(* computed place by place; the lemmas about it go by induction.             *)
(***************************************************************************)
EXTENDS GridList, Induction

InMerge ==
  /\ stage = "merge" => entry \in NadEntry
  /\ stage # "idle" => last # NIL

Unmatched ==
  stage = "merge" /\ ~got_match =>
    \A k \in 1..Len(grid_list) : k < cursor => grid_list[k].name # entry.name

IInv == ListTypeOK /\ InMerge /\ SlotsInBounds /\ NoDangling /\ Unmatched /\ LoadedOnce

-----------------------------------------------------------------------------
(* A file yields grids of its own name, no two of them equal.               *)
LEMMA LoadedGrids ==
  ASSUME ListTypeOK, NEW n \in Name
  PROVE  /\ Loaded(n) \in Seq(GridInfo)
         /\ \A i \in 1..Len(Loaded(n)) : Loaded(n)[i].name = n
         /\ \A i, j \in 1..Len(Loaded(n)) : Loaded(n)[i] = Loaded(n)[j] => i = j
<1>1. disk[n] \in 0..MaxSub /\ MaxSub \in Nat \ {0}
  BY BoundsAssumption DEF ListTypeOK
<1>2. CASE disk[n] = 0
  <2>1. Loaded(n) = <<[name |-> n, sub |-> 0]>>
    BY <1>2 DEF Loaded
  <2>2. [name |-> n, sub |-> 0] \in GridInfo
    BY <1>1 DEF GridInfo
  <2> QED BY <2>1, <2>2
<1>3. CASE disk[n] # 0
  <2> DEFINE f == [i \in 1..disk[n] |-> [name |-> n, sub |-> i]]
  <2>1. Loaded(n) = f
    BY <1>3 DEF Loaded
  <2>2. \A i \in 1..disk[n] : f[i] \in GridInfo /\ f[i].name = n /\ f[i].sub = i
    BY <1>1 DEF GridInfo
  <2>3. DOMAIN f = 1..disk[n] /\ f = [i \in 1..disk[n] |-> f[i]] /\ disk[n] \in Nat
    BY <1>1
  <2> HIDE DEF f
  <2>4. f \in Seq(GridInfo) /\ Len(f) = disk[n]
    BY <2>2, <2>3, SequenceOf
  <2> QED BY <2>1, <2>2, <2>4
<1> QED BY <1>2, <1>3

(* The two Boolean-valued variables, apart from the others.                 *)
LEMMA ReturnTyped ==
  ASSUME NEW ptr \in BOOLEAN, NEW n \in Nat, ListReturn(ptr, n)
  PROVE  result' \in [list : BOOLEAN, count : Nat]
  BY DEF ListReturn

LEMMA ResultTyped ==
  ASSUME ListTypeOK, [ListNext]_listVars
  PROVE  result' \in [list : BOOLEAN, count : Nat]
<1>1. count \in Nat /\ max \in Nat /\ 0 \in Nat
  BY DEF ListTypeOK
<1>2. FALSE \in BOOLEAN /\ (max > 0) \in BOOLEAN /\ (count > 0) \in BOOLEAN
  OBVIOUS
<1>3. CASE \E s \in NadGrids : RequestSame(s)
  BY <1>1, <1>2, <1>3, ReturnTyped DEF RequestSame
<1>4. CASE EntryTooLong
  BY <1>1, <1>2, <1>4, ReturnTyped DEF EntryTooLong
<1>5. CASE Finish
  BY <1>1, <1>2, <1>5, ReturnTyped DEF Finish
<1>6. CASE MatchStub \/ MergeDone
  BY <1>1, <1>2, <1>6, ReturnTyped DEF MatchStub, MergeDone, MergeReturns, ListTypeOK
<1>7. CASE UNCHANGED result
  BY <1>7 DEF ListTypeOK
<1> QED
  BY <1>3, <1>4, <1>5, <1>6, <1>7
  DEF ListNext, Request, RequestNew, ListStep, Merge, NextEntry, AddMatch, SkipGrid, LoadGrid,
      Deallocate, DiskChange, listVars

LEMMA MatchTyped == ASSUME ListTypeOK, [ListNext]_listVars PROVE got_match' \in BOOLEAN
  BY DEF ListTypeOK, ListNext, Request, RequestSame, RequestNew, ListStep, Merge, NextEntry, EntryTooLong,
         Finish, AddMatch, MatchStub, SkipGrid, MergeDone, LoadGrid, MergeReturns, ListReturn,
         Deallocate, DiskChange, listVars, mergeVars

LEMMA InitIInv == ListInit => IInv
<1> SUFFICES ASSUME ListInit PROVE IInv
  OBVIOUS
<1>1. result \in [list : BOOLEAN, count : Nat] /\ got_match \in BOOLEAN
  BY DEF ListInit
<1>2. slots \in [0..max-1 -> GridInfo \cup {NIL, Junk}]
  BY DEF ListInit
<1>3. ListTypeOK
  BY <1>1, <1>2 DEF ListInit, ListTypeOK
<1> QED BY <1>3 DEF ListInit, IInv, InMerge, SlotsInBounds, NoDangling, Unmatched, LoadedOnce

(* The array and the counters describing it.                                *)
LEMMA ArrayTyped ==
  ASSUME ListTypeOK, SlotsInBounds, InMerge, [ListNext]_listVars
  PROVE  /\ count' \in Nat /\ max' \in Nat
         /\ slots' \in [0..max' - 1 -> GridInfo \cup {NIL, Junk}]
<1> DEFINE Typed == /\ count' \in Nat /\ max' \in Nat
                    /\ slots' \in [0..max' - 1 -> GridInfo \cup {NIL, Junk}]
<1>1. ASSUME NEW s \in NadGrids, RequestNew(s) PROVE Typed
  BY <1>1 DEF RequestNew, ListTypeOK
<1>2. CASE AddMatch
  <2> DEFINE array == IF NeedsRoom THEN Grown ELSE slots
  <2>1. /\ count \in Nat /\ max \in Nat /\ SlotsAdded \in Nat /\ SlotsAdded >= 2
        /\ count > 0 => count < max
    BY BoundsAssumption DEF ListTypeOK, SlotsInBounds
  <2>2. count + 1 < max' /\ max' \in Nat
    BY <1>2, <2>1 DEF AddMatch, NeedsRoom
  <2>3. array \in [0..max' - 1 -> GridInfo \cup {NIL, Junk}]
    BY <1>2, <2>1 DEF AddMatch, Grown, ListTypeOK
  <2>4. grid_list[cursor] \in GridInfo
    BY <1>2 DEF AddMatch, AtGrid, ListTypeOK
  <2>5. /\ slots' = [array EXCEPT ![count] = grid_list[cursor], ![count + 1] = NIL]
        /\ count' = count + 1
    BY <1>2 DEF AddMatch
  <2> HIDE DEF array
  <2>6. slots' \in [0..max' - 1 -> GridInfo \cup {NIL, Junk}]
    BY <2>3, <2>4, <2>5
  <2>7. count' \in Nat
    BY <2>1, <2>5
  <2> QED BY <2>2, <2>6, <2>7
<1>3. CASE Deallocate
  <2>1. CASE last = NIL
    BY <1>3, <2>1 DEF Deallocate, cacheVars, ListTypeOK
  <2>2. CASE last # NIL
    <3>1. max' = 0 /\ count' = 0 /\ slots' = [i \in 0..-1 |-> Junk]
      BY <1>3, <2>2 DEF Deallocate
    <3>2. slots' \in [0..max' - 1 -> GridInfo \cup {NIL, Junk}]
      BY <3>1
    <3> QED BY <3>1, <3>2
  <2> QED BY <2>1, <2>2
<1>4. CASE UNCHANGED cacheVars
  BY <1>4 DEF cacheVars, ListTypeOK
<1> QED
  BY <1>1, <1>2, <1>3, <1>4
  DEF ListNext, Request, RequestSame, ListStep, Merge, NextEntry, EntryTooLong, Finish,
      MatchStub, SkipGrid, MergeDone, LoadGrid, DiskChange, listVars

(* The list of loaded grids.                                                *)
LEMMA ListTyped == ASSUME ListTypeOK, InMerge, [ListNext]_listVars PROVE grid_list' \in Seq(GridInfo)
<1>1. CASE LoadGrid
  <2>1. entry.name \in Name
    BY <1>1 DEF LoadGrid, AtEnd, InMerge, NadEntry
  <2>2. Loaded(entry.name) \in Seq(GridInfo) /\ grid_list \in Seq(GridInfo)
    BY <2>1, LoadedGrids DEF ListTypeOK
  <2> QED BY <1>1, <2>2 DEF LoadGrid
<1>2. CASE Deallocate
  BY <1>2 DEF Deallocate
<1>3. CASE UNCHANGED grid_list
  BY <1>3 DEF ListTypeOK
<1> QED
  BY <1>1, <1>2, <1>3
  DEF ListNext, Request, RequestSame, RequestNew, ListStep, Merge, NextEntry, EntryTooLong,
      Finish, AddMatch, MatchStub, SkipGrid, MergeDone, DiskChange, listVars

(* The locals of a call.                                                    *)
LEMMA LocalsTyped ==
  ASSUME ListTypeOK, InMerge, [ListNext]_listVars
  PROVE  /\ stage' \in {"idle", "entry", "merge"} /\ rest' \in Seq(NadEntry)
         /\ entry' \in NadEntry \cup {NIL} /\ cursor' \in Nat \ {0}
<1>1. stage' \in {"idle", "entry", "merge"}
  BY DEF ListTypeOK, ListNext, Request, RequestSame, RequestNew, ListStep, Merge, NextEntry, EntryTooLong,
         Finish, AddMatch, MatchStub, SkipGrid, MergeDone, LoadGrid, MergeReturns, ListReturn,
         Deallocate, DiskChange, listVars, mergeVars
<1>2. rest' \in Seq(NadEntry)
  <2>1. rest \in Seq(NadEntry) /\ NadGrids \subseteq Seq(NadEntry)
    BY NadGridsAssumption DEF ListTypeOK
  <2>2. CASE rest' = <<>>
    BY <2>2
  <2>3. CASE rest # <<>> /\ rest' = Tail(rest)
    BY <2>1, <2>3
  <2>4. CASE rest' \in NadGrids
    BY <2>1, <2>4
  <2>5. CASE rest' = rest
    BY <2>1, <2>5
  <2> QED
    BY <2>2, <2>3, <2>4, <2>5
    DEF ListNext, Request, RequestSame, RequestNew, ListStep, Merge, NextEntry, EntryTooLong,
        Finish, AddMatch, MatchStub, SkipGrid, MergeDone, LoadGrid, MergeReturns, ListReturn,
        Deallocate, DiskChange, listVars, mergeVars
<1>3. entry' \in NadEntry \cup {NIL}
  <2>1. entry \in NadEntry \cup {NIL} /\ rest \in Seq(NadEntry)
    BY DEF ListTypeOK
  <2>2. CASE NextEntry
    BY <2>1, <2>2 DEF NextEntry
  <2>3. CASE entry' = NIL \/ entry' = entry
    BY <2>1, <2>3
  <2> QED
    BY <2>2, <2>3
    DEF ListNext, Request, RequestSame, RequestNew, ListStep, Merge, EntryTooLong,
        Finish, AddMatch, MatchStub, SkipGrid, MergeDone, LoadGrid, MergeReturns, ListReturn,
        Deallocate, DiskChange, listVars, mergeVars
<1>4. cursor' \in Nat \ {0}
  <2>1. cursor' \in {1, cursor, cursor + 1}
    BY DEF ListNext, Request, RequestSame, RequestNew, ListStep, Merge, NextEntry, EntryTooLong,
           Finish, AddMatch, MatchStub, SkipGrid, MergeDone, LoadGrid, MergeReturns, ListReturn,
           Deallocate, DiskChange, listVars, mergeVars
  <2>2. cursor \in Nat \ {0}
    BY DEF ListTypeOK
  <2> QED BY <2>1, <2>2
<1> QED BY <1>1, <1>2, <1>3, <1>4

(* The last request's string, the error number and the disk.                *)
LEMMA OthersTyped ==
  ASSUME ListTypeOK, [ListNext]_listVars
  PROVE  /\ last' \in NadGrids \cup {NIL} /\ pj_errno' \in {0} \cup OpenErrors
         /\ disk' \in [Name -> 0..MaxSub]
<1> USE DEF ListTypeOK
<1>1. last' \in NadGrids \cup {NIL}
  BY DEF ListNext, Request, RequestSame, RequestNew, ListStep, Merge, NextEntry, EntryTooLong,
         Finish, AddMatch, MatchStub, SkipGrid, MergeDone, LoadGrid, Deallocate,
         DiskChange, listVars, cacheVars
<1>2. pj_errno' \in {0} \cup OpenErrors
  BY DEF ListNext, Request, RequestSame, RequestNew, ListStep, Merge, NextEntry, EntryTooLong,
         Finish, AddMatch, MatchStub, SkipGrid, MergeDone, LoadGrid, MergeReturns,
         Deallocate, DiskChange, listVars, OpenErrors
<1>3. disk' \in [Name -> 0..MaxSub]
  BY DEF ListNext, Request, RequestSame, RequestNew, ListStep, Merge, NextEntry, EntryTooLong,
         Finish, AddMatch, MatchStub, SkipGrid, MergeDone, LoadGrid, Deallocate,
         DiskChange, listVars
<1> QED BY <1>1, <1>2, <1>3

LEMMA TypeStep ==
  ASSUME ListTypeOK, SlotsInBounds, InMerge, [ListNext]_listVars PROVE ListTypeOK'
<1>1. result' \in [list : BOOLEAN, count : Nat] /\ got_match' \in BOOLEAN
  BY ResultTyped, MatchTyped
<1>2. grid_list' \in Seq(GridInfo)
  BY ListTyped
<1> QED BY <1>1, <1>2, ArrayTyped, LocalsTyped, OthersTyped DEF ListTypeOK

(* The loops' own facts.                                                    *)
LEMMA InMergeStep == ASSUME ListTypeOK, InMerge, [ListNext]_listVars PROVE InMerge'
<1> USE DEF ListTypeOK, InMerge
<1>1. ASSUME NEW s \in NadGrids, Request(s) PROVE InMerge'
  BY <1>1, NullAssumption DEF Request, RequestSame, RequestNew, ListReturn
<1>2. CASE NextEntry \/ EntryTooLong \/ Finish
  BY <1>2 DEF NextEntry, EntryTooLong, Finish, ListReturn, cacheVars
<1>3. CASE AddMatch \/ SkipGrid \/ LoadGrid
  BY <1>3 DEF AddMatch, SkipGrid, LoadGrid, AtGrid, AtEnd, cacheVars
<1>4. CASE MatchStub \/ MergeDone
  BY <1>4 DEF MatchStub, MergeDone, MergeReturns, ListReturn, mergeVars, cacheVars, AtGrid, AtEnd
<1>5. CASE Deallocate
  BY <1>5 DEF Deallocate, mergeVars
<1>6. CASE UNCHANGED listVars \/ \E n \in Name, k \in 0..MaxSub : DiskChange(n, k)
  BY <1>6 DEF listVars, DiskChange, mergeVars, cacheVars
<1> QED BY <1>1, <1>2, <1>3, <1>4, <1>5, <1>6 DEF ListNext, ListStep, Merge

LEMMA UnmatchedStep ==
  ASSUME ListTypeOK, InMerge, Unmatched, [ListNext]_listVars PROVE Unmatched'
<1> USE DEF Unmatched
<1>1. ASSUME NEW s \in NadGrids, Request(s) PROVE Unmatched'
  BY <1>1 DEF Request, RequestSame, RequestNew, ListReturn
<1>2. CASE NextEntry \/ EntryTooLong \/ Finish
  BY <1>2 DEF NextEntry, EntryTooLong, Finish, ListReturn
<1>3. CASE AddMatch
  BY <1>3 DEF AddMatch
<1>4. CASE SkipGrid
  <2>1. /\ grid_list' = grid_list /\ entry' = entry /\ got_match' = got_match
        /\ cursor' = cursor + 1 /\ stage' = stage /\ stage = "merge"
        /\ grid_list[cursor].name # entry.name
    BY <1>4 DEF SkipGrid, AtGrid, Matches
  <2>2. cursor \in Nat /\ Len(grid_list) \in Nat
    BY DEF ListTypeOK
  <2>3. \A k \in 1..Len(grid_list) : k < cursor + 1 => k < cursor \/ k = cursor
    BY <2>2
  <2> QED BY <2>1, <2>3
<1>5. CASE MatchStub \/ MergeDone
  BY <1>5 DEF MatchStub, MergeDone, MergeReturns, ListReturn
<1>6. CASE LoadGrid
  BY <1>6 DEF LoadGrid
<1>7. CASE Deallocate
  BY <1>7 DEF Deallocate, mergeVars
<1>8. CASE UNCHANGED listVars \/ \E n \in Name, k \in 0..MaxSub : DiskChange(n, k)
  BY <1>8 DEF listVars, DiskChange, mergeVars
<1> QED BY <1>1, <1>2, <1>3, <1>4, <1>5, <1>6, <1>7, <1>8 DEF ListNext, ListStep, Merge

(* The array's bounds.  Only AddMatch, RequestNew and Deallocate touch it.  *)
LEMMA BoundsStep ==
  ASSUME ListTypeOK, InMerge, SlotsInBounds, [ListNext]_listVars PROVE SlotsInBounds'
<1> USE DEF SlotsInBounds
<1>1. ASSUME NEW s \in NadGrids, RequestNew(s) PROVE SlotsInBounds'
  BY <1>1, NullAssumption DEF RequestNew
<1>2. CASE AddMatch
  <2>1. count \in Nat /\ max \in Nat /\ SlotsAdded \in Nat /\ SlotsAdded >= 2
    BY BoundsAssumption DEF ListTypeOK
  <2>2. count + 1 < max'
    BY <1>2, <2>1 DEF AddMatch, NeedsRoom
  <2>3. (IF NeedsRoom THEN Grown ELSE slots) \in [0..max' - 1 -> GridInfo \cup {NIL, Junk}]
    BY <1>2, <2>1 DEF AddMatch, Grown, ListTypeOK
  <2>4. slots'[count'] = NIL
    BY <1>2, <2>1, <2>2, <2>3 DEF AddMatch
  <2>5. last' # NIL
    BY <1>2 DEF AddMatch, AtGrid, InMerge
  <2> QED BY <1>2, <2>2, <2>4, <2>5 DEF AddMatch
<1>3. CASE Deallocate
  BY <1>3 DEF Deallocate, cacheVars
<1>4. CASE UNCHANGED cacheVars
  BY <1>4 DEF cacheVars
<1> QED
  BY <1>1, <1>2, <1>3, <1>4
  DEF ListNext, Request, RequestSame, ListStep, Merge, NextEntry, EntryTooLong, Finish,
      MatchStub, SkipGrid, MergeDone, LoadGrid, DiskChange, listVars

(* A match goes behind the others.                                          *)
LEMMA AddedSlot ==
  ASSUME ListTypeOK, SlotsInBounds, AddMatch
  PROVE  /\ count' = count + 1 /\ slots'[count] = grid_list[cursor]
         /\ \A i \in 0..count - 1 : slots'[i] = slots[i]
<1> DEFINE array == IF NeedsRoom THEN Grown ELSE slots
           x == grid_list[cursor]
<1>1. count \in Nat /\ max \in Nat /\ SlotsAdded \in Nat /\ SlotsAdded >= 2 /\ count' = count + 1
  BY BoundsAssumption DEF ListTypeOK, AddMatch
<1>2. count + 1 < max' /\ max' \in Nat
  BY <1>1 DEF AddMatch, NeedsRoom, SlotsInBounds
<1>3. DOMAIN array = 0..max' - 1
  BY <1>1 DEF AddMatch, Grown, ListTypeOK
<1>4. \A i \in 0..count - 1 : array[i] = slots[i]
  BY <1>1 DEF Grown, SlotsInBounds
<1>5. slots' = [array EXCEPT ![count] = x, ![count + 1] = NIL]
  BY DEF AddMatch
<1>6. /\ count \in DOMAIN array /\ count + 1 \in DOMAIN array /\ count + 1 # count
      /\ \A i \in 0..count - 1 : i # count /\ i # count + 1 /\ i \in DOMAIN array
  BY <1>1, <1>2, <1>3
<1> HIDE DEF array, x
<1>7. slots'[count] = x /\ \A i \in 0..count - 1 : slots'[i] = array[i]
  BY <1>5, <1>6
<1> QED BY <1>1, <1>4, <1>7 DEF x

(* Grids stay alive while the array refers to them.                         *)
LEMMA DanglingStep ==
  ASSUME ListTypeOK, InMerge, SlotsInBounds, NoDangling, [ListNext]_listVars PROVE NoDangling'
<1> USE DEF NoDangling
<1>1. ASSUME NEW s \in NadGrids, RequestNew(s) PROVE NoDangling'
  BY <1>1 DEF RequestNew
<1>2. CASE AddMatch
  <2>1. count \in Nat /\ cursor \in 1..Len(grid_list)
    BY <1>2 DEF ListTypeOK, AddMatch, AtGrid
  <2>2. count' = count + 1 /\ grid_list' = grid_list /\ HasTable(grid_list[cursor])
    BY <1>2 DEF AddMatch
  <2>3. slots'[count] = grid_list[cursor] /\ \A i \in 0..count - 1 : slots'[i] = slots[i]
    BY <1>2, AddedSlot
  <2>4. SUFFICES ASSUME NEW i \in 0..count' - 1
                 PROVE  /\ \E k \in 1..Len(grid_list') : grid_list'[k] = slots'[i]
                        /\ HasTable(slots'[i])
    BY DEF HasTable
  <2>5. CASE i = count
    BY <2>1, <2>2, <2>3, <2>5
  <2>6. CASE i \in 0..count - 1
    BY <2>2, <2>3, <2>6
  <2>7. i = count \/ i \in 0..count - 1
    BY <2>1, <2>2
  <2> QED BY <2>5, <2>6, <2>7
<1>3. CASE LoadGrid
  <2>1. entry.name \in Name
    BY <1>3 DEF LoadGrid, AtEnd, InMerge, NadEntry
  <2>2. Loaded(entry.name) \in Seq(GridInfo) /\ grid_list \in Seq(GridInfo)
    BY <2>1, LoadedGrids DEF ListTypeOK
  <2>3. /\ Len(grid_list) \in Nat /\ Len(grid_list) <= Len(grid_list')
        /\ \A k \in 1..Len(grid_list) : grid_list'[k] = grid_list[k]
    BY <1>3, <2>2 DEF LoadGrid
  <2>4. count' = count /\ slots' = slots
    BY <1>3 DEF LoadGrid, cacheVars
  <2>5. \A k \in 1..Len(grid_list) : k \in 1..Len(grid_list')
    BY <1>3, <2>2, <2>3 DEF LoadGrid
  <2> QED BY <2>3, <2>4, <2>5
<1>4. CASE Deallocate
  BY <1>4 DEF Deallocate, SlotsInBounds, cacheVars
<1>5. CASE UNCHANGED cacheVars /\ UNCHANGED grid_list
  BY <1>5 DEF cacheVars
<1> QED
  BY <1>1, <1>2, <1>3, <1>4, <1>5
  DEF ListNext, Request, RequestSame, ListStep, Merge, NextEntry, EntryTooLong, Finish,
      MatchStub, SkipGrid, MergeDone, DiskChange, listVars

(* Only LoadGrid lengthens the list, and by a file no grid on it names.     *)
LEMMA LoadedOnceStep ==
  ASSUME ListTypeOK, InMerge, Unmatched, LoadedOnce, [ListNext]_listVars PROVE LoadedOnce'
<1> USE DEF LoadedOnce
<1>1. CASE LoadGrid
  <2> DEFINE new == Loaded(entry.name)
             n   == Len(grid_list)
  <2>1. entry.name \in Name
    BY <1>1 DEF LoadGrid, AtEnd, InMerge, NadEntry
  <2>2. /\ new \in Seq(GridInfo)
        /\ \A i \in 1..Len(new) : new[i].name = entry.name
        /\ \A i, j \in 1..Len(new) : new[i] = new[j] => i = j
    BY <2>1, LoadedGrids
  <2>3. grid_list \in Seq(GridInfo) /\ n \in Nat /\ Len(new) \in Nat
    BY <2>2 DEF ListTypeOK
  <2>4. \A k \in 1..n : grid_list[k].name # entry.name
    <3>1. cursor > n /\ cursor \in Nat /\ stage = "merge" /\ ~got_match
      BY <1>1 DEF LoadGrid, AtEnd, ListTypeOK
    <3> QED BY <2>3, <3>1 DEF Unmatched
  <2> HIDE DEF new
  <2>5. /\ Len(grid_list') = n + Len(new)
        /\ \A k \in 1..n : grid_list'[k] = grid_list[k]
        /\ \A k \in n + 1..n + Len(new) : k - n \in 1..Len(new) /\ grid_list'[k] = new[k - n]
    BY <1>1, <2>2, <2>3 DEF LoadGrid, new
  <2>6. SUFFICES ASSUME NEW i \in 1..n + Len(new), NEW j \in 1..n + Len(new),
                        grid_list'[i] = grid_list'[j]
                 PROVE  i = j
    BY <2>5
  <2>7. CASE i <= n /\ j <= n
    <3>1. i \in 1..n /\ j \in 1..n
      BY <2>3, <2>7
    <3>2. grid_list[i] = grid_list[j]
      BY <2>5, <2>6, <3>1
    <3> QED BY <3>1, <3>2
  <2>8. \A p \in 1..n, q \in n + 1..n + Len(new) : grid_list'[p] # grid_list'[q]
    <3> SUFFICES ASSUME NEW p \in 1..n, NEW q \in n + 1..n + Len(new)
                 PROVE  grid_list'[p] # grid_list'[q]
      OBVIOUS
    <3>1. grid_list'[p] = grid_list[p] /\ grid_list[p].name # entry.name
      BY <2>4, <2>5
    <3>2. grid_list'[q] = new[q - n] /\ new[q - n].name = entry.name
      BY <2>2, <2>5
    <3> QED BY <3>1, <3>2
  <2>9. CASE i <= n /\ j > n
    <3>1. i \in 1..n /\ j \in n + 1..n + Len(new)
      BY <2>3, <2>9
    <3> QED BY <2>6, <2>8, <3>1
  <2>10. CASE i > n /\ j <= n
    <3>1. j \in 1..n /\ i \in n + 1..n + Len(new)
      BY <2>3, <2>10
    <3> QED BY <2>6, <2>8, <3>1
  <2>11. CASE i > n /\ j > n
    <3>1. i \in n + 1..n + Len(new) /\ j \in n + 1..n + Len(new)
      BY <2>3, <2>11
    <3>2. new[i - n] = new[j - n] /\ i - n \in 1..Len(new) /\ j - n \in 1..Len(new)
      BY <2>5, <2>6, <3>1
    <3> QED BY <2>2, <2>3, <3>1, <3>2
  <2> QED BY <2>3, <2>7, <2>9, <2>10, <2>11
<1>2. CASE Deallocate
  BY <1>2 DEF Deallocate
<1>3. CASE UNCHANGED grid_list
  BY <1>3
<1> QED
  BY <1>1, <1>2, <1>3
  DEF ListNext, Request, RequestSame, RequestNew, ListStep, Merge, NextEntry, EntryTooLong,
      Finish, AddMatch, MatchStub, SkipGrid, MergeDone, DiskChange, listVars

-----------------------------------------------------------------------------
(* The inductive invariant holds of pj_gridlist.c's statics throughout.     *)
THEOREM Invariance == ListSpec => []IInv
<1>1. IInv /\ [ListNext]_listVars => IInv'
  BY TypeStep, InMergeStep, UnmatchedStep, BoundsStep, DanglingStep, LoadedOnceStep DEF IInv
<1> QED BY InitIInv, <1>1, PTL DEF ListSpec

(* Type correctness: every variable of pj_gridlist.c keeps its type.        *)
THEOREM Typing == ListSpec => []ListTypeOK
  BY Invariance, PTL DEF IInv

(* The array handed to pj_apply_gridshift never refers to a freed grid nor  *)
(* to a stub without a header table.                                        *)
THEOREM NoDanglingGrids == ListSpec => []NoDangling
  BY Invariance, PTL DEF IInv

(* The grids and their terminating NULL stay inside the allocated array,    *)
(* for any growth step of at least two (the code uses twenty).              *)
THEOREM ArrayInBounds == ListSpec => []SlotsInBounds
  BY Invariance, PTL DEF IInv

(* Both together, as the run checks them.                                   *)
THEOREM Sound == ListSpec => []CatalogueSound
  BY Typing, ArrayInBounds, PTL DEF CatalogueSound

(* No grid file is loaded twice while its grids are on the list.            *)
THEOREM LoadsOnce == ListSpec => []LoadedOnce
  BY Invariance, PTL DEF IInv

-----------------------------------------------------------------------------
(* What a list of grids offers, place by place                              *)

LEMMA GridConcat ==
  ASSUME NEW x \in Seq(GridInfo), NEW y \in Seq(GridInfo), NEW z \in Seq(GridInfo)
  PROVE  (x \o y) \o z = x \o (y \o z)
  BY ConcatAssociative

Takes(g, name) == g.name = name /\ HasTable(g)

(* The recursive definition of TablesOf, unfolded.                          *)
LEMMA TablesUnfold ==
  ASSUME NEW grids \in Seq(GridInfo), NEW name
  PROVE  /\ TablesOf(grids, name) \in [0..Len(grids) -> Seq(GridInfo)]
         /\ TablesOf(grids, name)[0] = <<>>
         /\ \A n \in 1..Len(grids) :
              TablesOf(grids, name)[n] =
                IF Takes(grids[n], name) THEN Append(TablesOf(grids, name)[n - 1], grids[n])
                ELSE TablesOf(grids, name)[n - 1]
<1> DEFINE N == Len(grids)
           Is(f) == f = [n \in 0..N |->
                           IF n = 0 THEN <<>>
                           ELSE IF grids[n].name = name /\ HasTable(grids[n])
                                THEN Append(f[n - 1], grids[n]) ELSE f[n - 1]]
           t == TablesOf(grids, name)
<1>1. N \in Nat /\ \A n \in 1..N : grids[n] \in GridInfo
  OBVIOUS
<1> HIDE DEF N
<1>2. Is(t)
  <2> DEFINE step == [p \in Seq(GridInfo) \X (1..N) |->
                        IF grids[p[2]].name = name /\ HasTable(grids[p[2]])
                        THEN Append(p[1], grids[p[2]]) ELSE p[1]]
  <2>1. \A s \in Seq(GridInfo), n \in 1..N :
          step[<<s, n>>] = IF grids[n].name = name /\ HasTable(grids[n])
                           THEN Append(s, grids[n]) ELSE s
    OBVIOUS
  <2> HIDE DEF step
  <2>2. <<>> \in Seq(GridInfo) /\ Steps(step, Seq(GridInfo), N)
    <3>1. ASSUME NEW s \in Seq(GridInfo), NEW n \in 1..N PROVE step[<<s, n>>] \in Seq(GridInfo)
      <4>1. grids[n] \in GridInfo
        BY <1>1
      <4>2. Append(s, grids[n]) \in Seq(GridInfo)
        BY <4>1
      <4> QED BY <2>1, <4>2
    <3> QED BY <3>1 DEF Steps
  <2>3. PICK f : Iterates(f, <<>>, step, Seq(GridInfo), N)
    BY <1>1, <2>2, IterationExists
  <2>4. /\ f \in [0..N -> Seq(GridInfo)] /\ f[0] = <<>>
        /\ \A n \in 1..N : f[n] = step[<<f[n - 1], n>>]
    BY <2>3 DEF Iterates
  <2>5. \A n \in 0..N : n # 0 => n \in 1..N /\ f[n - 1] \in Seq(GridInfo)
    BY <1>1, <2>4
  <2>6. Is(f)
    BY <2>1, <2>4, <2>5
  <2> QED BY <2>6 DEF TablesOf, N
<1> HIDE DEF t
<1>3. t[0] = <<>>
  BY <1>1, <1>2
<1>4. \A n \in 1..N : t[n] = IF Takes(grids[n], name) THEN Append(t[n - 1], grids[n]) ELSE t[n - 1]
  <2> SUFFICES ASSUME NEW n \in 1..N
               PROVE  t[n] = IF Takes(grids[n], name) THEN Append(t[n - 1], grids[n]) ELSE t[n - 1]
    OBVIOUS
  <2>1. n \in 0..N /\ n # 0
    BY <1>1
  <2> QED BY <1>2, <2>1 DEF Takes
<1>5. \A n \in 0..N : t[n] \in Seq(GridInfo)
  <2>1. ASSUME NEW n \in 1..N, t[n - 1] \in Seq(GridInfo) PROVE t[n] \in Seq(GridInfo)
    <3>1. grids[n] \in GridInfo
      BY <1>1
    <3>2. CASE Takes(grids[n], name)
      <4>1. t[n] = Append(t[n - 1], grids[n])
        BY <1>4, <3>2
      <4> QED BY <2>1, <3>1, <4>1
    <3>3. CASE ~Takes(grids[n], name)
      BY <1>4, <2>1, <3>3
    <3> QED BY <3>2, <3>3
  <2>2. t[0] \in Seq(GridInfo)
    BY <1>3
  <2> QED BY <1>1, <2>1, <2>2, StaysIn
<1>6. t \in [0..N -> Seq(GridInfo)]
  BY <1>2, <1>5
<1> QED BY <1>3, <1>4, <1>6 DEF t, N

(* That of OfferedBy.                                                       *)
LEMMA OfferedUnfold ==
  ASSUME NEW grids \in Seq(GridInfo), NEW s \in Seq(NadEntry)
  PROVE  /\ OfferedBy(grids, s) \in [0..Len(s) -> Seq(GridInfo)]
         /\ OfferedBy(grids, s)[0] = <<>>
         /\ \A n \in 1..Len(s) :
              OfferedBy(grids, s)[n] =
                OfferedBy(grids, s)[n - 1] \o TablesOf(grids, s[n].name)[Len(grids)]
<1> DEFINE N == Len(s)
           more(n) == TablesOf(grids, s[n].name)[Len(grids)]
           Is(f) == f = [n \in 0..N |-> IF n = 0 THEN <<>> ELSE f[n - 1] \o more(n)]
           t == OfferedBy(grids, s)
<1>1. N \in Nat /\ \A n \in 1..N : more(n) \in Seq(GridInfo)
  <2>1. Len(grids) \in 0..Len(grids)
    OBVIOUS
  <2> QED BY <2>1, TablesUnfold
<1> HIDE DEF N, more
<1>2. Is(t)
  <2> DEFINE step == [p \in Seq(GridInfo) \X (1..N) |-> p[1] \o more(p[2])]
  <2>1. \A x \in Seq(GridInfo), n \in 1..N : step[<<x, n>>] = x \o more(n)
    OBVIOUS
  <2> HIDE DEF step
  <2>2. <<>> \in Seq(GridInfo) /\ Steps(step, Seq(GridInfo), N)
    <3>1. ASSUME NEW x \in Seq(GridInfo), NEW n \in 1..N PROVE step[<<x, n>>] \in Seq(GridInfo)
      BY <1>1, <2>1, ConcatProperties
    <3> QED BY <3>1 DEF Steps
  <2>3. PICK f : Iterates(f, <<>>, step, Seq(GridInfo), N)
    BY <1>1, <2>2, IterationExists
  <2>4. /\ f \in [0..N -> Seq(GridInfo)] /\ f[0] = <<>>
        /\ \A n \in 1..N : f[n] = step[<<f[n - 1], n>>]
    BY <2>3 DEF Iterates
  <2>5. \A n \in 0..N : n # 0 => n \in 1..N /\ f[n - 1] \in Seq(GridInfo)
    BY <1>1, <2>4
  <2>6. Is(f)
    BY <2>1, <2>4, <2>5
  <2> QED BY <2>6 DEF OfferedBy, N, more
<1> HIDE DEF t
<1>3. t[0] = <<>>
  BY <1>1, <1>2
<1>4. \A n \in 1..N : t[n] = t[n - 1] \o more(n)
  <2> SUFFICES ASSUME NEW n \in 1..N PROVE t[n] = t[n - 1] \o more(n)
    OBVIOUS
  <2>1. n \in 0..N /\ n # 0
    BY <1>1
  <2> QED BY <1>2, <2>1
<1>5. \A n \in 0..N : t[n] \in Seq(GridInfo)
  <2>1. ASSUME NEW n \in 1..N, t[n - 1] \in Seq(GridInfo) PROVE t[n] \in Seq(GridInfo)
    BY <1>1, <1>4, <2>1, ConcatProperties
  <2>2. t[0] \in Seq(GridInfo)
    BY <1>3
  <2> QED BY <1>1, <2>1, <2>2, StaysIn
<1>6. t \in [0..N -> Seq(GridInfo)]
  BY <1>2, <1>5
<1> QED BY <1>3, <1>4, <1>6 DEF t, N, more

(* Grids that are not taken add nothing.                                    *)
LEMMA TablesSkip ==
  ASSUME NEW grids \in Seq(GridInfo), NEW name, NEW a \in 0..Len(grids), NEW b \in a..Len(grids),
         \A k \in a + 1..b : ~Takes(grids[k], name)
  PROVE  TablesOf(grids, name)[b] = TablesOf(grids, name)[a]
<1> DEFINE t == TablesOf(grids, name)
           S == {n \in a..b : t[n] = t[a]}
<1>1. a \in S
  OBVIOUS
<1>2. ASSUME NEW n \in a..b - 1, n \in S PROVE n + 1 \in S
  <2>1. n + 1 \in a + 1..b /\ n + 1 \in a..b /\ n + 1 \in 1..Len(grids) /\ (n + 1) - 1 = n
    OBVIOUS
  <2>2. t[n + 1] = t[n]
    BY <2>1, TablesUnfold
  <2> QED BY <1>2, <2>1, <2>2
<1> HIDE DEF S
<1>3. a..b \subseteq S
  <2>1. a \in Int /\ b \in Int /\ a <= b
    OBVIOUS
  <2> QED BY <2>1, <1>1, <1>2, IntervalInduction
<1> QED BY <1>3 DEF S

Begins(x, y) == \E u \in Seq(GridInfo) : y = x \o u

(* What fewer grids offer comes first in what more offer.                   *)
LEMMA TablesPrefix ==
  ASSUME NEW grids \in Seq(GridInfo), NEW name, NEW a \in 0..Len(grids), NEW b \in a..Len(grids)
  PROVE  Begins(TablesOf(grids, name)[a], TablesOf(grids, name)[b])
<1> DEFINE t == TablesOf(grids, name)
           S == {n \in a..b : \E u \in Seq(GridInfo) : t[n] = t[a] \o u}
<1>0. \A n \in 0..Len(grids) : t[n] \in Seq(GridInfo)
  BY TablesUnfold
<1>1. a \in S
  <2>1. <<>> \in Seq(GridInfo) /\ t[a] = t[a] \o <<>> /\ a \in a..b
    BY <1>0, ConcatEmptySeq
  <2> HIDE DEF t
  <2> QED BY <2>1
<1>2. ASSUME NEW n \in a..b - 1, n \in S PROVE n + 1 \in S
  <2>1. n + 1 \in a..b /\ n + 1 \in 1..Len(grids) /\ (n + 1) - 1 = n
    OBVIOUS
  <2>2. PICK u \in Seq(GridInfo) : t[n] = t[a] \o u
    BY <1>2
  <2>3. \/ t[n + 1] = t[n]
        \/ t[n + 1] = Append(t[n], grids[n + 1])
    BY <2>1, TablesUnfold
  <2>4. CASE t[n + 1] = t[n]
    BY <2>1, <2>2, <2>4
  <2>5. CASE t[n + 1] = Append(t[n], grids[n + 1])
    <3>0. u \in Seq(GridInfo)
      OBVIOUS
    <3> DEFINE e == <<grids[n + 1]>>
               x == t[a]
    <3>1. e \in Seq(GridInfo) /\ x \in Seq(GridInfo) /\ t[n] \in Seq(GridInfo) /\ grids[n + 1] \in GridInfo
      BY <1>0, <2>1
    <3>2. t[n + 1] = t[n] \o e
      BY <2>5, <3>1, AppendIsConcat
    <3>3. t[n] = x \o u
      BY <2>2
    <3> HIDE DEF e, x
    <3>4. u \o e \in Seq(GridInfo)
      BY <3>1, ConcatProperties
    <3>5. (x \o u) \o e = x \o (u \o e)
      BY <3>0, <3>1, GridConcat
    <3> QED BY <2>1, <3>2, <3>3, <3>4, <3>5 DEF x
  <2> QED BY <2>3, <2>4, <2>5
<1> HIDE DEF S
<1>3. a..b \subseteq S
  <2>1. a \in Int /\ b \in Int /\ a <= b
    OBVIOUS
  <2> QED BY <2>1, <1>1, <1>2, IntervalInduction
<1>4. b \in a..b
  OBVIOUS
<1> QED BY <1>3, <1>4 DEF S, Begins

LEMMA OfferedPrefix ==
  ASSUME NEW grids \in Seq(GridInfo), NEW s \in Seq(NadEntry), NEW a \in 0..Len(s), NEW b \in a..Len(s)
  PROVE  Begins(OfferedBy(grids, s)[a], OfferedBy(grids, s)[b])
<1> DEFINE t == OfferedBy(grids, s)
           more(n) == TablesOf(grids, s[n].name)[Len(grids)]
           S == {n \in a..b : \E u \in Seq(GridInfo) : t[n] = t[a] \o u}
<1>0. /\ \A n \in 0..Len(s) : t[n] \in Seq(GridInfo)
      /\ \A n \in 1..Len(s) : t[n] = t[n - 1] \o more(n)
  BY OfferedUnfold
<1>1. \A n \in 1..Len(s) : more(n) \in Seq(GridInfo)
  <2>1. Len(grids) \in 0..Len(grids)
    OBVIOUS
  <2> QED BY <2>1, TablesUnfold
<1> HIDE DEF t, more
<1>2. a \in S
  <2>1. <<>> \in Seq(GridInfo) /\ t[a] = t[a] \o <<>> /\ a \in a..b
    BY <1>0, ConcatEmptySeq
  <2> HIDE DEF t
  <2> QED BY <2>1
<1>3. ASSUME NEW n \in a..b - 1, n \in S PROVE n + 1 \in S
  <2>1. n + 1 \in a..b /\ n + 1 \in 1..Len(s) /\ (n + 1) - 1 = n
    OBVIOUS
  <2>2. PICK u \in Seq(GridInfo) : t[n] = t[a] \o u
    BY <1>3
  <2>3. t[n + 1] = t[n] \o more(n + 1) /\ more(n + 1) \in Seq(GridInfo) /\ t[a] \in Seq(GridInfo)
    BY <1>0, <1>1, <2>1
  <2>4. u \o more(n + 1) \in Seq(GridInfo) /\ t[n + 1] = t[a] \o (u \o more(n + 1))
    <3>0. u \in Seq(GridInfo)
      OBVIOUS
    <3> DEFINE m == more(n + 1)
               x == t[a]
    <3>1. m \in Seq(GridInfo) /\ x \in Seq(GridInfo) /\ t[n + 1] = (x \o u) \o m
      BY <2>2, <2>3
    <3> HIDE DEF m, x
    <3>2. u \o m \in Seq(GridInfo)
      BY <3>1, ConcatProperties
    <3>3. (x \o u) \o m = x \o (u \o m)
      BY <3>0, <3>1, GridConcat
    <3> QED BY <3>1, <3>2, <3>3 DEF m, x
  <2> QED BY <2>1, <2>4
<1> HIDE DEF S
<1>4. a..b \subseteq S
  <2>1. a \in Int /\ b \in Int /\ a <= b
    OBVIOUS
  <2> QED BY <2>1, <1>2, <1>3, IntervalInduction
<1>5. b \in a..b
  OBVIOUS
<1> QED BY <1>4, <1>5 DEF S, t, Begins

(* Grids behind the end of the list leave what the others offer as it is.   *)
LEMMA TablesExtend ==
  ASSUME NEW grids \in Seq(GridInfo), NEW new \in Seq(GridInfo), NEW name, NEW n \in 0..Len(grids)
  PROVE  TablesOf(grids \o new, name)[n] = TablesOf(grids, name)[n]
<1> DEFINE t == TablesOf(grids, name)
           all == grids \o new
           u == TablesOf(all, name)
           S == {k \in 0..Len(grids) : u[k] = t[k]}
<1>1. /\ all \in Seq(GridInfo) /\ Len(all) >= Len(grids) /\ Len(grids) \in Nat /\ Len(all) \in Nat
      /\ \A k \in 1..Len(grids) : all[k] = grids[k]
  OBVIOUS
<1> HIDE DEF all
<1>2. 0 \in S
  BY <1>1, TablesUnfold
<1>3. ASSUME NEW k \in 0..Len(grids) - 1, k \in S PROVE k + 1 \in S
  <2>1. k + 1 \in 1..Len(grids) /\ k + 1 \in 0..Len(grids) /\ k + 1 \in 1..Len(all) /\ (k + 1) - 1 = k
    BY <1>1
  <2>2. t[k + 1] = IF Takes(grids[k + 1], name) THEN Append(t[k], grids[k + 1]) ELSE t[k]
    BY <2>1, TablesUnfold
  <2>3. u[k + 1] = IF Takes(all[k + 1], name) THEN Append(u[k], all[k + 1]) ELSE u[k]
    BY <1>1, <2>1, TablesUnfold
  <2> HIDE DEF t, u
  <2> QED BY <1>1, <1>3, <2>1, <2>2, <2>3
<1> HIDE DEF S
<1>4. 0..Len(grids) \subseteq S
  <2>1. 0 \in Int /\ Len(grids) \in Int /\ 0 <= Len(grids)
    OBVIOUS
  <2> QED BY <2>1, <1>1, <1>2, <1>3, IntervalInduction
<1> QED BY <1>4 DEF S, all

(* A file that is in none of the entries leaves what they are offered.       *)
LEMMA OfferedExtend ==
  ASSUME NEW grids \in Seq(GridInfo), NEW new \in Seq(GridInfo), NEW s \in Seq(NadEntry), NEW n \in 0..Len(s),
         \A i \in 1..n : \A k \in 1..Len(new) : new[k].name # s[i].name
  PROVE  OfferedBy(grids \o new, s)[n] = OfferedBy(grids, s)[n]
<1> DEFINE all == grids \o new
           S == {k \in 0..n : OfferedBy(all, s)[k] = OfferedBy(grids, s)[k]}
<1>1. /\ all \in Seq(GridInfo) /\ Len(all) = Len(grids) + Len(new)
      /\ Len(grids) \in Nat /\ Len(new) \in Nat
      /\ \A k \in Len(grids) + 1..Len(all) : k - Len(grids) \in 1..Len(new) /\ all[k] = new[k - Len(grids)]
  OBVIOUS
<1>2. 0 \in S
  <2>1. OfferedBy(all, s)[0] = <<>> /\ OfferedBy(grids, s)[0] = <<>> /\ 0 \in 0..n
    <3>1. 0 \in 0..n /\ all \in Seq(GridInfo)
      BY <1>1
    <3> HIDE DEF all
    <3> QED BY <3>1, OfferedUnfold
  <2> QED BY <2>1
<1>3. ASSUME NEW k \in 0..n - 1, k \in S PROVE k + 1 \in S
  <2>1. k + 1 \in 1..n /\ k + 1 \in 0..n /\ k + 1 \in 1..Len(s) /\ (k + 1) - 1 = k
    OBVIOUS
  <2> DEFINE name == s[k + 1].name
  <2>2. \A m \in Len(grids) + 1..Len(all) : ~Takes(all[m], name)
    BY <1>1, <2>1 DEF Takes
  <2>3. TablesOf(all, name)[Len(all)] = TablesOf(all, name)[Len(grids)]
    <3>1. Len(grids) \in 0..Len(all) /\ Len(all) \in Len(grids)..Len(all)
      BY <1>1
    <3>2. all \in Seq(GridInfo)
      BY <1>1
    <3> HIDE DEF all, name
    <3> QED BY <2>2, <3>1, <3>2, TablesSkip
  <2>4. TablesOf(all, name)[Len(grids)] = TablesOf(grids, name)[Len(grids)]
    <3>1. Len(grids) \in 0..Len(grids)
      BY <1>1
    <3> QED BY <3>1, TablesExtend
  <2>5. OfferedBy(all, s)[k + 1] = OfferedBy(all, s)[k] \o TablesOf(all, name)[Len(all)]
    <3>1. all \in Seq(GridInfo)
      BY <1>1
    <3> HIDE DEF all
    <3> QED BY <2>1, <3>1, OfferedUnfold
  <2>6. OfferedBy(grids, s)[k + 1] = OfferedBy(grids, s)[k] \o TablesOf(grids, name)[Len(grids)]
    BY <2>1, OfferedUnfold
  <2> HIDE DEF all, name
  <2> QED BY <1>3, <2>1, <2>3, <2>4, <2>5, <2>6
<1> HIDE DEF S
<1>4. 0..n \subseteq S
  <2>1. 0 \in Int /\ n \in Int /\ 0 <= n
    OBVIOUS
  <2> QED BY <2>1, <1>2, <1>3, IntervalInduction
<1> QED BY <1>4 DEF S

-----------------------------------------------------------------------------
(* What a request has built so far                                          *)

(* How many entries of the string have been taken, and are done with.       *)
Taken == Len(last) - Len(rest)
Done == IF stage = "merge" THEN Taken - 1 ELSE Taken

(* rest is the end of the string, behind the entry at work.                 *)
Parsing ==
  /\ stage # "idle" =>
       /\ Len(rest) <= Len(last)
       /\ \A i \in 1..Len(rest) : rest[i] = last[Taken + i]
  /\ stage = "merge" =>
       /\ Len(rest) < Len(last) /\ entry = last[Taken]
       /\ cursor <= Len(grid_list) + 1

(* The answer is what the entries that are done with ask for, and the grids  *)
(* before the cursor that the entry at work asks for.                       *)
InOrder ==
  /\ stage = "entry" => Answer = OfferedBy(grid_list, last)[Taken]
  /\ stage = "merge" =>
       Answer = OfferedBy(grid_list, last)[Taken - 1] \o TablesOf(grid_list, entry.name)[cursor - 1]

OnList(name) == \E k \in 1..Len(grid_list) : grid_list[k].name = name
InAnswer(name) == \E k \in 1..count : Answer[k].name = name

(* The files of the entries done with are on the list, or a stub is; those  *)
(* required are in the answer; the entry at work is if it got a match.      *)
Tried ==
  stage # "idle" => \A i \in 1..Done : /\ OnList(last[i].name)
                                       /\ last[i].required => InAnswer(last[i].name)
Matched == stage = "merge" /\ got_match => InAnswer(entry.name)

(* A stub is the only grid of its file.                                     *)
StubsAlone ==
  \A i, j \in 1..Len(grid_list) :
    grid_list[i].name = grid_list[j].name /\ ~HasTable(grid_list[i]) => i = j

BuildInv == Parsing /\ InOrder /\ Tried /\ Matched /\ StubsAlone

LEMMA LastTyped ==
  ASSUME ListTypeOK, InMerge, stage # "idle"
  PROVE  last \in Seq(NadEntry) /\ rest \in Seq(NadEntry) /\ Len(last) \in Nat /\ Len(rest) \in Nat
<1>1. last \in Seq(NadEntry) /\ rest \in Seq(NadEntry)
  BY NadGridsAssumption DEF ListTypeOK, InMerge
<1> QED BY <1>1

(* What stays as it is when neither the request nor the list move on.       *)
buildVars == <<grid_list, last, slots, count, stage, rest, entry, cursor, got_match>>

LEMMA ParsingStep == ASSUME ListTypeOK, InMerge, Parsing, [ListNext]_listVars PROVE Parsing'
<1> USE DEF Parsing
<1>1. ASSUME NEW s \in NadGrids, RequestSame(s) PROVE Parsing'
  BY <1>1 DEF RequestSame, ListReturn
<1>2. ASSUME NEW s \in NadGrids, RequestNew(s) PROVE Parsing'
  <2>1. s \in Seq(NadEntry) /\ last' = s /\ rest' = s /\ stage' = "entry"
    BY <1>2, NadGridsAssumption DEF RequestNew
  <2>2. Taken' = 0 /\ Len(s) \in Nat
    BY <2>1 DEF Taken
  <2> QED BY <2>1, <2>2
<1>3. CASE NextEntry
  <2>1. last \in Seq(NadEntry) /\ rest \in Seq(NadEntry) /\ Len(last) \in Nat /\ Len(rest) \in Nat
    BY <1>3, LastTyped DEF NextEntry
  <2>2. /\ rest # <<>> /\ rest' = Tail(rest) /\ entry' = Head(rest) /\ last' = last /\ cursor' = 1
        /\ stage' = "merge" /\ stage = "entry" /\ grid_list' = grid_list
    BY <1>3 DEF NextEntry, cacheVars
  <2>3. /\ Len(rest') = Len(rest) - 1 /\ Len(rest) > 0 /\ Taken' = Taken + 1
        /\ \A i \in 1..Len(rest') : rest'[i] = rest[i + 1]
        /\ entry' = rest[1]
    BY <2>1, <2>2 DEF Taken
  <2>4. Taken \in Int /\ \A i \in 1..Len(rest) : rest[i] = last[Taken + i]
    BY <2>1, <2>2 DEF Taken
  <2>5. \A i \in 1..Len(rest') : rest'[i] = last'[Taken' + i]
    <3> SUFFICES ASSUME NEW i \in 1..Len(rest') PROVE rest'[i] = last'[Taken' + i]
      OBVIOUS
    <3>1. i + 1 \in 1..Len(rest) /\ Taken + (i + 1) = Taken' + i
      BY <2>1, <2>3, <2>4
    <3> QED BY <2>2, <2>3, <2>4, <3>1
  <2>6. entry' = last'[Taken']
    <3>1. 1 \in 1..Len(rest)
      BY <2>1, <2>3
    <3> QED BY <2>2, <2>3, <2>4, <3>1
  <2>7. Len(rest') < Len(last') /\ cursor' <= Len(grid_list') + 1
    <3>1. Len(grid_list) \in Nat
      BY DEF ListTypeOK
    <3> QED BY <2>1, <2>2, <2>3, <3>1
  <2> QED BY <2>2, <2>5, <2>6, <2>7
<1>4. CASE EntryTooLong \/ Finish
  BY <1>4 DEF EntryTooLong, Finish, ListReturn
<1>5. CASE AddMatch \/ SkipGrid
  <2>1. UNCHANGED <<last, rest, stage, entry, grid_list>> /\ cursor' = cursor + 1
    BY <1>5 DEF AddMatch, SkipGrid, cacheVars
  <2>2. cursor <= Len(grid_list) /\ cursor \in Nat /\ Len(grid_list) \in Nat
    BY <1>5 DEF AddMatch, SkipGrid, AtGrid, ListTypeOK
  <2> QED BY <2>1, <2>2 DEF Taken
<1>6. CASE MatchStub \/ MergeDone
  <2>1. stage = "merge" /\ UNCHANGED last /\ ((stage' = "entry" /\ UNCHANGED rest) \/ stage' = "idle")
    BY <1>6 DEF MatchStub, MergeDone, MergeReturns, ListReturn, AtGrid, AtEnd, cacheVars
  <2> QED BY <2>1 DEF Taken
<1>7. CASE LoadGrid
  <2>1. entry.name \in Name
    BY <1>7 DEF LoadGrid, AtEnd, InMerge, NadEntry
  <2>2. grid_list' \in Seq(GridInfo)
    BY <1>7, <2>1, LoadedGrids, ConcatProperties DEF LoadGrid, ListTypeOK
  <2>3. Len(grid_list') \in Nat /\ cursor' = 1 /\ UNCHANGED <<last, rest, stage, entry>>
    BY <1>7, <2>2 DEF LoadGrid, cacheVars
  <2> QED BY <2>3 DEF Taken
<1>8. CASE Deallocate
  BY <1>8 DEF Deallocate
<1>9. CASE UNCHANGED buildVars
  BY <1>9 DEF buildVars, Taken
<1> QED
  BY <1>1, <1>2, <1>3, <1>4, <1>5, <1>6, <1>7, <1>8, <1>9
  DEF ListNext, Request, ListStep, Merge, DiskChange, listVars, cacheVars, mergeVars, buildVars

(* Only LoadGrid adds to the list: a stub by itself, or grids and no stub.  *)
LEMMA StubsAloneStep ==
  ASSUME ListTypeOK, InMerge, Unmatched, StubsAlone, [ListNext]_listVars PROVE StubsAlone'
<1> USE DEF StubsAlone
<1>1. CASE LoadGrid
  <2> DEFINE new == Loaded(entry.name)
             n   == Len(grid_list)
  <2>1. entry.name \in Name
    BY <1>1 DEF LoadGrid, AtEnd, InMerge, NadEntry
  <2>2. new \in Seq(GridInfo) /\ \A i \in 1..Len(new) : new[i].name = entry.name
    BY <2>1, LoadedGrids
  <2>3. \A i, j \in 1..Len(new) : ~HasTable(new[i]) => i = j
    <3>1. disk[entry.name] \in 0..MaxSub /\ MaxSub \in Nat
      BY <2>1, BoundsAssumption DEF ListTypeOK
    <3>2. CASE disk[entry.name] = 0
      BY <3>2 DEF Loaded
    <3>3. CASE disk[entry.name] # 0
      <4> DEFINE d == disk[entry.name]
                 f == [i \in 1..d |-> [name |-> entry.name, sub |-> i]]
      <4>1. new = f /\ d \in Nat
        BY <3>1, <3>3 DEF Loaded
      <4>2. DOMAIN f = 1..d /\ \A i \in 1..d : HasTable(f[i])
        BY <3>1 DEF HasTable
      <4>3. DOMAIN new = 1..Len(new)
        BY <2>2
      <4> HIDE DEF f, d, new
      <4> QED BY <4>1, <4>2, <4>3
    <3> QED BY <3>2, <3>3
  <2>4. grid_list \in Seq(GridInfo) /\ n \in Nat /\ Len(new) \in Nat
    BY <2>2 DEF ListTypeOK
  <2>5. \A k \in 1..n : grid_list[k].name # entry.name
    <3>1. cursor > n /\ cursor \in Nat /\ stage = "merge" /\ ~got_match
      BY <1>1 DEF LoadGrid, AtEnd, ListTypeOK
    <3> QED BY <2>4, <3>1 DEF Unmatched
  <2> HIDE DEF new
  <2>6. /\ Len(grid_list') = n + Len(new)
        /\ \A k \in 1..n : grid_list'[k] = grid_list[k]
        /\ \A k \in n + 1..n + Len(new) : k - n \in 1..Len(new) /\ grid_list'[k] = new[k - n]
    BY <1>1, <2>2, <2>4 DEF LoadGrid, new
  <2>7. SUFFICES ASSUME NEW i \in 1..n + Len(new), NEW j \in 1..n + Len(new),
                        grid_list'[i].name = grid_list'[j].name, ~HasTable(grid_list'[i])
                 PROVE  i = j
    BY <2>6 DEF HasTable
  <2>8. \A k \in 1..n + Len(new) : k \in 1..n \/ k \in n + 1..n + Len(new)
    BY <2>4
  <2>9. CASE i \in 1..n /\ j \in 1..n
    BY <2>6, <2>7, <2>9
  <2>10. CASE i \in n + 1..n + Len(new) /\ j \in n + 1..n + Len(new)
    <3>1. i - n = j - n
      BY <2>3, <2>6, <2>7, <2>10
    <3> QED BY <2>4, <3>1
  <2>11. CASE i \in 1..n /\ j \in n + 1..n + Len(new)
    BY <2>2, <2>5, <2>6, <2>7, <2>11
  <2>12. CASE i \in n + 1..n + Len(new) /\ j \in 1..n
    BY <2>2, <2>5, <2>6, <2>7, <2>12
  <2> QED BY <2>8, <2>9, <2>10, <2>11, <2>12
<1>2. CASE Deallocate
  BY <1>2 DEF Deallocate
<1>3. CASE UNCHANGED grid_list
  BY <1>3
<1> QED
  BY <1>1, <1>2, <1>3
  DEF ListNext, Request, RequestSame, RequestNew, ListStep, Merge, NextEntry, EntryTooLong,
      Finish, AddMatch, MatchStub, SkipGrid, MergeDone, DiskChange, listVars

(* The answer, as a sequence of grids on the list.                          *)
LEMMA AnswerTyped ==
  ASSUME ListTypeOK, NoDangling
  PROVE  /\ Answer \in Seq(GridInfo) /\ Len(Answer) = count /\ count \in Nat
         /\ \A i \in 1..count : Answer[i] = slots[i - 1]
<1>1. count \in Nat /\ \A i \in 1..count : i - 1 \in 0..count - 1
  BY DEF ListTypeOK
<1>2. \A i \in 0..count - 1 : slots[i] \in GridInfo
  BY DEF ListTypeOK, NoDangling
<1>3. /\ DOMAIN Answer = 1..count /\ Answer = [i \in 1..count |-> Answer[i]]
      /\ \A i \in 1..count : Answer[i] = slots[i - 1] /\ Answer[i] \in GridInfo
  BY <1>1, <1>2 DEF Answer
<1> HIDE DEF Answer
<1> QED BY <1>1, <1>3, SequenceOf

LEMMA AnswerGrows ==
  ASSUME ListTypeOK, SlotsInBounds, NoDangling, AddMatch
  PROVE  Answer' = Append(Answer, grid_list[cursor]) /\ grid_list[cursor] \in GridInfo
<1> DEFINE x == grid_list[cursor]
<1>1. x \in GridInfo
  BY DEF AddMatch, AtGrid, ListTypeOK
<1>2. /\ Answer \in Seq(GridInfo) /\ Len(Answer) = count /\ count \in Nat
      /\ \A i \in 1..count : Answer[i] = slots[i - 1]
  BY AnswerTyped
<1>3. /\ count' = count + 1 /\ slots'[count] = x
      /\ \A i \in 0..count - 1 : slots'[i] = slots[i]
  BY AddedSlot
<1>4. Answer' = [i \in 1..count + 1 |-> slots'[i - 1]]
  BY <1>3 DEF Answer
<1>5. \A i \in 1..count + 1 : slots'[i - 1] = IF i = count + 1 THEN x ELSE Answer[i]
  <2> SUFFICES ASSUME NEW i \in 1..count + 1
               PROVE  slots'[i - 1] = IF i = count + 1 THEN x ELSE Answer[i]
    OBVIOUS
  <2>1. CASE i = count + 1
    BY <1>2, <1>3, <2>1
  <2>2. CASE i # count + 1
    <3>1. i \in 1..count /\ i - 1 \in 0..count - 1
      BY <1>2, <2>2
    <3> QED BY <1>2, <1>3, <2>2, <3>1
  <2> QED BY <2>1, <2>2
<1> DEFINE s == [i \in 1..count + 1 |-> slots'[i - 1]]
<1> HIDE DEF x
<1>6. /\ DOMAIN s = 1..count + 1 /\ s = [i \in 1..count + 1 |-> s[i]] /\ count + 1 \in Nat
      /\ \A i \in 1..count + 1 : s[i] = IF i = count + 1 THEN x ELSE Answer[i]
  BY <1>2, <1>5
<1> HIDE DEF s
<1>7. s \in Seq(GridInfo) /\ Len(s) = count + 1
  <2>1. \A i \in 1..count + 1 : i = count + 1 \/ i \in 1..Len(Answer)
    BY <1>2
  <2>2. \A i \in 1..count + 1 : s[i] \in GridInfo
    BY <1>1, <1>2, <1>6, <2>1
  <2> QED BY <1>6, <2>2, SequenceOf
<1>8. /\ Append(Answer, x) \in Seq(GridInfo) /\ Len(Append(Answer, x)) = count + 1
      /\ \A i \in 1..count + 1 : Append(Answer, x)[i] = IF i = count + 1 THEN x ELSE Answer[i]
  BY <1>1, <1>2, AppendProperties
<1>9. s = Append(Answer, x)
  <2> DEFINE t == Append(Answer, x)
  <2>1. t \in Seq(GridInfo) /\ Len(t) = Len(s) /\ \A i \in 1..Len(s) : s[i] = t[i]
    BY <1>6, <1>7, <1>8
  <2> HIDE DEF t
  <2>2. s = t
    BY <1>7, <2>1, SeqEqual
  <2> QED BY <2>2 DEF t
<1> QED BY <1>1, <1>4, <1>9 DEF x, s

(* No name that is in the answer or on the list is lost during a call.      *)
LEMMA NamesStay ==
  ASSUME ListTypeOK, InMerge, SlotsInBounds, NoDangling, [ListNext]_listVars, stage # "idle", NEW name
  PROVE  (OnList(name) => OnList(name)') /\ (InAnswer(name) => InAnswer(name)')
<1>1. CASE AddMatch
  <2>1. /\ Answer \in Seq(GridInfo) /\ Len(Answer) = count /\ count \in Nat /\ count' = count + 1
        /\ Answer' = Append(Answer, grid_list[cursor]) /\ grid_list' = grid_list
    BY <1>1, AnswerTyped, AnswerGrows, AddedSlot DEF AddMatch
  <2>2. \A k \in 1..count : Answer'[k] = Answer[k] /\ k \in 1..count'
    BY <2>1
  <2> QED BY <2>1, <2>2 DEF OnList, InAnswer
<1>2. CASE LoadGrid
  <2>1. entry.name \in Name
    BY <1>2 DEF LoadGrid, AtEnd, InMerge, NadEntry
  <2>2. Loaded(entry.name) \in Seq(GridInfo) /\ grid_list \in Seq(GridInfo)
    BY <2>1, LoadedGrids DEF ListTypeOK
  <2>3. \A k \in 1..Len(grid_list) : k \in 1..Len(grid_list') /\ grid_list'[k] = grid_list[k]
    BY <1>2, <2>2 DEF LoadGrid
  <2> QED BY <1>2, <2>3 DEF OnList, InAnswer, Answer, LoadGrid, cacheVars
<1>3. CASE UNCHANGED <<grid_list, count, slots>>
  BY <1>3 DEF OnList, InAnswer, Answer
<1> QED
  BY <1>1, <1>2, <1>3
  DEF ListNext, Request, RequestSame, RequestNew, ListStep, Merge, NextEntry, EntryTooLong,
      Finish, MatchStub, SkipGrid, MergeDone, DiskChange, Deallocate, listVars, cacheVars

LEMMA MatchedStep ==
  ASSUME ListTypeOK, InMerge, SlotsInBounds, NoDangling, Matched, [ListNext]_listVars PROVE Matched'
<1> USE DEF Matched
<1>1. CASE AddMatch
  <2>1. /\ Answer \in Seq(GridInfo) /\ Len(Answer) = count /\ count \in Nat /\ count' = count + 1
        /\ Answer' = Append(Answer, grid_list[cursor]) /\ entry' = entry
        /\ grid_list[cursor].name = entry.name
    BY <1>1, AnswerTyped, AnswerGrows, AddedSlot DEF AddMatch, Matches
  <2>2. Answer'[count'] = grid_list[cursor] /\ count' \in 1..count'
    BY <2>1
  <2> QED BY <2>1, <2>2 DEF InAnswer
<1>2. CASE SkipGrid \/ LoadGrid
  <2>1. UNCHANGED <<entry, got_match, stage, count, slots>>
    BY <1>2 DEF SkipGrid, LoadGrid, cacheVars
  <2> QED BY <2>1 DEF InAnswer, Answer
<1>3. CASE stage' # "merge" \/ ~got_match'
  BY <1>3
<1>4. CASE UNCHANGED buildVars
  BY <1>4 DEF buildVars, InAnswer, Answer
<1>5. ASSUME NEW s \in NadGrids, Request(s) PROVE stage' # "merge"
  BY <1>5 DEF Request, RequestSame, RequestNew, ListReturn
<1>6. NextEntry => ~got_match'
  BY DEF NextEntry
<1>7. EntryTooLong \/ Finish \/ MatchStub \/ MergeDone \/ Deallocate => stage' # "merge"
  BY DEF EntryTooLong, Finish, MatchStub, MergeDone, MergeReturns, ListReturn, Deallocate
<1> QED
  BY <1>1, <1>2, <1>3, <1>4, <1>5, <1>6, <1>7
  DEF ListNext, ListStep, Merge, DiskChange, listVars, cacheVars, mergeVars, buildVars

LEMMA TriedStep ==
  ASSUME ListTypeOK, InMerge, SlotsInBounds, NoDangling, Parsing, Tried, Matched, [ListNext]_listVars
  PROVE  Tried'
<1> USE DEF Tried
<1>1. CASE stage' = "idle"
  BY <1>1
<1>2. ASSUME NEW s \in NadGrids, RequestNew(s) PROVE Tried'
  <2>1. s \in Seq(NadEntry) /\ last' = s /\ rest' = s /\ stage' = "entry"
    BY <1>2, NadGridsAssumption DEF RequestNew
  <2>2. Done' = 0
    BY <2>1 DEF Done, Taken
  <2> QED BY <2>2
<1>3. CASE stage # "idle" /\ last' = last /\ Done' = Done
  <2>1. \A i \in 1..Done : /\ OnList(last[i].name)'
                           /\ last[i].required => InAnswer(last[i].name)'
    BY <1>3, NamesStay
  <2> QED BY <1>3, <2>1 DEF OnList, InAnswer
<1>4. CASE NextEntry
  <2>1. stage = "entry" /\ stage' = "merge" /\ rest # <<>> /\ rest' = Tail(rest) /\ last' = last
    BY <1>4 DEF NextEntry, cacheVars
  <2>2. last \in Seq(NadEntry) /\ rest \in Seq(NadEntry) /\ Len(last) \in Nat /\ Len(rest) \in Nat
    BY <2>1, LastTyped
  <2>3. Len(rest') = Len(rest) - 1
    BY <2>1, <2>2
  <2>4. Done' = Done
    BY <2>1, <2>2, <2>3 DEF Done, Taken
  <2> QED BY <1>3, <2>1, <2>4
<1>5. CASE (MatchStub \/ MergeDone) /\ stage' # "idle"
  <2>1. /\ stage = "merge" /\ stage' = "entry" /\ UNCHANGED <<last, rest, grid_list, count, slots>>
        /\ MatchStub => ~entry.required
    BY <1>5 DEF MatchStub, MergeDone, MergeReturns, ListReturn, AtGrid, AtEnd, cacheVars
  <2>2. last \in Seq(NadEntry) /\ Len(last) \in Nat /\ Len(rest) \in Nat
    BY <2>1, LastTyped
  <2>3. Done' = Taken /\ Done = Taken - 1 /\ Taken \in Int /\ last'= last
    BY <2>1, <2>2 DEF Done, Taken
  <2>4. entry = last[Taken]
    BY <2>1 DEF Parsing
  <2>5. entry.required => InAnswer(entry.name)
    BY <1>5, <2>1 DEF MergeDone, Matched
  <2>6. OnList(entry.name)
    <3>1. CASE MatchStub
      <4>1. cursor \in 1..Len(grid_list) /\ grid_list[cursor].name = entry.name
        BY <3>1 DEF MatchStub, AtGrid, Matches, ListTypeOK
      <4> QED BY <4>1 DEF OnList
    <3>2. CASE MergeDone
      <4>1. PICK k \in 1..count : Answer[k].name = entry.name
        BY <3>2 DEF MergeDone, AtEnd, Matched, InAnswer
      <4>2. Answer[k] = slots[k - 1] /\ k - 1 \in 0..count - 1
        BY AnswerTyped
      <4> QED BY <4>1, <4>2 DEF NoDangling, OnList
    <3> QED BY <1>5, <3>1, <3>2
  <2>7. \A i \in 1..Taken : OnList(last[i].name) /\ (last[i].required => InAnswer(last[i].name))
    <3>1. \A i \in 1..Taken : i = Taken \/ i \in 1..Taken - 1
      BY <2>3
    <3> QED BY <2>1, <2>3, <2>4, <2>5, <2>6, <3>1
  <2> QED BY <2>1, <2>3, <2>7 DEF OnList, InAnswer, Answer
<1>6. CASE AddMatch \/ SkipGrid \/ LoadGrid \/ UNCHANGED buildVars
  <2>1. UNCHANGED <<last, rest, stage>>
    BY <1>6 DEF AddMatch, SkipGrid, LoadGrid, cacheVars, buildVars
  <2>2. Done' = Done
    BY <2>1 DEF Done, Taken
  <2> QED BY <1>1, <1>3, <2>1, <2>2
<1>7. ASSUME NEW s \in NadGrids, RequestSame(s) PROVE stage' = "idle"
  BY <1>7 DEF RequestSame, ListReturn
<1>8. EntryTooLong \/ Finish \/ Deallocate => stage' = "idle"
  BY DEF EntryTooLong, Finish, ListReturn, Deallocate
<1> QED
  BY <1>1, <1>2, <1>4, <1>5, <1>6, <1>7, <1>8
  DEF ListNext, Request, ListStep, Merge, DiskChange, listVars, cacheVars, mergeVars, buildVars

LEMMA InOrderStep ==
  ASSUME IInv, Parsing, InOrder, Tried, StubsAlone, [ListNext]_listVars PROVE InOrder'
<1> USE DEF InOrder
<1>0. ListTypeOK /\ InMerge /\ SlotsInBounds /\ NoDangling /\ Unmatched
  BY DEF IInv
<1> DEFINE offered == OfferedBy(grid_list, last)
           tables == TablesOf(grid_list, entry.name)
<1>1. CASE stage' = "idle"
  BY <1>1
<1>2. ASSUME NEW s \in NadGrids, RequestNew(s) PROVE InOrder'
  <2>1. s \in Seq(NadEntry) /\ last' = s /\ rest' = s /\ stage' = "entry" /\ count' = 0
    BY <1>2, NadGridsAssumption DEF RequestNew
  <2>2. Taken' = 0
    BY <2>1 DEF Taken
  <2>3. grid_list' \in Seq(GridInfo)
    BY <1>0, <1>2 DEF RequestNew, ListTypeOK
  <2>4. Answer' = <<>>
    BY <2>1 DEF Answer
  <2>5. OfferedBy(grid_list', s)[0] = <<>>
    BY <2>1, <2>3, OfferedUnfold
  <2> QED BY <2>1, <2>2, <2>4, <2>5
<1>3. CASE NextEntry
  <2>1. /\ stage = "entry" /\ stage' = "merge" /\ rest # <<>> /\ rest' = Tail(rest)
        /\ UNCHANGED <<last, grid_list, count, slots>> /\ cursor' = 1
    BY <1>3 DEF NextEntry, cacheVars
  <2>2. last \in Seq(NadEntry) /\ rest \in Seq(NadEntry) /\ Len(last) \in Nat /\ Len(rest) \in Nat
    BY <1>0, <2>1, LastTyped
  <2>3. Len(rest') = Len(rest) - 1
    BY <2>1, <2>2
  <2>4. Taken' = Taken + 1 /\ Taken \in 0..Len(last) /\ Taken' - 1 = Taken
    BY <2>1, <2>2, <2>3 DEF Taken, Parsing
  <2>5. grid_list \in Seq(GridInfo)
    BY <1>0 DEF ListTypeOK
  <2>6. offered[Taken] \in Seq(GridInfo)
    BY <2>2, <2>4, <2>5, OfferedUnfold
  <2>7. TablesOf(grid_list, entry'.name)[0] = <<>>
    BY <2>5, TablesUnfold
  <2>8. Answer' = offered[Taken]
    BY <2>1 DEF Answer
  <2>9. offered[Taken] \o <<>> = offered[Taken]
    BY <2>6, ConcatEmptySeq
  <2>10. cursor' - 1 = 0 /\ stage' # "entry"
    BY <2>1
  <2>11. Answer' = offered[Taken' - 1] \o TablesOf(grid_list, entry'.name)[cursor' - 1]
    BY <2>4, <2>7, <2>8, <2>9, <2>10
  <2> QED BY <2>1, <2>10, <2>11
<1>4. CASE AddMatch \/ SkipGrid
  <2>1. /\ stage = "merge" /\ UNCHANGED <<stage, last, rest, entry, grid_list>> /\ cursor' = cursor + 1
        /\ cursor \in 1..Len(grid_list) /\ grid_list \in Seq(GridInfo) /\ Len(grid_list) \in Nat
    BY <1>0, <1>4 DEF AddMatch, SkipGrid, AtGrid, cacheVars, ListTypeOK
  <2>2. last \in Seq(NadEntry) /\ Len(last) \in Nat /\ Len(rest) \in Nat
    BY <1>0, <2>1, LastTyped
  <2>3. Taken - 1 \in 0..Len(last) /\ cursor - 1 \in 0..Len(grid_list) /\ (cursor + 1) - 1 = cursor
    BY <2>1, <2>2 DEF Taken, Parsing
  <2> DEFINE x == offered[Taken - 1]
             y == tables[cursor - 1]
             g == grid_list[cursor]
  <2>4. x \in Seq(GridInfo) /\ y \in Seq(GridInfo) /\ g \in GridInfo /\ Answer = x \o y
    <3>1. \A n \in 0..Len(last) : offered[n] \in Seq(GridInfo)
      BY <2>1, <2>2, OfferedUnfold
    <3>2. \A n \in 0..Len(grid_list) : tables[n] \in Seq(GridInfo)
      BY <2>1, TablesUnfold
    <3>3. g \in GridInfo
      BY <2>1
    <3> QED BY <2>1, <2>3, <3>1, <3>2, <3>3
  <2>5. tables[cursor] = IF Takes(g, entry.name) THEN Append(y, g) ELSE y
    BY <2>1, TablesUnfold
  <2>6. Answer' = x \o tables[cursor]
    <3>1. CASE AddMatch
      <4>1. Answer' = Append(Answer, g) /\ Takes(g, entry.name)
        BY <1>0, <3>1, AnswerGrows DEF AddMatch, Matches, Takes
      <4>2. tables[cursor] = Append(y, g)
        BY <2>5, <4>1
      <4> HIDE DEF x, y, g, tables
      <4>3. <<g>> \in Seq(GridInfo) /\ x \o y \in Seq(GridInfo)
        BY <2>4, ConcatProperties
      <4>4. Append(Answer, g) = (x \o y) \o <<g>> /\ Append(y, g) = y \o <<g>>
        BY <2>4, <4>3, AppendIsConcat
      <4>5. (x \o y) \o <<g>> = x \o (y \o <<g>>)
        BY <2>4, <4>3, GridConcat
      <4> QED BY <4>1, <4>2, <4>4, <4>5
    <3>2. CASE SkipGrid
      <4>1. ~Takes(g, entry.name) /\ Answer' = Answer
        BY <3>2 DEF SkipGrid, Matches, Takes, cacheVars, Answer
      <4> QED BY <2>4, <2>5, <4>1
    <3> QED BY <1>4, <3>1, <3>2
  <2> QED BY <2>1, <2>3, <2>6 DEF Taken
<1>5. CASE (MatchStub \/ MergeDone) /\ stage' # "idle"
  <2>1. /\ stage = "merge" /\ stage' = "entry" /\ UNCHANGED <<last, rest, grid_list, count, slots>>
        /\ grid_list \in Seq(GridInfo) /\ Len(grid_list) \in Nat /\ cursor \in Nat \ {0}
    BY <1>0, <1>5 DEF MatchStub, MergeDone, MergeReturns, ListReturn, AtGrid, AtEnd, cacheVars, ListTypeOK
  <2>2. last \in Seq(NadEntry) /\ Len(last) \in Nat /\ Len(rest) \in Nat
    BY <1>0, <2>1, LastTyped
  <2>3. /\ Taken \in 1..Len(last) /\ entry = last[Taken]
        /\ cursor - 1 \in 0..Len(grid_list) /\ Len(grid_list) \in cursor - 1..Len(grid_list)
    BY <2>1, <2>2 DEF Taken, Parsing
  <2>4. \A k \in (cursor - 1) + 1..Len(grid_list) : ~Takes(grid_list[k], entry.name)
    <3>1. CASE MatchStub
      <4>1. /\ cursor \in 1..Len(grid_list) /\ grid_list[cursor].name = entry.name
            /\ ~HasTable(grid_list[cursor])
        BY <2>1, <3>1 DEF MatchStub, AtGrid, Matches
      <4>2. \A k \in 1..Len(grid_list) : grid_list[k].name = entry.name => k = cursor
        BY <4>1 DEF StubsAlone
      <4>3. \A k \in (cursor - 1) + 1..Len(grid_list) : k \in 1..Len(grid_list)
        BY <2>1
      <4> QED BY <4>1, <4>2, <4>3 DEF Takes
    <3>2. CASE MergeDone
      BY <2>1, <3>2 DEF MergeDone, AtEnd
    <3> QED BY <1>5, <3>1, <3>2
  <2>5. tables[Len(grid_list)] = tables[cursor - 1]
    BY <2>1, <2>3, <2>4, TablesSkip
  <2>6. offered[Taken] = offered[Taken - 1] \o tables[Len(grid_list)]
    BY <2>1, <2>2, <2>3, OfferedUnfold
  <2>7. Answer' = Answer
    BY <2>1 DEF Answer
  <2> QED BY <2>1, <2>5, <2>6, <2>7 DEF Taken
<1>6. CASE LoadGrid
  <2> DEFINE new == Loaded(entry.name)
             all == grid_list \o new
  <2>1. entry.name \in Name
    BY <1>0, <1>6 DEF LoadGrid, AtEnd, InMerge, NadEntry
  <2>2. new \in Seq(GridInfo) /\ \A i \in 1..Len(new) : new[i].name = entry.name
    BY <1>0, <2>1, LoadedGrids
  <2>3. /\ stage = "merge" /\ UNCHANGED <<stage, last, rest, entry, count, slots>> /\ cursor' = 1
        /\ grid_list' = all /\ ~got_match /\ cursor > Len(grid_list)
        /\ grid_list \in Seq(GridInfo) /\ Len(grid_list) \in Nat /\ cursor \in Nat
    BY <1>0, <1>6 DEF LoadGrid, AtEnd, cacheVars, ListTypeOK
  <2>4. last \in Seq(NadEntry) /\ Len(last) \in Nat /\ Len(rest) \in Nat
    BY <1>0, <2>3, LastTyped
  <2>5. /\ Taken - 1 \in 0..Len(last) /\ Done = Taken - 1
        /\ cursor - 1 = Len(grid_list)
    BY <2>3, <2>4 DEF Taken, Parsing, Done
  <2>6. \A k \in 1..Len(grid_list) : grid_list[k].name # entry.name
    BY <1>0, <2>3 DEF Unmatched
  <2>7. \A i \in 1..Taken - 1 : last[i].name # entry.name
    BY <2>3, <2>5, <2>6 DEF Tried, OnList
  <2> HIDE DEF new
  <2>8. OfferedBy(all, last)[Taken - 1] = offered[Taken - 1]
    <3>1. \A i \in 1..Taken - 1 : \A k \in 1..Len(new) : new[k].name # last[i].name
      BY <2>2, <2>7
    <3> QED BY <2>2, <2>3, <2>4, <2>5, <3>1, OfferedExtend
  <2>9. tables[cursor - 1] = <<>>
    <3>1. \A k \in 0 + 1..Len(grid_list) : ~Takes(grid_list[k], entry.name)
      BY <2>6 DEF Takes
    <3>2. 0 \in 0..Len(grid_list) /\ Len(grid_list) \in 0..Len(grid_list)
      BY <2>3
    <3>3. tables[Len(grid_list)] = tables[0]
      BY <2>3, <3>1, <3>2, TablesSkip
    <3> QED BY <2>3, <2>5, <3>3, TablesUnfold
  <2>10. TablesOf(all, entry.name)[0] = <<>>
    BY <2>2, <2>3, ConcatProperties, TablesUnfold
  <2>11. Answer' = offered[Taken - 1] \o <<>>
    BY <2>3, <2>9 DEF Answer
  <2>12. cursor' - 1 = 0 /\ Taken' = Taken /\ stage' # "entry"
    BY <2>3 DEF Taken
  <2>13. Answer' = OfferedBy(all, last)[Taken' - 1] \o TablesOf(all, entry.name)[cursor' - 1]
    BY <2>8, <2>10, <2>11, <2>12
  <2> HIDE DEF all
  <2> QED BY <2>3, <2>12, <2>13
<1>7. CASE UNCHANGED buildVars
  BY <1>7 DEF buildVars, Taken, Answer
<1>8. ASSUME NEW s \in NadGrids, RequestSame(s) PROVE stage' = "idle"
  BY <1>8 DEF RequestSame, ListReturn
<1>9. EntryTooLong \/ Finish \/ Deallocate => stage' = "idle"
  BY DEF EntryTooLong, Finish, ListReturn, Deallocate
<1> QED
  BY <1>1, <1>2, <1>3, <1>4, <1>5, <1>6, <1>7, <1>8, <1>9
  DEF ListNext, Request, ListStep, Merge, DiskChange, listVars, cacheVars, mergeVars, buildVars

(* While a call runs, what it has built is the beginning of what is offered. *)
LEMMA PrefixOfOffered ==
  ASSUME IInv, Parsing, InOrder, stage # "idle"
  PROVE  IsPrefix(Answer, Offered(last))
<1> DEFINE offered == OfferedBy(grid_list, last)
           tables == TablesOf(grid_list, entry.name)
           N == Len(last)
<1>1. ListTypeOK /\ InMerge
  BY DEF IInv
<1>2. /\ last \in Seq(NadEntry) /\ N \in Nat /\ Len(rest) \in Nat /\ N \in 0..N
      /\ grid_list \in Seq(GridInfo) /\ Len(grid_list) \in Nat /\ cursor \in Nat \ {0}
  <2>1. last \in Seq(NadEntry) /\ N \in Nat /\ Len(rest) \in Nat
    BY <1>1, LastTyped
  <2> QED BY <1>1, <2>1 DEF ListTypeOK
<1>3. \E u \in Seq(GridInfo) : Offered(last) = Answer \o u /\ Answer \in Seq(GridInfo)
  <2>1. CASE stage = "entry"
    <3>1. Taken \in 0..N /\ N \in Taken..N
      BY <1>2, <2>1 DEF Taken, Parsing
    <3>2. \E u \in Seq(GridInfo) : offered[N] = offered[Taken] \o u
      BY <1>2, <3>1, OfferedPrefix DEF Begins
    <3>3. offered[Taken] \in Seq(GridInfo)
      BY <1>2, <3>1, OfferedUnfold
    <3> QED BY <2>1, <3>2, <3>3 DEF InOrder, Offered
  <2>2. CASE stage = "merge"
    <3>1. /\ Taken \in 1..N /\ N \in Taken..N /\ entry = last[Taken]
          /\ Taken \in 0..N /\ Taken - 1 \in 0..N /\ cursor - 1 \in 0..Len(grid_list)
          /\ Len(grid_list) \in cursor - 1..Len(grid_list)
      BY <1>2, <2>2 DEF Taken, Parsing
    <3>2. PICK u \in Seq(GridInfo) : offered[N] = offered[Taken] \o u
      BY <1>2, <3>1, OfferedPrefix DEF Begins
    <3>3. PICK v \in Seq(GridInfo) : tables[Len(grid_list)] = tables[cursor - 1] \o v
      <4>1. Begins(tables[cursor - 1], tables[Len(grid_list)])
        BY <1>2, <3>1, TablesPrefix
      <4> QED BY <4>1 DEF Begins
    <3>4. offered[Taken] = offered[Taken - 1] \o tables[Len(grid_list)]
      BY <1>2, <3>1, OfferedUnfold
    <3> DEFINE x == offered[Taken - 1]
               y == tables[cursor - 1]
    <3>5. x \in Seq(GridInfo) /\ y \in Seq(GridInfo) /\ Answer = x \o y
      BY <1>2, <2>2, <3>1, OfferedUnfold, TablesUnfold DEF InOrder
    <3>6. offered[N] = (x \o (y \o v)) \o u
      BY <3>2, <3>3, <3>4
    <3> HIDE DEF x, y
    <3>7. y \o v \in Seq(GridInfo) /\ x \o y \in Seq(GridInfo) /\ v \o u \in Seq(GridInfo)
      BY <3>5, ConcatProperties
    <3>8. x \o (y \o v) = (x \o y) \o v
      BY <3>5, GridConcat
    <3>9. ((x \o y) \o v) \o u = (x \o y) \o (v \o u)
      BY <3>7, GridConcat
    <3> QED BY <3>5, <3>6, <3>7, <3>8, <3>9 DEF Offered
  <2> QED BY <1>1, <2>1, <2>2 DEF ListTypeOK
<1>4. PICK u \in Seq(GridInfo) : Offered(last) = Answer \o u /\ Answer \in Seq(GridInfo)
  BY <1>3
<1> QED BY <1>4 DEF IsPrefix

LEMMA PrefixStep ==
  ASSUME AnswerInOrder, [ListNext]_listVars, (stage # "idle" => IsPrefix(Answer, Offered(last)))'
  PROVE  AnswerInOrder'
<1>1. CASE stage' # "idle"
  BY <1>1 DEF AnswerInOrder
<1>2. CASE UNCHANGED <<grid_list, last, slots, count>>
  BY <1>2 DEF AnswerInOrder, Answer, Offered
<1>3. CASE Deallocate
  BY <1>3 DEF Deallocate, AnswerInOrder, cacheVars
<1>4. CASE stage' = "idle" /\ ~Deallocate
  <2>1. UNCHANGED <<grid_list, last, slots, count>>
    BY <1>4 DEF ListNext, Request, RequestSame, RequestNew, ListStep, Merge, NextEntry, EntryTooLong,
       Finish, AddMatch, MatchStub, SkipGrid, MergeDone, LoadGrid, AtGrid, AtEnd,
       DiskChange, listVars, cacheVars
  <2> QED BY <1>2, <2>1
<1> QED BY <1>1, <1>3, <1>4

LEMMA BuildStep == ASSUME IInv, BuildInv, [ListNext]_listVars PROVE BuildInv'
<1>1. ListTypeOK /\ InMerge /\ SlotsInBounds /\ NoDangling /\ Unmatched
  BY DEF IInv
<1> QED
  BY <1>1, ParsingStep, InOrderStep, TriedStep, MatchedStep, StubsAloneStep DEF BuildInv

LEMMA InitBuild == ListInit => BuildInv
  BY DEF ListInit, BuildInv, Parsing, InOrder, Tried, Matched, StubsAlone

THEOREM Building == ListSpec => []BuildInv
<1>1. IInv /\ BuildInv /\ [ListNext]_listVars => BuildInv'
  BY BuildStep
<1> QED BY Invariance, InitBuild, <1>1, PTL DEF ListSpec

(* Whatever came before, the array holds the beginning of what the loaded   *)
(* files offer for its string, in the order the string names them.          *)
THEOREM InOrderAlways == ListSpec => []AnswerInOrder
<1> DEFINE Prefix == stage # "idle" => IsPrefix(Answer, Offered(last))
<1>1. ListInit => AnswerInOrder
  BY DEF ListInit, AnswerInOrder
<1>2. IInv /\ BuildInv => Prefix
  BY PrefixOfOffered DEF BuildInv
<1>3. AnswerInOrder /\ [ListNext]_listVars /\ Prefix' => AnswerInOrder'
  BY PrefixStep
<1> HIDE DEF Prefix
<1> QED BY Invariance, Building, <1>1, <1>2, <1>3, PTL DEF ListSpec

(* The step that ends a request built to its last entry leaves nothing out, *)
(* and every file its string requires is there.  Requests that return in    *)
(* another way, from the cached array above all, are not spoken of.         *)
THEOREM CompleteAtTheEnd == ListSpec => AnswerComplete
<1>1. ASSUME IInv, BuildInv, Finish PROVE Answer = Offered(last) /\ HasRequired
  <2>1. ListTypeOK /\ InMerge /\ stage = "entry" /\ rest = <<>>
    BY <1>1 DEF IInv, Finish
  <2>2. Taken = Len(last) /\ Done = Len(last)
    <3>1. Len(last) \in Nat
      BY <2>1, LastTyped
    <3> QED BY <2>1, <3>1 DEF Taken, Done
  <2>3. Answer = Offered(last)
    BY <1>1, <2>1, <2>2 DEF BuildInv, InOrder, Offered
  <2>4. HasRequired
    BY <1>1, <2>1, <2>2 DEF BuildInv, Tried, InAnswer, HasRequired
  <2> QED BY <2>3, <2>4
<1>2. IInv /\ BuildInv /\ [ListNext]_listVars => [Finish => Answer = Offered(last) /\ HasRequired]_listVars
  BY <1>1
<1> QED BY Invariance, Building, <1>2, PTL DEF ListSpec, AnswerComplete
=============================================================================
