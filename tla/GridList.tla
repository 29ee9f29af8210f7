------------------------------ MODULE GridList ------------------------------
(***************************************************************************)
(* The catalogue of datum-shift grids of PROJ.4: pj_gridlist.c, with the    *)
(* header parsing of pj_gridinfo.c abstracted to "how many top-level grids  *)
(* does this file yield".                                                   *)
(*                                                                          *)
(* The C code keeps two structures in file-scope statics: grid_list, every  *)
(* grid (or stub) ever loaded, and the array last_nadgrids_list, the answer *)
(* to the most recent request, reused while requests name the same          *)
(* +nadgrids string.  One loop iteration of the C code is one action, so    *)
(* that the states in the middle of a request are states of the model.      *)
(***************************************************************************)
EXTENDS Integers, Sequences, SequencesExt

CONSTANTS
  Name,       \* grid file names
  NadGrids,   \* the +nadgrids strings callers use: sequences of entries
  MaxSub,     \* most top-level grids one file holds (an NTv2 file has many)
  SlotsAdded, \* slots added when the array is full (20 in the code)
  NIL,        \* the null pointer
  Junk        \* an array slot that malloc left uninitialised

(* One comma-separated item: "@" clears required; a name longer than the    *)
(* name[128] buffer does not fit.                                           *)
NadEntry == [name : Name, required : BOOLEAN, fits : BOOLEAN]

ASSUME NadGridsAssumption == NadGrids \subseteq Seq(NadEntry)
ASSUME BoundsAssumption   == MaxSub \in Nat \ {0} /\ SlotsAdded \in Nat /\ SlotsAdded >= 2

(* A PJ_GRIDINFO on grid_list; sub = 0 is the stub of a file that could not *)
(* be opened or parsed, whose ct member is NULL.                            *)
GridInfo == [name : Name, sub : 0..MaxSub]

ASSUME NullAssumption == NIL \notin NadGrids /\ NIL \notin GridInfo /\ Junk \notin GridInfo

HasTable(g) == g.sub > 0

VARIABLES
  disk,       \* disk[n]: top-level grids a load of n finds now; 0 if none
  grid_list,  \* the linked list of loaded grids, head first
  last,       \* last_nadgrids
  slots,      \* the array last_nadgrids_list, indexed from 0
  count,      \* last_nadgrids_count
  max,        \* last_nadgrids_max
  pj_errno,
  stage,      \* where the call in progress stands
  rest,       \* nadgrids from s on
  entry,      \* the entry being merged
  cursor,     \* this_grid in pj_gridlist_merge_gridfile, a position
  got_match,
  result      \* what the last call returned: list non-null, and *grid_count

cacheVars == <<last, slots, count, max>>
mergeVars == <<entry, cursor, got_match>>
listVars == <<disk, grid_list, cacheVars, pj_errno, stage, rest, mergeVars, result>>

OpenErrors == {-38, 2}   \* a short header, or errno (ENOENT) of fopen

ListTypeOK ==
  /\ disk \in [Name -> 0..MaxSub]
  /\ grid_list \in Seq(GridInfo)
  /\ last \in NadGrids \cup {NIL}
  /\ max \in Nat /\ count \in Nat
  /\ slots \in [0..max-1 -> GridInfo \cup {NIL, Junk}]
  /\ pj_errno \in {0} \cup OpenErrors
  /\ stage \in {"idle", "entry", "merge"}
  /\ rest \in Seq(NadEntry)
  /\ entry \in NadEntry \cup {NIL}
  /\ cursor \in Nat \ {0}
  /\ got_match \in BOOLEAN
  /\ result \in [list : BOOLEAN, count : Nat]

ListInit ==
  /\ disk \in [Name -> 0..MaxSub]
  /\ grid_list = <<>>
  /\ last = NIL
  /\ slots = [i \in 0..-1 |-> Junk]
  /\ count = 0
  /\ max = 0
  /\ pj_errno = 0
  /\ stage = "idle"
  /\ rest = <<>>
  /\ entry = NIL
  /\ cursor = 1
  /\ got_match = FALSE
  /\ result = [list |-> FALSE, count |-> 0]

(***************************************************************************)
(* pj_gridlist_from_nadgrids                                                *)
(***************************************************************************)
(* The call ends; its locals go out of scope.                               *)
ListReturn(ptr, n) ==
  /\ result' = [list |-> ptr, count |-> n]
  /\ stage' = "idle"
  /\ rest' = <<>>
  /\ entry' = NIL
  /\ cursor' = 1
  /\ got_match' = FALSE

(* The string is the one of the previous request: the array is handed out   *)
(* again without looking at how that request ended.                         *)
RequestSame(s) ==
  /\ stage = "idle"
  /\ last = s
  /\ pj_errno' = IF count = 0 THEN -38 ELSE 0
  /\ ListReturn(max > 0, count)
  /\ UNCHANGED <<disk, grid_list, cacheVars>>

(* Fault: the count of the previous string survives.                        *)
RequestNewKeepsCount(s) ==
  /\ stage = "idle"
  /\ last # s
  /\ last' = s
  /\ pj_errno' = 0
  /\ rest' = s
  /\ stage' = "entry"
  /\ UNCHANGED <<disk, grid_list, slots, count, max, mergeVars, result>>

RequestNew(s) ==
  /\ stage = "idle"
  /\ last # s
  /\ last' = s
  /\ count' = 0
  /\ pj_errno' = 0
  /\ rest' = s
  /\ stage' = "entry"
  /\ UNCHANGED <<disk, grid_list, slots, max, mergeVars, result>>

NextEntry ==
  /\ stage = "entry"
  /\ rest # <<>>
  /\ Head(rest).fits
  /\ entry' = Head(rest)
  /\ rest' = Tail(rest)
  /\ cursor' = 1
  /\ got_match' = FALSE
  /\ stage' = "merge"
  /\ UNCHANGED <<disk, grid_list, cacheVars, pj_errno, result>>

EntryTooLong ==
  /\ stage = "entry"
  /\ rest # <<>>
  /\ ~Head(rest).fits
  /\ pj_errno' = -38
  /\ ListReturn(FALSE, 0)
  /\ UNCHANGED <<disk, grid_list, cacheVars>>

Finish ==
  /\ stage = "entry"
  /\ rest = <<>>
  /\ ListReturn(count > 0, count)
  /\ UNCHANGED <<disk, grid_list, cacheVars, pj_errno>>

(***************************************************************************)
(* pj_gridlist_merge_gridfile, one iteration of its loop at a time          *)
(***************************************************************************)
(* Fault: a required grid that cannot be had is passed over.                *)
MergeReturnsIgnoresRequired(ok) ==
  /\ pj_errno' = 0
  /\ stage' = "entry"
  /\ UNCHANGED <<rest, mergeVars, result>>

(* The caller's reaction to the value pj_gridlist_merge_gridfile returns.   *)
MergeReturns(ok) ==
  IF ok \/ ~entry.required
  THEN /\ pj_errno' = 0
       /\ stage' = "entry"
       /\ UNCHANGED <<rest, mergeVars, result>>
  ELSE /\ pj_errno' = -38
       /\ ListReturn(FALSE, 0)

AtGrid == stage = "merge" /\ cursor <= Len(grid_list)
AtEnd  == stage = "merge" /\ cursor > Len(grid_list)

(* Fault: the stub of a failed load is not recognised.                      *)
MatchesOnlyTables ==
  /\ grid_list[cursor].name = entry.name
  /\ HasTable(grid_list[cursor])

Matches == grid_list[cursor].name = entry.name

(* Fault: no room is kept for the terminating NULL.                         *)
NeedsRoomWhenFull == count >= max

NeedsRoom == count >= max - 2

Grown ==
  [i \in 0..max + SlotsAdded - 1 |-> IF i < max THEN slots[i] ELSE Junk]

(* Append the grid, keeping a NULL after the last used slot.                *)
AddMatch ==
  /\ AtGrid
  /\ Matches
  /\ HasTable(grid_list[cursor])
  /\ max' = IF NeedsRoom THEN max + SlotsAdded ELSE max
  /\ LET array == IF NeedsRoom THEN Grown ELSE slots
     IN  slots' = [array EXCEPT ![count] = grid_list[cursor],
                                ![count + 1] = NIL]
  /\ count' = count + 1
  /\ got_match' = TRUE
  /\ cursor' = cursor + 1
  /\ UNCHANGED <<disk, grid_list, last, pj_errno, stage, rest, entry, result>>

(* A stub: the file failed to load earlier, so it is not tried again.       *)
MatchStub ==
  /\ AtGrid
  /\ Matches
  /\ ~HasTable(grid_list[cursor])
  /\ MergeReturns(FALSE)
  /\ UNCHANGED <<disk, grid_list, cacheVars>>

SkipGrid ==
  /\ AtGrid
  /\ ~Matches
  /\ cursor' = cursor + 1
  /\ UNCHANGED <<disk, grid_list, cacheVars, pj_errno, stage, rest, entry, got_match,
                 result>>

MergeDone ==
  /\ AtEnd
  /\ got_match
  /\ MergeReturns(TRUE)
  /\ UNCHANGED <<disk, grid_list, cacheVars>>

(* Fault: a file that cannot be opened yields no stub.                      *)
LoadedWithoutStub(n) == [i \in 1..disk[n] |-> [name |-> n, sub |-> i]]

(* pj_gridinfo_init: the grids of the file, or a lone stub.                 *)
Loaded(n) ==
  IF disk[n] = 0
  THEN <<[name |-> n, sub |-> 0]>>
  ELSE [i \in 1..disk[n] |-> [name |-> n, sub |-> i]]

(* Nothing matched: load the file behind the tail, then scan again.         *)
LoadGrid ==
  /\ AtEnd
  /\ ~got_match
  /\ grid_list' = grid_list \o Loaded(entry.name)
  /\ pj_errno' \in IF disk[entry.name] = 0 THEN OpenErrors ELSE {0, -38}
  /\ cursor' = 1
  /\ UNCHANGED <<disk, cacheVars, stage, rest, entry, got_match, result>>

(***************************************************************************)
(* pj_deallocate_grids, and the file system around the library              *)
(***************************************************************************)
(* Fault: the cached answer outlives the grids.                             *)
DeallocateKeepsCache ==
  /\ stage = "idle"
  /\ grid_list' = <<>>
  /\ UNCHANGED <<disk, cacheVars, pj_errno, stage, rest, mergeVars, result>>

Deallocate ==
  /\ stage = "idle"
  /\ grid_list' = <<>>
  /\ IF last # NIL
     THEN /\ last' = NIL
          /\ slots' = [i \in 0..-1 |-> Junk]
          /\ count' = 0
          /\ max' = 0
     ELSE UNCHANGED cacheVars
  /\ UNCHANGED <<disk, pj_errno, stage, rest, mergeVars, result>>

(* A grid file is installed, removed or replaced.                           *)
DiskChange(n, k) ==
  /\ disk[n] # k
  /\ disk' = [disk EXCEPT ![n] = k]
  /\ UNCHANGED <<grid_list, cacheVars, pj_errno, stage, rest, mergeVars, result>>

Request(s) == RequestSame(s) \/ RequestNew(s)

Merge == AddMatch \/ MatchStub \/ SkipGrid \/ MergeDone \/ LoadGrid

ListStep == NextEntry \/ EntryTooLong \/ Finish \/ Merge

ListNext ==
  \/ \E s \in NadGrids : Request(s)
  \/ ListStep
  \/ Deallocate
  \/ \E n \in Name, k \in 0..MaxSub : DiskChange(n, k)

(* A call that has begun is run to its end by its caller's thread.          *)
ListSpec == ListInit /\ [][ListNext]_listVars /\ WF_listVars(ListStep)

-----------------------------------------------------------------------------
(* Every slot of the answer in the making is a grid that is alive and has a *)
(* header table: deallocation never leaves the array pointing at freed      *)
(* grids, and a stub is never handed to pj_apply_gridshift.                 *)
NoDangling ==
  \A i \in 0..count - 1 :
    /\ \E k \in 1..Len(grid_list) : grid_list[k] = slots[i]
    /\ HasTable(slots[i])

(* The array is grown before it is full: the grids in use and the NULL      *)
(* behind them lie inside what pj_malloc returned, whatever sequence of     *)
(* requests, failures and deallocations came before.                        *)
SlotsInBounds ==
  /\ count > 0 => count < max /\ slots[count] = NIL
  /\ last = NIL => max = 0 /\ count = 0

(* Every variable has its type, and the array its place.                    *)
CatalogueSound == ListTypeOK /\ SlotsInBounds

(* No file is loaded a second time while its grids, or the stub that        *)
(* records its failure, are still on the list: the scan that precedes a     *)
(* load sees every earlier one, also those of its own recursion.            *)
LoadedOnce ==
  \A i, j \in 1..Len(grid_list) : grid_list[i] = grid_list[j] => i = j

(* Of each first n grids of a list, those of one name with a table, in order. *)
TablesOf(grids, name) ==
  LET upTo[n \in 0..Len(grids)] ==
        IF n = 0 THEN <<>>
        ELSE IF grids[n].name = name /\ HasTable(grids[n]) THEN Append(upTo[n - 1], grids[n])
        ELSE upTo[n - 1]
  IN upTo

(* What a list offers for each first n entries of a string, in their order. *)
OfferedBy(grids, s) ==
  LET upTo[n \in 0..Len(s)] ==
        IF n = 0 THEN <<>> ELSE upTo[n - 1] \o TablesOf(grids, s[n].name)[Len(grids)]
  IN upTo

(* The grids the loaded files offer for a string, in the order it names.    *)
Offered(s) == OfferedBy(grid_list, s)[Len(s)]

Answer == [i \in 1..count |-> slots[i - 1]]

HasRequired ==
  \A i \in 1..Len(last) :
    last[i].required => \E k \in 1..count : Answer[k].name = last[i].name

(* At every moment the array holds a prefix of what its string asks for, in *)
(* the string's order, also after a request that failed half way and after  *)
(* the files on disk have changed.                                          *)
AnswerInOrder == last # NIL => IsPrefix(Answer, Offered(last))

(* A request that is built to the end leaves nothing out, and no required   *)
(* file is missing from it.                                                 *)
AnswerComplete == [][Finish => Answer = Offered(last) /\ HasRequired]_listVars

(* Every call returns: loading a file leaves at least a stub for the        *)
(* recursive scan to find, so the recursion ends.                           *)
RequestReturns == (stage # "idle") ~> (stage = "idle")

(* NEWS: a grid is optional when prefixed with "@"; so a caller that is     *)
(* given a list has every grid it did not mark optional.  The code breaks   *)
(* this on a repeated request.                                              *)
RequiredGrids == result.list /\ stage = "idle" /\ last # NIL => HasRequired
=============================================================================
