-------------------------- MODULE IntervalIndexes ---------------------------
(***************************************************************************)
(* Three indexes of intervals that are made from all entries at once, at   *)
(* the first question: the trees SIRtree and SortedPackedIntervalRTree,    *)
(* and SweepLineIndex.                                                     *)
(***************************************************************************)
EXTENDS IndexState

-----------------------------------------------------------------------------
(***************************************************************************)
(* SIRtree: the one-dimensional relative of STRtree.  Entries are sorted   *)
(* by their centres and packed level by level, at the first query.         *)
(*                                                                         *)
(* Two things set it apart from STRtree.  A child that finds the last node *)
(* full makes place for a new node but is then added to the full one.  And *)
(* the bounds of a node start from a copy of its first child's, where the  *)
(* copying constructor of Interval builds a second object and leaves the   *)
(* one it is called for as the heap held it (Leftovers).                   *)
(*                                                                         *)
(* A node is [kids, bounds]; a leaf of the model is an entry, [id, bounds]. *)
(***************************************************************************)

CONSTANTS
    SIRNodeCapacity,  \* nodeCapacity
    Leftovers      \* what a fresh Interval may hold: intervals [lo, hi]

ASSUME SIRCapacityAssumption == SIRNodeCapacity \in Nat /\ SIRNodeCapacity > 1

VARIABLES
    sirLevel,   \* boundablesOfALevel: what the build has packed so far
    sirRoot     \* <<>> before the tree is built, then <<root>>

sirVars == <<sirLevel, sirRoot>>

IsSIR == kind = "sirtree"

Unset == [null |-> TRUE]   \* bounds that nobody has asked for

IsNode(c) == "kids" \in DOMAIN c

\* Interval::getCentre, without the division by two
MidPoint(i) == i.lo + i.hi

\* computeBounds, given what the heap held: all children but the first widen
\* it, and a node without children has no bounds.
SIRComputeBounds(n, left) ==
    IF n.kids = <<>> THEN Unset
    ELSE FoldLeft(LAMBDA i, c : Expand(<<i>>, <<c.bounds>>)[1], left, Tail(n.kids))

\* getBounds on every node of a level; entries have theirs
Measured(level) ==
    LET heaps == IF IsNode(level[1]) THEN [DOMAIN level -> Leftovers] ELSE {<<>>}
    IN  {[k \in DOMAIN level |->
            IF IsNode(level[k]) /\ level[k].bounds = Unset
            THEN [level[k] EXCEPT !.bounds = SIRComputeBounds(level[k], heap[k])]
            ELSE level[k]] : heap \in heaps}

\* sortBoundables: the orders std::sort may produce
RECURSIVE SortedByCentre(_)
SortedByCentre(cs) ==
    IF Cardinality(cs) < 2 THEN {SetToSeq(cs)}
    ELSE UNION {{<<c>> \o s : s \in SortedByCentre(cs \ {c})}
                  : c \in {d \in cs : \A e \in cs : MidPoint(d.bounds) <= MidPoint(e.bounds)}}

\* Fault: the child that does not fit is not added at all.
AddChildLost(groups, c) ==
    IF Len(Last(groups)) = SIRNodeCapacity THEN Append(groups, <<>>)
    ELSE [groups EXCEPT ![Len(groups)] = Append(@, c)]

\* createParentBoundables' loop body: lNode was taken before the new node
AddChild(groups, c) ==
    LET added == [groups EXCEPT ![Len(groups)] = Append(@, c)]
    IN  IF Len(Last(groups)) = SIRNodeCapacity THEN Append(added, <<>>) ELSE added

SIRInsert(b) ==
    /\ IsSIR /\ sirRoot = <<>>
    /\ Enter(b)
    /\ UNCHANGED sirVars

SIRLevel ==
    IF sirLevel # <<>> THEN sirLevel
    ELSE [i \in DOMAIN entries |-> [id |-> i, bounds |-> entries[i][1]]]

\* build and one turn of createHigherLevels.  Sorting two boundables or more
\* asks all of them for their bounds; a node left empty has none to compare.
SIRBuild ==
    /\ IsSIR /\ request # NoRequest /\ sirRoot = <<>> /\ outcome # "crashed"
    /\ entries # <<>>
    /\ \E level \in (IF Len(SIRLevel) = 1 THEN {SIRLevel} ELSE Measured(SIRLevel)) :
         IF \E k \in DOMAIN level : Len(level) > 1 /\ level[k].bounds = Unset
         THEN outcome' = "crashed" /\ UNCHANGED sirVars
         ELSE /\ \E sorted \in SortedByCentre(Range(level)) :
                   LET groups == FoldLeft(AddChild, << <<>> >>, sorted)
                       made   == [k \in DOMAIN groups |-> [kids |-> groups[k], bounds |-> Unset]]
                   IN  IF Len(made) = 1
                       THEN sirRoot' = made /\ sirLevel' = <<>>
                       ELSE sirLevel' = made /\ UNCHANGED sirRoot
              /\ UNCHANGED outcome
    /\ UNCHANGED <<kind, entries, request, reply>>

\* Without entries the tree is one node without children; a query follows its
\* NULL bounds.
SIRQueryEmpty ==
    /\ IsSIR /\ Asked("query") /\ entries = <<>>
    /\ outcome' = "crashed"
    /\ UNCHANGED <<kind, entries, request, reply, sirLevel, sirRoot>>

\* query: the entries found below a node
RECURSIVE SIRFound(_, _)
SIRFound(n, b) ==
    UNION {IF IsNode(c) THEN SIRFound(c, b) ELSE {c.id} :
              c \in {k \in Range(n.kids) : EnvelopesMeet(<<k.bounds>>, b)}}

\* The bounds of every node but the root were asked for by the sort.
SIRQuery ==
    /\ IsSIR /\ Asked("query") /\ sirRoot # <<>>
    /\ \E measured \in Measured(sirRoot) :
         /\ sirRoot' = measured
         /\ Reply([op |-> "query",
                   found |-> IF EnvelopesMeet(<<measured[1].bounds>>, request.box)
                             THEN SIRFound(measured[1], request.box) ELSE {}])
    /\ UNCHANGED sirLevel

InitSIR == sirLevel = <<>> /\ sirRoot = <<>>

SIRServe == SIRBuild \/ SIRQueryEmpty \/ SIRQuery

-----------------------------------------------------------------------------
(* Properties                                                              *)

RECURSIVE LeavesBelow(_)
LeavesBelow(n) == IF IsNode(n) THEN FlattenSeq([k \in DOMAIN n.kids |-> LeavesBelow(n.kids[k])])
                  ELSE <<n.id>>

RECURSIVE NodesUnder(_)
NodesUnder(n) == IF IsNode(n) THEN {n} \cup UNION {NodesUnder(k) : k \in Range(n.kids)} ELSE {}

\* Although children go to a node that is full, the packing loses none and
\* repeats none: a level that is being packed and the finished tree hold every
\* entry once, and no node that is searched has more than one child too many.
SIRWhole ==
    LET packed == IF sirRoot # <<>> THEN sirRoot ELSE sirLevel
        leaves == FlattenSeq([k \in DOMAIN packed |-> LeavesBelow(packed[k])])
    IN  packed # <<>> =>
          /\ Range(leaves) = DOMAIN entries /\ Len(leaves) = Len(entries)
          /\ \A n \in UNION {NodesUnder(p) : p \in Range(packed)} :
                Len(n.kids) <= SIRNodeCapacity + 1

\* The build fails exactly where the node that was made for a child that did
\* not fit stayed empty: when the entries, or the nodes of a level, are a
\* multiple of one more than the capacity (createParentBoundables).
SIRFailsOnFullGroups ==
    (IsSIR /\ outcome = "crashed" /\ entries # <<>>) =>
        LET count == Cardinality({k \in DOMAIN sirLevel : sirLevel[k].kids # <<>>})
            below == FlattenSeq([k \in DOMAIN sirLevel |-> sirLevel[k].kids])
        IN  /\ Len(sirLevel) = count + 1
            /\ Len(below) = count * (SIRNodeCapacity + 1)

-----------------------------------------------------------------------------
(***************************************************************************)
(* SortedPackedIntervalRTree: leaves sorted by the middle of their         *)
(* interval, largest first, and joined two by two, level by level, at the  *)
(* first query.  Inserting afterwards throws.  A leaf is [id, lo, hi], a   *)
(* branch [left, right, lo, hi].                                           *)
(***************************************************************************)

VARIABLES
    srcNodes,         \* buildTree's source level, once the build has begun
    building,    \* the build has begun
    packedRoot   \* <<>> (NULL) or <<root>>

packedVars == <<srcNodes, building, packedRoot>>

IsPacked == kind = "packed"

IsBranch(n) == "left" \in DOMAIN n

\* IntervalRTreeBranchNode
Branch(n1, n2) ==
    [left |-> n1, right |-> n2, lo |-> Lower(n1.lo, n2.lo), hi |-> Higher(n1.hi, n2.hi)]

\* buildLevel: an odd last node goes up as it is
PackedBuildLevel(level) ==
    [k \in 1..((Len(level) + 1) \div 2) |->
        IF 2 * k <= Len(level) THEN Branch(level[2 * k - 1], level[2 * k])
        ELSE level[2 * k - 1]]

Leaves == {[id |-> i, lo |-> entries[i][1].lo, hi |-> entries[i][1].hi] : i \in DOMAIN entries}

\* compare: the orders std::sort may leave the leaves in
RECURSIVE SortedLeaves(_)
SortedLeaves(ls) ==
    IF ls = {} THEN {<<>>}
    ELSE UNION {{<<l>> \o s : s \in SortedLeaves(ls \ {l})}
                  : l \in {m \in ls : \A n \in ls : m.lo + m.hi >= n.lo + n.hi}}

PackedInsert(b) ==
    /\ IsPacked /\ packedRoot = <<>>
    /\ Enter(b)
    /\ UNCHANGED packedVars

\* insert once the tree is built
PackedRefuse ==
    /\ IsPacked /\ packedRoot # <<>> /\ request = NoRequest
    /\ outcome' = "refused"
    /\ UNCHANGED <<kind, entries, request, reply, packedVars>>

\* init, buildTree: the sort ...
PackedSort ==
    /\ IsPacked /\ Asked("query") /\ packedRoot = <<>> /\ ~building
    /\ srcNodes' \in SortedLeaves(Leaves)
    /\ building' = TRUE
    /\ UNCHANGED <<indexVars, packedRoot>>

\* Fault: source and destination are not exchanged.
PackedTurnUnswapped ==
    /\ IsPacked /\ Asked("query") /\ building
    /\ IF Len(PackedBuildLevel(srcNodes)) = 1
       THEN packedRoot' = PackedBuildLevel(srcNodes) /\ srcNodes' = <<>> /\ building' = FALSE
       ELSE UNCHANGED packedVars
    /\ UNCHANGED indexVars

\* ... and one turn of the loop, which ends when a level has one node.
PackedTurn ==
    /\ IsPacked /\ Asked("query") /\ building
    /\ LET dest == PackedBuildLevel(srcNodes)
       IN  IF Len(dest) = 1
           THEN packedRoot' = dest /\ srcNodes' = <<>> /\ building' = FALSE
           ELSE srcNodes' = dest /\ UNCHANGED <<packedRoot, building>>
    /\ UNCHANGED indexVars

\* Fault: leaves are taken as they come.
RECURSIVE PackedFoundLoose(_, _)
PackedFoundLoose(n, b) ==
    IF ~IsBranch(n) THEN {n.id}
    ELSE IF n.lo > b.hi \/ n.hi < b.lo THEN {}
    ELSE PackedFoundLoose(n.left, b) \cup PackedFoundLoose(n.right, b)

\* IntervalRTreeBranchNode::query, IntervalRTreeLeafNode::query
RECURSIVE PackedFound(_, _)
PackedFound(n, b) ==
    IF n.lo > b.hi \/ n.hi < b.lo THEN {}
    ELSE IF IsBranch(n) THEN PackedFound(n.left, b) \cup PackedFound(n.right, b)
    ELSE {n.id}

PackedQuery ==
    /\ IsPacked /\ Asked("query") /\ packedRoot # <<>>
    /\ Reply([op |-> "query", found |-> PackedFound(packedRoot[1], request.box[1])])
    /\ UNCHANGED packedVars

InitPacked == srcNodes = <<>> /\ building = FALSE /\ packedRoot = <<>>

PackedServe == PackedSort \/ PackedTurn \/ PackedQuery

-----------------------------------------------------------------------------
(***************************************************************************)
(* SweepLineIndex: each interval adds the event that inserts it and the    *)
(* event that deletes it; computeOverlaps sorts the events once, tells     *)
(* every inserting event where its deleting event stands, and reports for  *)
(* each interval all those that are inserted before it is deleted.         *)
(*                                                                         *)
(* Neither the flag indexBuilt nor the place of the deleting event is      *)
(* initialised: each holds what the heap held (Places, and either truth    *)
(* value).  Reading an event behind the last one crashes.                  *)
(***************************************************************************)

CONSTANT Places   \* what a fresh deleteEventIndex may hold, as an index of events

VARIABLES
    events,       \* [x, type, of]: type 1 inserts and 2 deletes interval "of"
    indexBuilt,   \* the flag
    deleteEvent,  \* for each interval the index of its deleting event
    sortedLen     \* how many events had been added when they were sorted

sweepVars == <<events, indexBuilt, deleteEvent, sortedLen>>

IsSweep == kind = "sweepline"

\* Fault: at one place intervals end before others begin.
PrecedesDeleteFirst(e, f) == e.x < f.x \/ (e.x = f.x /\ e.type > f.type)

\* compareTo
Precedes(e, f) == e.x < f.x \/ (e.x = f.x /\ e.type < f.type)

\* The orders std::sort may leave a set of events in
RECURSIVE SortedEvents(_)
SortedEvents(es) ==
    IF es = {} THEN {<<>>}
    ELSE UNION {{<<e>> \o s : s \in SortedEvents(es \ {e})}
                  : e \in {d \in es : \A f \in es : ~Precedes(f, d)}}

\* add
SweepAdd(b) ==
    /\ IsSweep
    /\ Enter(b)
    /\ events' = events \o <<[x |-> b[1].lo, type |-> 1, of |-> Len(entries) + 1],
                             [x |-> b[1].hi, type |-> 2, of |-> Len(entries) + 1]>>
    /\ \E place \in Places : deleteEvent' = Append(deleteEvent, place)
    /\ UNCHANGED <<indexBuilt, sortedLen>>

\* buildIndex
SweepBuild ==
    /\ IsSweep /\ Asked("overlaps") /\ ~indexBuilt
    /\ \E s \in SortedEvents(Range(events)) :
         /\ events' = s
         /\ deleteEvent' = [i \in DOMAIN entries |->
                               CHOOSE k \in DOMAIN s : s[k].type = 2 /\ s[k].of = i]
    /\ indexBuilt' = TRUE
    /\ sortedLen' = Len(events)
    /\ UNCHANGED indexVars

\* processOverlaps: the intervals inserted from an inserting event up to the
\* deleting one
ReportedBy(k) ==
    LET s0    == events[k].of
        swept == [j \in 1..Higher(0, deleteEvent[s0] - k) |-> events[k + j - 1]]
        begun == SelectSeq(swept, LAMBDA e : e.type = 1)
    IN  [j \in DOMAIN begun |-> <<s0, begun[j].of>>]

Begins == SelectSeq([k \in DOMAIN events |-> k], LAMBDA k : events[k].type = 1)

\* computeOverlaps
SweepOverlaps ==
    /\ IsSweep /\ Asked("overlaps") /\ indexBuilt
    /\ \A k \in DOMAIN events : events[k].type = 1 => deleteEvent[events[k].of] <= Len(events) + 1
    /\ Reply([op |-> "overlaps",
              pairs |-> FlattenSeq([k \in DOMAIN Begins |-> ReportedBy(Begins[k])])])
    /\ UNCHANGED sweepVars

\* The sweep runs beyond the last event.
SweepOverrun ==
    /\ IsSweep /\ Asked("overlaps") /\ indexBuilt
    /\ \E k \in DOMAIN events : events[k].type = 1 /\ deleteEvent[events[k].of] > Len(events) + 1
    /\ outcome' = "crashed"
    /\ UNCHANGED <<kind, entries, request, reply, sweepVars>>

InitSweep ==
    /\ events = <<>>
    /\ IF IsSweep THEN indexBuilt \in BOOLEAN ELSE indexBuilt = FALSE
    /\ deleteEvent = <<>>
    /\ sortedLen = 0

SweepServe == SweepBuild \/ SweepOverlaps \/ SweepOverrun

-----------------------------------------------------------------------------
(* Properties                                                              *)

\* "It is used to compute all overlaps between the interval in the index": two
\* intervals that meet, be it in one point, are reported exactly once, in one
\* order, and no others, where each interval meets itself.  This needs a flag
\* that happened to be false and nothing added after the first answer.
OverlapsOnce ==
    (reply.op = "overlaps" /\ sortedLen = Len(events)) =>
        /\ \A i, j \in DOMAIN entries :
             Cardinality({k \in DOMAIN reply.pairs :
                             {reply.pairs[k][1], reply.pairs[k][2]} = {i, j}})
               = IF EnvelopesMeet(entries[i], entries[j]) THEN 1 ELSE 0
=============================================================================
