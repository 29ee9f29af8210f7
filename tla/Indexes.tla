------------------------------ MODULE Indexes -------------------------------
(***************************************************************************)
(* One index of any of the kinds: its operations, what every kind promises *)
(* (SpatialIndex) and that its calls come to an end.                       *)
(***************************************************************************)
EXTENDS DyadicTree, IntervalIndexes

allVars == <<indexVars, dyadicVars, sirVars, packedVars, sweepVars>>

IndexesInit ==
    /\ InitIndex
    /\ InitDyadic
    /\ InitSIR
    /\ InitPacked
    /\ InitSweep

OthersThanDyadic == <<sirVars, packedVars, sweepVars>>
OthersThanSIR    == <<dyadicVars, packedVars, sweepVars>>
OthersThanPacked == <<dyadicVars, sirVars, sweepVars>>
OthersThanSweep  == <<dyadicVars, sirVars, packedVars>>

IndexInsert(b) ==
    \/ DyadicInsert(b) /\ UNCHANGED OthersThanDyadic
    \/ SIRInsert(b) /\ UNCHANGED OthersThanSIR
    \/ PackedInsert(b) /\ UNCHANGED OthersThanPacked
    \/ SweepAdd(b) /\ UNCHANGED OthersThanSweep

IndexServe ==
    \/ DyadicServe /\ UNCHANGED OthersThanDyadic
    \/ SIRServe /\ UNCHANGED OthersThanSIR
    \/ PackedServe /\ UNCHANGED OthersThanPacked
    \/ SweepServe /\ UNCHANGED OthersThanSweep

Queries == {[op |-> "query", box |-> b] : b \in Envelopes}

\* The operations a kind has
IndexCalls ==
    CASE kind = "bintree"   -> Queries \cup {[op |-> "iterator"]}
      [] kind = "quadtree"  -> Queries \cup {[op |-> "items"]}
            \cup {[op |-> "remove", box |-> b, item |-> i] : b \in Envelopes, i \in DOMAIN entries}
      [] kind = "sweepline" -> {[op |-> "overlaps"]}
      [] OTHER              -> Queries

IndexCall == \E c \in IndexCalls : Ask(c) /\ UNCHANGED <<dyadicVars, sirVars, packedVars, sweepVars>>

IndexesNext ==
    \/ \E b \in Envelopes : IndexInsert(b)
    \/ IndexCall
    \/ IndexServe
    \/ PackedRefuse /\ UNCHANGED OthersThanPacked

\* A call, once made, runs to its end in the caller's thread.  Only the packed
\* interval tree loops until something it computes comes true.
IndexesSpec == IndexesInit /\ [][IndexesNext]_allVars /\ WF_allVars(PackedServe /\ UNCHANGED OthersThanPacked)

-----------------------------------------------------------------------------
(* Properties                                                              *)

\* The kinds that keep what SpatialIndex promises
Promising == kind \in {"bintree", "quadtree", "packed"}

\* The entries an index holds
IndexStored == IF IsDyadic THEN ItemsBelow(dyadicRoot) ELSE DOMAIN entries

MostItems == CHOOSE n \in {MaxEntries[k] : k \in IndexKinds} : \A k \in IndexKinds : MaxEntries[k] <= n

Promise == INSTANCE SpatialIndex WITH
    Boxes    <- UNION {Extents[k] : k \in IndexKinds},
    MaxItems <- MostItems,
    Exact   <- FALSE,
    Meets   <- EnvelopesMeet,
    entries <- IF Promising THEN entries ELSE <<>>,
    stored  <- IF Promising THEN IndexStored ELSE {},
    call    <- IF ~Promising THEN NoRequest
               ELSE IF request.op = "iterator" THEN [op |-> "items"] ELSE request,
    answer  <- IF ~Promising THEN NoReply
               ELSE IF reply.op = "iterator" THEN [op |-> "items", found |-> IndexStored]
               ELSE reply

\* A binary tree, a quadtree and a packed interval tree are spatial indexes:
\* whatever was inserted, in which order, and removed, a query finds every
\* entry whose envelope meets the one searched, and a removal takes the named
\* entry and nothing else.  What Bintree::iterator returns, nothing at all, is
\* not held against it here: the mapping gives it the answer it should have.
IndexContract == Promise!Spec

\* Those that pack their entries compare each with the search interval: even a
\* SIRtree whose nodes have wrong bounds returns nothing that does not meet it.
AnswersMeet ==
    [][ (kind \in {"packed", "sirtree"} /\ request.op = "query" /\ reply'.op = "query") =>
            reply'.found \subseteq Hits(request.box) ]_reply

\* buildTree's endless loop is left, whatever the number of leaves, because
\* joining them two by two comes down to one node; except that of no leaves,
\* which stays none for ever.
HalvingEnds == (IsPacked /\ request # NoRequest) ~> (request = NoRequest \/ entries = <<>>)

\* Every variable has its type, and entries are held once.
IndexesTypeOK ==
    /\ kind \in IndexKinds
    /\ entries \in Seq(Envelopes) /\ Len(entries) <= MaxEntries[kind]
    /\ outcome \in {"ok", "refused", "crashed"}
    /\ minExtent \in 1..DefaultExtent
    /\ IndexStored \subseteq DOMAIN entries
    /\ IsSweep => Len(events) = 2 * Len(entries) /\ Len(deleteEvent) = Len(entries)

\* The nodes of a binary tree or quadtree halve the node above them, hold only
\* what lies in their box, and are gone once removals have emptied them.
DyadicSound == PartsNest /\ HeldInBox /\ NothingBarren

\* Trees hold what they were given: a SIRtree packs every entry, and fails to
\* exactly when a level fills its groups with one child to spare.
TreesSound == IndexesTypeOK /\ DyadicSound /\ SIRWhole /\ SIRFailsOnFullGroups
=============================================================================
