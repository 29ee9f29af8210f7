---------------------------- MODULE SpatialIndex ----------------------------
(***************************************************************************)
(* What every GEOS spatial index promises its callers (the abstract class  *)
(* SpatialIndex: insert, query, remove): an index is a set of entries, a   *)
(* query finds every entry whose envelope meets the search envelope, and a *)
(* removal takes out the named entry and nothing else.  An index may answer *)
(* a query with more than that ("some kinds of indexes may also return     *)
(* objects which do not in fact intersect"): Exact says it does not.       *)
(* Entries are numbered in the order of their insertion.                   *)
(***************************************************************************)
EXTENDS Integers, Sequences

CONSTANTS
    Boxes,        \* the envelopes entries and searches use
    MaxItems,     \* bound: the number of insertions
    Exact,        \* TRUE if a query finds nothing but what it was asked for
    Meets(_, _)   \* whether two envelopes intersect

VARIABLES
    entries,      \* the envelope of every entry inserted so far
    stored,       \* the entries that are in the index
    call,         \* the operation in progress
    answer        \* what the last operation returned

vars == <<entries, stored, call, answer>>

NoCall   == [op |-> "none"]
NoAnswer == [op |-> "none"]

Init ==
    /\ entries = <<>>
    /\ stored = {}
    /\ call = NoCall
    /\ answer = NoAnswer

\* insert(itemEnv, item)
Insert(b) ==
    /\ call = NoCall
    /\ Len(entries) < MaxItems
    /\ entries' = Append(entries, b)
    /\ stored' = stored \cup {Len(entries) + 1}
    /\ answer' = NoAnswer
    /\ UNCHANGED call

\* An operation is called ...
Call(c) ==
    /\ call = NoCall
    /\ call' = c
    /\ answer' = NoAnswer
    /\ UNCHANGED <<entries, stored>>

Calls ==
    {[op |-> "query", box |-> b] : b \in Boxes}
      \cup {[op |-> "remove", box |-> b, item |-> i] : b \in Boxes, i \in 1..MaxItems}
      \cup {[op |-> "items"]}

Hits(b) == {i \in stored : Meets(entries[i], b)}

\* ... and answers: query(searchEnv, matches)
AnswerQuery(found) ==
    /\ call.op = "query"
    /\ Hits(call.box) \subseteq found
    /\ found \subseteq (IF Exact THEN Hits(call.box) ELSE stored)
    /\ answer' = [op |-> "query", found |-> found]
    /\ call' = NoCall
    /\ UNCHANGED <<entries, stored>>

\* remove(itemEnv, item): an entry named with its own envelope is found; one
\* named with another envelope may be found or not.
AnswerRemove(found) ==
    /\ call.op = "remove"
    /\ found => call.item \in stored
    /\ (call.item \in stored /\ call.box = entries[call.item]) => found
    /\ stored' = IF found THEN stored \ {call.item} ELSE stored
    /\ answer' = [op |-> "remove", found |-> found]
    /\ call' = NoCall
    /\ UNCHANGED entries

\* itemsTree(): everything the index holds
AnswerItems ==
    /\ call.op = "items"
    /\ answer' = [op |-> "items", found |-> stored]
    /\ call' = NoCall
    /\ UNCHANGED <<entries, stored>>

Next ==
    \/ \E b \in Boxes : Insert(b)
    \/ \E c \in Calls : Call(c)
    \/ \E found \in SUBSET (1..MaxItems) : AnswerQuery(found)
    \/ \E found \in BOOLEAN : AnswerRemove(found)
    \/ AnswerItems

Spec == Init /\ [][Next]_vars
=============================================================================
