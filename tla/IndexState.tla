----------------------------- MODULE IndexState -----------------------------
(***************************************************************************)
(* What the smaller indexes of GEOS have in common: entries are inserted   *)
(* under an envelope, a caller asks, the index answers.  One index of one  *)
(* kind is followed; an envelope is a tuple of intervals, one per axis.    *)
(***************************************************************************)
EXTENDS Integers, Sequences, FiniteSets, SequencesExt

CONSTANTS
    IndexKinds,      \* the kinds of index that are followed
    Extents,    \* the envelopes used with each kind: <<[lo, hi]>>, and
                \* <<[lo, hi], [lo, hi]>> for the quadtree
    MaxEntries    \* bound: the number of insertions into an index of each kind

\* Ends of intervals are even: the trees that pad an interval halve its width.
ASSUME EnvelopesAssumption ==
    \A b \in UNION {Extents[k] : k \in IndexKinds} : \A d \in DOMAIN b :
        /\ b[d].lo \in Int /\ b[d].hi \in Int /\ b[d].lo <= b[d].hi
        /\ b[d].lo % 2 = 0 /\ b[d].hi % 2 = 0

VARIABLES
    kind,     \* the kind of index
    entries,  \* the envelope of entry i
    request,     \* the operation the caller is waiting for
    reply,   \* what the last operation returned
    outcome   \* "ok", "refused" (an exception) or "crashed" (a NULL was followed)

indexVars == <<kind, entries, request, reply, outcome>>

NoRequest   == [op |-> "none"]
NoReply == [op |-> "none"]

Envelopes == Extents[kind]

\* overlaps, intersects: closed envelopes that share a point
EnvelopesMeet(a, b) == \A d \in DOMAIN a : ~(a[d].lo > b[d].hi \/ a[d].hi < b[d].lo)

\* contains
Within(a, b) == \A d \in DOMAIN a : b[d].lo <= a[d].lo /\ a[d].hi <= b[d].hi

Lower(a, b)  == IF a <= b THEN a ELSE b
Higher(a, b) == IF a <= b THEN b ELSE a

\* expandToInclude
Expand(a, b) ==
    [d \in DOMAIN a |-> [lo |-> Lower(a[d].lo, b[d].lo), hi |-> Higher(a[d].hi, b[d].hi)]]

Hits(b) == {i \in DOMAIN entries : EnvelopesMeet(entries[i], b)}

InitIndex ==
    /\ kind \in IndexKinds
    /\ entries = <<>>
    /\ request = NoRequest
    /\ reply = NoReply
    /\ outcome = "ok"

\* A caller makes a call.
Ask(c) ==
    /\ request = NoRequest /\ outcome # "crashed"
    /\ request' = c
    /\ reply' = NoReply
    /\ outcome' = "ok"
    /\ UNCHANGED <<kind, entries>>

Asked(op) == request.op = op /\ outcome # "crashed"

\* A call returns.
Reply(a) ==
    /\ reply' = a
    /\ request' = NoRequest
    /\ UNCHANGED <<kind, entries, outcome>>

\* An entry is inserted.
Enter(b) ==
    /\ request = NoRequest /\ outcome # "crashed"
    /\ Len(entries) < MaxEntries[kind]
    /\ entries' = Append(entries, b)
    /\ reply' = NoReply
    /\ outcome' = "ok"
    /\ UNCHANGED <<kind, request>>
=============================================================================
