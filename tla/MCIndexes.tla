------------------------------ MODULE MCIndexes ------------------------------
(***************************************************************************)
(* TLC instance of the small indexes and of the STRtree: a behaviour is     *)
(* about one index, and the others stay empty.                               *)
(***************************************************************************)
EXTENDS Indexes, STRtree

CONSTANT Parts  \* "small" and "strtree"

VARIABLE part

-----------------------------------------------------------------------------
(* Indexes                                                                  *)

I(a, b) == [lo |-> a, hi |-> b]

\* On both sides of the origin and across it, without extent and with little,
\* touching and apart, and one so far out that the tree must grow
Far == {<<I(0, 0)>>, <<I(-2, 2)>>, <<I(2, 4)>>, <<I(4, 4)>>, <<I(-6, -4)>>, <<I(6, 10)>>}

\* Touching, apart and nested, with two of one centre
Near == {<<I(-2, 2)>>, <<I(2, 4)>>, <<I(4, 4)>>, <<I(0, 6)>>}

Rectangles ==
    {<<I(0, 0), I(2, 2)>>, <<I(2, 4), I(2, 4)>>, <<I(4, 6), I(4, 4)>>,
     <<I(-4, -2), I(2, 10)>>, <<I(-2, 2), I(-2, 0)>>, <<I(4, 14), I(2, 6)>>}

MCExtents ==
    [k \in IndexKinds |-> CASE k = "quadtree"            -> Rectangles
                            [] k = "bintree"             -> Far
                            [] OTHER                     -> Near]

MCLeftovers == {I(0, 0), I(-6, 10)}

\* The places an index of at most six events has, and one behind them
MCPlaces == {2, 9}

\* Permuting events and removing rectangles is dear, so these stay smaller.
MCMaxItems == [k \in IndexKinds |-> IF k \in {"sweepline", "quadtree"} THEN 3 ELSE 4]

-----------------------------------------------------------------------------
(* STRtree                                                                  *)

\* A low envelope, a high one that touches it, and a tall one beside both
\* whose centre lies between theirs.
MCBoxes ==
    {[x1 |-> 0, x2 |-> 0, y1 |-> 0, y2 |-> 1],
     [x1 |-> 0, x2 |-> 0, y1 |-> 1, y2 |-> 2],
     [x1 |-> 1, x2 |-> 1, y1 |-> 0, y2 |-> 2]}

\* The numbering of the items is arbitrary and the sort puts them in every
\* order their centres allow, so only insertions by growing centre are explored; and
\* at most two items with one envelope, which the sort may put in any order.
InOrder ==
    /\ \A j, k \in DOMAIN items : j < k => Centre(items[j]) <= Centre(items[k])
    /\ \A b \in Boxes : Cardinality({k \in DOMAIN items : items[k] = b}) <= 2

-----------------------------------------------------------------------------
(* One part at a time                                                       *)

\* The small indexes of an STRtree's behaviours are one empty index.
QuietIndex == IndexesInit /\ kind = CHOOSE k \in IndexKinds : TRUE

MCInit ==
  /\ part \in Parts
  /\ IF part = "small" THEN IndexesInit ELSE QuietIndex
  /\ Init

MCNext ==
  \/ part = "small" /\ IndexesNext /\ UNCHANGED <<part, vars>>
  \/ part = "strtree" /\ Next /\ UNCHANGED <<part, allVars>>

\* The fairness of the packed interval tree, the one shown to end something
MCSpec ==
  /\ MCInit
  /\ [][MCNext]_<<part, allVars, vars>>
  /\ WF_<<part, allVars, vars>>(
        part = "small" /\ PackedServe /\ UNCHANGED <<OthersThanPacked, part, vars>>)
=============================================================================
