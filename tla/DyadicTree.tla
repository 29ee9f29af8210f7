----------------------------- MODULE DyadicTree -----------------------------
(***************************************************************************)
(* Bintree and Quadtree: an interval or a square is halved along each of   *)
(* its axes as often as an entry still fits into one part, and the entry   *)
(* is held by the node it ends at.  The root is centred at the origin and  *)
(* holds what crosses an axis; below it stands at most one node for each   *)
(* side of every axis, replaced by a larger one when an entry does not fit. *)
(* The two classes are one algorithm over one and two axes.                *)
(*                                                                         *)
(* A node is [level, box, items, sub]: sub maps the parts that exist to    *)
(* their nodes, a part being a tuple of 0 (lower) and 1 (upper) per axis.  *)
(* Widths are so large against the coordinates that no padded envelope is  *)
(* taken for one without extent (IntervalSize::isZeroWidth).               *)
(***************************************************************************)
EXTENDS IndexState, TLC

CONSTANTS DefaultExtent   \* 1.0 in the unit of the coordinates

ASSUME ExtentAssumption == DefaultExtent \in Nat \ {0} /\ DefaultExtent % 2 = 0

VARIABLES
    dyadicRoot,       \* [items, sub]
    minExtent   \* the smallest width along the first axis met so far

dyadicVars == <<dyadicRoot, minExtent>>

IsDyadic == kind \in {"bintree", "quadtree"}

-----------------------------------------------------------------------------
(* Parts of a box                                                          *)

\* NodeBase::getSubnodeIndex along one axis, the centre being half of sum;
\* 2 if the interval lies on both sides
Side(i, sum) == IF 2 * i.hi <= sum THEN 0 ELSE IF 2 * i.lo >= sum THEN 1 ELSE 2

SubnodeIndex(env, box) == [d \in DOMAIN env |-> Side(env[d], box[d].lo + box[d].hi)]

InOnePart(q) == 2 \notin Range(q)

Half(i, side) ==
    LET centre == (i.lo + i.hi) \div 2
    IN  IF side = 0 THEN [lo |-> i.lo, hi |-> centre] ELSE [lo |-> centre, hi |-> i.hi]

\* createSubnode's interval or envelope
Part(box, q) ==
    IF Len(box) = 1 THEN <<Half(box[1], q[1])>>
    ELSE <<Half(box[1], q[1]), Half(box[2], q[2])>>

NewDyadicNode(level, box) == [level |-> level, box |-> box, items |-> {}, sub |-> <<>>]

CreateSubnode(node, q) == NewDyadicNode(node.level - 1, Part(node.box, q))

\* getSubnode
Subnode(node, q) == IF q \in DOMAIN node.sub THEN node.sub[q] ELSE CreateSubnode(node, q)

WithSubnode(node, q, child) == [node EXCEPT !.sub = (q :> child) @@ @]

-----------------------------------------------------------------------------
(* Key: the aligned box around an envelope                                 *)

MaxLevel == 12   \* no envelope of a run is wider than 2^12

Width(i) == i.hi - i.lo

\* computeLevel, computeQuadLevel: one more than the exponent of the width
ComputeLevel(env) ==
    LET widest == CHOOSE w \in {Width(env[d]) : d \in DOMAIN env} :
                      \A d \in DOMAIN env : Width(env[d]) <= w
    IN  1 + CHOOSE e \in 0..MaxLevel : 2 ^ e <= widest /\ widest < 2 ^ (e + 1)

\* computeInterval, computeKey(level, itemEnv)
KeyBox(level, env) ==
    [d \in DOMAIN env |->
        LET pt == (env[d].lo \div 2 ^ level) * 2 ^ level
        IN  [lo |-> pt, hi |-> pt + 2 ^ level]]

\* computeKey, createNode: the first level whose aligned box holds the envelope
CreateNode(env) ==
    LET level == CHOOSE l \in ComputeLevel(env)..MaxLevel :
                    /\ Within(env, KeyBox(l, env))
                    /\ \A k \in ComputeLevel(env)..(l - 1) : ~Within(env, KeyBox(k, env))
    IN  NewDyadicNode(level, KeyBox(level, env))

-----------------------------------------------------------------------------
(* Inserting                                                               *)

\* insertNode, Node::insert(Node*): nodes are made for the levels between
RECURSIVE InsertNode(_, _)
InsertNode(node, old) ==
    LET q == SubnodeIndex(old.box, node.box)
    IN  WithSubnode(node, q, IF old.level = node.level - 1 THEN old
                             ELSE InsertNode(CreateSubnode(node, q), old))

\* Fault: the node that was there is not moved below the larger one.
CreateExpandedBare(olds, env) ==
    LET old == CHOOSE o \in olds : TRUE
    IN  IF olds = {} THEN CreateNode(env) ELSE CreateNode(Expand(env, old.box))

\* createExpanded; olds holds the node that is there, if there is one
CreateExpanded(olds, env) ==
    LET old == CHOOSE o \in olds : TRUE
    IN  IF olds = {} THEN CreateNode(env)
        ELSE InsertNode(CreateNode(Expand(env, old.box)), old)

\* getNode and add
RECURSIVE AddBelow(_, _, _)
AddBelow(node, env, item) ==
    LET q == SubnodeIndex(env, node.box)
    IN  IF InOnePart(q)
        THEN WithSubnode(node, q, AddBelow(Subnode(node, q), env, item))
        ELSE [node EXCEPT !.items = @ \cup {item}]

Origin(env) == [d \in DOMAIN env |-> [lo |-> 0, hi |-> 0]]

\* Root::insert
RootInsert(env, item) ==
    LET q    == SubnodeIndex(env, Origin(env))
        olds == IF q \in DOMAIN dyadicRoot.sub THEN {dyadicRoot.sub[q]} ELSE {}
        node == IF \E o \in olds : Within(env, o.box)
                THEN CHOOSE o \in olds : TRUE
                ELSE CreateExpanded(olds, env)
    IN  IF InOnePart(q) THEN WithSubnode(dyadicRoot, q, AddBelow(node, env, item))
        ELSE [dyadicRoot EXCEPT !.items = @ \cup {item}]

\* collectStats: the height of a rectangle is not looked at
CollectStats(env) ==
    IF Width(env[1]) < minExtent /\ Width(env[1]) > 0 THEN Width(env[1]) ELSE minExtent

\* ensureExtent: the upper end is computed from the lower end already moved
EnsureExtent(env, extent) ==
    [d \in DOMAIN env |->
        IF Width(env[d]) # 0 THEN env[d]
        ELSE LET lo == env[d].lo - extent \div 2
             IN  [lo |-> lo, hi |-> lo + extent \div 2]]

\* Bintree::insert, Quadtree::insert
DyadicInsert(b) ==
    /\ IsDyadic
    /\ Enter(b)
    /\ minExtent' = CollectStats(b)
    /\ dyadicRoot' = RootInsert(EnsureExtent(b, minExtent'), Len(entries) + 1)

-----------------------------------------------------------------------------
(* Searching and removing                                                  *)

\* addAllItems
RECURSIVE ItemsBelow(_)
ItemsBelow(node) == node.items \cup UNION {ItemsBelow(node.sub[q]) : q \in DOMAIN node.sub}

\* addAllItemsFromOverlapping, visit
RECURSIVE FoundBelow(_, _)
FoundBelow(node, b) ==
    IF ~EnvelopesMeet(b, node.box) THEN {}
    ELSE node.items \cup UNION {FoundBelow(node.sub[q], b) : q \in DOMAIN node.sub}

\* Root::isSearchMatch is always true.
FoundInRoot(b) == dyadicRoot.items \cup UNION {FoundBelow(dyadicRoot.sub[q], b) : q \in DOMAIN dyadicRoot.sub}

DyadicQuery ==
    /\ IsDyadic /\ Asked("query")
    /\ Reply([op |-> "query", found |-> FoundInRoot(request.box)])
    /\ UNCHANGED dyadicVars

\* Quadtree::queryAll
QueryAll ==
    /\ kind = "quadtree" /\ Asked("items")
    /\ Reply([op |-> "items", found |-> ItemsBelow(dyadicRoot)])
    /\ UNCHANGED dyadicVars

\* Bintree::iterator: NodeBase::addAllItems copies from the empty result into
\* the nodes, so nothing is returned.
Iterator ==
    /\ kind = "bintree" /\ Asked("iterator")
    /\ Reply([op |-> "iterator", found |-> {}])
    /\ UNCHANGED dyadicVars

IsPrunable(node) == node.items = {} /\ DOMAIN node.sub = {}

Trimmed(node, q, child) ==
    IF IsPrunable(child) THEN [node EXCEPT !.sub = [p \in DOMAIN @ \ {q} |-> @[p]]]
    ELSE WithSubnode(node, q, child)

\* NodeBase::remove: whether the item is found below a node, which is entered
\* only when it meets the envelope
RECURSIVE FindsBelow(_, _, _)
FindsBelow(node, b, item) ==
    /\ EnvelopesMeet(b, node.box)
    /\ item \in node.items \/ \E q \in DOMAIN node.sub : FindsBelow(node.sub[q], b, item)

\* ... and what is left of one that is entered
RECURSIVE WithoutEntry(_, _, _)
WithoutEntry(node, b, item) ==
    LET hit == {q \in DOMAIN node.sub : FindsBelow(node.sub[q], b, item)}
        q   == CHOOSE p \in hit : TRUE
    IN  IF hit = {} THEN [node EXCEPT !.items = @ \ {item}]
        ELSE Trimmed(node, q, WithoutEntry(node.sub[q], b, item))

\* Quadtree::remove, with the extent of the moment
QuadtreeRemove ==
    /\ kind = "quadtree" /\ Asked("remove")
    /\ LET env == EnsureExtent(request.box, minExtent)
       IN  /\ dyadicRoot' = WithoutEntry(dyadicRoot, env, request.item)
           /\ Reply([op |-> "remove", found |->
                        \/ request.item \in dyadicRoot.items
                        \/ \E q \in DOMAIN dyadicRoot.sub : FindsBelow(dyadicRoot.sub[q], env, request.item)])
    /\ UNCHANGED minExtent

InitDyadic ==
    /\ dyadicRoot = [items |-> {}, sub |-> <<>>]
    /\ minExtent = DefaultExtent

DyadicServe == DyadicQuery \/ QueryAll \/ Iterator \/ QuadtreeRemove

-----------------------------------------------------------------------------
(* Properties                                                              *)

RECURSIVE NodesBelow(_)
NodesBelow(node) ==
    LET subs == {node.sub[q] : q \in DOMAIN node.sub}
    IN  subs \cup UNION {NodesBelow(n) : n \in subs}

\* However the trees below the root were replaced by larger ones, with nodes
\* for the levels between, every node stands in its own part of its parent, one
\* level down, and its box is as large as its level says (searches and
\* insertions compare with centres only).
PartsNest ==
    \A n \in NodesBelow(dyadicRoot) :
        /\ n.level >= 0 /\ \A d \in DOMAIN n.box : Width(n.box[d]) = 2 ^ n.level
        /\ \A q \in DOMAIN n.sub :
              n.sub[q].level = n.level - 1 /\ n.sub[q].box = Part(n.box, q)

\* An entry is held by a node whose box holds all of the entry's own envelope,
\* although it was inserted under a padded one whose padding depends on what
\* was inserted before: no search that meets the entry can miss it.
HeldInBox ==
    \A n \in NodesBelow(dyadicRoot) : \A i \in n.items : Within(entries[i], n.box)

\* Removals leave no node that holds nothing and leads nowhere.
NothingBarren == \A n \in NodesBelow(dyadicRoot) : ~IsPrunable(n)
=============================================================================
