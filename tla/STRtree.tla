------------------------------ MODULE STRtree -------------------------------
(***************************************************************************)
(* The packed R-tree of GEOS: STRtree over AbstractSTRtree.  Items are     *)
(* inserted into a flat list; the first query, removal or itemsTree()      *)
(* builds the tree, one level at a time, from the items up; later calls    *)
(* walk the finished tree.                                                 *)
(*                                                                         *)
(* A boundable is an item or a node.  Nodes are numbered in the order they *)
(* are created, which is the order of the vector that owns them, so a      *)
(* child's number is smaller than its parent's.  The bounds of a node are  *)
(* computed when first asked for and never again.  std::sort may leave     *)
(* boundables of equal centre in any order.  Following the NULL bounds of  *)
(* a childless node sets "crashed".                                        *)
(***************************************************************************)
EXTENDS Integers, Sequences, FiniteSets, SequencesExt

CONSTANTS
    NodeCapacity,  \* nodeCapacity
    Boxes,         \* envelopes [x1, x2, y1, y2] of items and searches
    MaxItems       \* bound: the number of insertions

\* The constructor asserts it.
ASSUME CapacityAssumption == NodeCapacity \in Nat /\ NodeCapacity > 1
\* Envelope::init puts the two ends of each axis in order.
ASSUME BoxesAssumption ==
    /\ Boxes \subseteq [x1 : Int, x2 : Int, y1 : Int, y2 : Int]
    /\ \A b \in Boxes : b.x1 <= b.x2 /\ b.y1 <= b.y2
ASSUME BoundAssumption == MaxItems \in Nat

VARIABLES
    items,     \* itemBoundables: the bounds of item i
    nodes,     \* nodes: [level, children, bounds], bounds Null until computed
    current,   \* boundablesOfALevel: the level the build has reached
    root,      \* the root's number, 0 before the tree is built
    call,      \* the operation the caller is waiting for
    answer,    \* what the last operation returned
    crashed    \* a NULL pointer was followed

vars == <<items, nodes, current, root, call, answer, crashed>>

built == root # 0
Null  == [null |-> TRUE]
NoCall   == [op |-> "none"]
NoAnswer == [op |-> "none"]

Item(i) == [kind |-> "item", id |-> i]
Node(n) == [kind |-> "node", id |-> n]

-----------------------------------------------------------------------------
(* Bounds                                                                  *)

Meets(a, b) ==
    /\ ~(b.x1 > a.x2 \/ b.x2 < a.x1)
    /\ ~(b.y1 > a.y2 \/ b.y2 < a.y1)

Least(a, b)    == IF a <= b THEN a ELSE b
Greatest(a, b) == IF a <= b THEN b ELSE a

ExpandToInclude(a, b) ==
    [x1 |-> Least(a.x1, b.x1), x2 |-> Greatest(a.x2, b.x2),
     y1 |-> Least(a.y1, b.y1), y2 |-> Greatest(a.y2, b.y2)]

\* centreY, without the division by two
Centre(a) == a.y1 + a.y2

BoundsOf(c) == IF c.kind = "item" THEN items[c.id] ELSE nodes[c.id].bounds

\* Fault: the bounds of the first child are taken for those of the node.
FirstBounds(n) ==
    LET children == nodes[n].children
    IN  IF children = <<>> THEN Null ELSE BoundsOf(children[1])

\* computeBounds: after each of the children
ComputeBounds(n) ==
    LET children == nodes[n].children
        bounds[k \in 0..Len(children)] ==
          IF k = 0 THEN Null
          ELSE IF bounds[k - 1] = Null THEN BoundsOf(children[k])
          ELSE ExpandToInclude(bounds[k - 1], BoundsOf(children[k]))
    IN  bounds[Len(children)]

\* getBounds on every node of a set: nodes, with those bounds computed
WithBounds(ns) ==
    [n \in DOMAIN nodes |-> IF n \in ns /\ nodes[n].bounds = Null
                            THEN [nodes[n] EXCEPT !.bounds = ComputeBounds(n)]
                            ELSE nodes[n]]

-----------------------------------------------------------------------------
(* Packing one level                                                       *)

CeilDiv(a, b) == (a + b - 1) \div b
CeilSqrt(a) == CHOOSE s \in 0..a : s * s >= a /\ (s = 0 \/ (s - 1) * (s - 1) < a)

\* sortBoundables: the orders std::sort may produce for a level whose
\* nodes stand in tree
Sorted(level, tree) ==
    LET centre(c) == Centre(IF c.kind = "item" THEN items[c.id] ELSE tree[c.id].bounds)
    IN  {s \in {[k \in DOMAIN level |-> level[p[k]]] : p \in Bijection(DOMAIN level, DOMAIN level)}
            : \A j, k \in DOMAIN s : j < k => centre(s[j]) <= centre(s[k])}

\* createParentBoundables' loop body: a full last node makes room for a new one,
\* which takes the child.
AddToLast(groups, c) ==
    LET grown == IF Len(Last(groups)) = NodeCapacity
                 THEN Append(groups, <<>>) ELSE groups
    IN  [grown EXCEPT ![Len(grown)] = Append(@, c)]

\* AbstractSTRtree::createParentBoundables: the children of each new node
Runs(level) ==
    LET runs[k \in 0..Len(level)] ==
          IF k = 0 THEN << <<>> >> ELSE AddToLast(runs[k - 1], level[k])
    IN  runs[Len(level)]

\* STRtree::verticalSlices
VerticalSlices(level, sliceCount) ==
    LET sliceCapacity == CeilDiv(Len(level), sliceCount)
    IN  [j \in 1..sliceCount |->
            SubSeq(level, (j - 1) * sliceCapacity + 1,
                   Least(j * sliceCapacity, Len(level)))]

SliceCount(n) == CeilSqrt(CeilDiv(n, NodeCapacity))

\* STRtree::createParentBoundables, given the sorted children: the children of
\* each parent.  The second sort, of a slice, leaves it sorted.
Parents(sorted) ==
    LET slices == VerticalSlices(sorted, SliceCount(Len(sorted)))
    IN  FlattenSeq([j \in DOMAIN slices |-> Runs(slices[j])])

-----------------------------------------------------------------------------
(* Insertion and building                                                  *)

Init ==
    /\ items = <<>>
    /\ nodes = <<>>
    /\ current = <<>>
    /\ root = 0
    /\ call = NoCall
    /\ answer = NoAnswer
    /\ crashed = FALSE

\* insert.  An envelope that is null is skipped, and inserting into a built
\* tree is refused by an assertion.
Insert(b) ==
    /\ call = NoCall /\ ~built
    /\ Len(items) < MaxItems
    /\ items' = Append(items, b)
    /\ answer' = NoAnswer
    /\ UNCHANGED <<nodes, current, root, call, crashed>>

\* A caller starts a query, a removal or itemsTree().
Call(c) ==
    /\ call = NoCall
    /\ call' = c
    /\ answer' = NoAnswer
    /\ UNCHANGED <<items, nodes, current, root, crashed>>

\* build: without items the tree is one childless node, ...
BuildEmpty ==
    /\ call # NoCall /\ ~built /\ ~crashed
    /\ items = <<>>
    /\ nodes' = <<[level |-> 0, children |-> <<>>, bounds |-> Null]>>
    /\ root' = 1
    /\ UNCHANGED <<items, current, call, answer, crashed>>

\* ... otherwise createHigherLevels packs level after level until one node is
\* left.  Sorting two boundables or more asks all of them for their bounds.
Level == IF current = <<>> THEN [i \in DOMAIN items |-> Item(i)] ELSE current

NodesOf(level) == {c.id : c \in {d \in Range(level) : d.kind = "node"}}

Compared == IF Len(Level) > 1 THEN NodesOf(Level) ELSE {}

NewNode(children) ==
    [level    |-> IF current = <<>> THEN 0 ELSE nodes[current[1].id].level + 1,
     children |-> children,
     bounds   |-> Null]

BuildLevel ==
    /\ call # NoCall /\ ~built /\ ~crashed
    /\ items # <<>>
    /\ LET known == WithBounds(Compared)
       IN  IF \E n \in Compared : known[n].bounds = Null
           THEN crashed' = TRUE /\ UNCHANGED <<nodes, current, root>>
           ELSE /\ \E sorted \in Sorted(Level, known) :
                     LET parents == Parents(sorted)
                         created == [k \in DOMAIN parents |-> NewNode(parents[k])]
                     IN  /\ nodes' = known \o created
                         /\ IF Len(created) = 1
                            THEN root' = Len(nodes') /\ current' = <<>>
                            ELSE /\ current' = [k \in DOMAIN created |-> Node(Len(nodes) + k)]
                                 /\ UNCHANGED root
                /\ UNCHANGED crashed
    /\ UNCHANGED <<items, call, answer>>

-----------------------------------------------------------------------------
(* Walking the built tree: root->getBounds() first, then the recursion     *)

Return(a) == answer' = a /\ call' = NoCall

\* intersects(childBoundable->getBounds(), searchBounds), the tree being tree
Selected(tree, c, b) ==
    Meets(IF c.kind = "item" THEN items[c.id] ELSE tree[c.id].bounds, b)

\* The items a walk gathers under each node that goes on to the children
\* visited[n] of node n
Gathered(visited) ==
    LET gathered[n \in DOMAIN visited] ==
          UNION {IF c.kind = "item" THEN {c.id} ELSE gathered[c.id] : c \in visited[n]}
    IN  gathered

\* query(searchBounds, node, matches): the items found under each node
Matches(tree, b) ==
    Gathered([n \in DOMAIN tree |->
                 {c \in Range(tree[n].children) : Selected(tree, c, b)}])

ServeQuery ==
    /\ call.op = "query" /\ built /\ ~crashed
    /\ LET tree == WithBounds({root})
       IN  /\ tree[root].bounds # Null
           /\ nodes' = tree
           /\ Return([op |-> "query",
                      found |-> IF Meets(tree[root].bounds, call.box)
                                THEN Matches(tree, call.box)[root] ELSE {}])
    /\ UNCHANGED <<items, current, root, crashed>>

\* remove(searchBounds, node, item): whether it succeeds under each node
Removed(tree, b, i) ==
    LET removed[n \in DOMAIN tree] ==
          \/ Item(i) \in Range(tree[n].children)
          \/ \E c \in Range(tree[n].children) :
                c.kind = "node" /\ Selected(tree, c, b) /\ removed[c.id]
    IN  removed

\* erase: children without the ones that are gone
Without(children, gone) ==
    LET left[k \in 0..Len(children)] ==
          IF k = 0 THEN <<>>
          ELSE IF children[k] \in gone THEN left[k - 1]
          ELSE Append(left[k - 1], children[k])
    IN  left[Len(children)]

\* Fault: the child the removal went into is always pruned.
PrunedWhole(tree, removed, i) ==
    [n \in DOMAIN tree |-> IF ~removed[n] THEN tree[n] ELSE [tree[n] EXCEPT !.children =
        Without(@, {Item(i)} \cup {c \in Range(@) : c.kind = "node" /\ removed[c.id]})]]

\* ... and what it leaves: removeItem, and the pruning of childless children
Pruned(tree, removed, i) ==
    LET left[n \in DOMAIN tree] ==
          IF ~removed[n] THEN tree[n].children
          ELSE Without(tree[n].children,
                 {Item(i)} \cup {c \in Range(tree[n].children) :
                    c.kind = "node" /\ removed[c.id] /\ left[c.id] = <<>>})
    IN  [n \in DOMAIN tree |-> [tree[n] EXCEPT !.children = left[n]]]

ServeRemove ==
    /\ call.op = "remove" /\ built /\ ~crashed
    /\ LET tree    == WithBounds({root})
           removed == Removed(tree, call.box, call.item)
           found   == Meets(tree[root].bounds, call.box) /\ removed[root]
       IN  /\ tree[root].bounds # Null
           /\ nodes' = IF found THEN Pruned(tree, removed, call.item) ELSE tree
           /\ Return([op |-> "remove", found |-> found])
    /\ UNCHANGED <<items, current, root, crashed>>

\* A tree built without items has no bounds to intersect with.
CrashOnEmpty ==
    /\ call.op \in {"query", "remove"} /\ built /\ ~crashed
    /\ WithBounds({root})[root].bounds = Null
    /\ crashed' = TRUE
    /\ UNCHANGED <<items, nodes, current, root, call, answer>>

\* itemsTree(): the items under each node
Under(tree) == Gathered([n \in DOMAIN tree |-> Range(tree[n].children)])
ItemsUnder == Under(nodes)

ServeItemsTree ==
    /\ call.op = "items" /\ built /\ ~crashed
    /\ Return([op |-> "items", found |-> ItemsUnder[root]])
    /\ UNCHANGED <<items, nodes, current, root, crashed>>

Serve ==
    \/ BuildEmpty \/ BuildLevel
    \/ ServeQuery \/ ServeRemove \/ ServeItemsTree \/ CrashOnEmpty

Calls ==
    {[op |-> "query", box |-> b] : b \in Boxes}
      \cup {[op |-> "remove", box |-> b, item |-> i] : b \in Boxes, i \in DOMAIN items}
      \cup {[op |-> "items"]}

Next ==
    \/ \E b \in Boxes : Insert(b)
    \/ \E c \in Calls : Call(c)
    \/ Serve

\* A call, once made, runs to its end in the caller's thread.
Spec == Init /\ [][Next]_vars /\ WF_vars(Serve)

-----------------------------------------------------------------------------
(* Properties                                                              *)

Boundable == [kind : {"item"}, id : DOMAIN items] \cup [kind : {"node"}, id : DOMAIN nodes]

\* Every variable has its type, and a child is an item or an earlier node.
TypeOK ==
    /\ items \in Seq(Boxes) /\ Len(items) <= MaxItems
    /\ \A n \in DOMAIN nodes :
         /\ nodes[n].level \in Nat
         /\ Range(nodes[n].children) \subseteq Boundable
         /\ \A c \in Range(nodes[n].children) : c.kind = "node" => c.id < n
    /\ Range(current) \subseteq Boundable
    /\ root \in {0} \cup DOMAIN nodes
    /\ crashed \in BOOLEAN

Reachable ==
    {n \in DOMAIN nodes : n = root \/ \E p \in DOMAIN nodes :
        Node(n) \in Range(nodes[p].children)}

\* A node of the tree never has more children than the capacity it was asked
\* for (createParentBoundables), and none but the root is ever without
\* children (remove prunes the ones it empties, whatever the order of removals).
NodesFilled ==
    \A n \in Reachable \ {root} : Len(nodes[n].children) \in 1..NodeCapacity

\* The tree is balanced, as queries that stop at leaves and boundablesAtLevel
\* assume: the children of a node all stand one level below it, items at -1,
\* and no boundable has two parents.
Balanced ==
    /\ \A n \in DOMAIN nodes : \A c \in Range(nodes[n].children) :
         nodes[n].level = 1 + (IF c.kind = "item" THEN -1 ELSE nodes[c.id].level)
    /\ \A m, n \in DOMAIN nodes :
         m # n => Range(nodes[m].children) \cap Range(nodes[n].children) = {}

Covers(a, b) == ExpandToInclude(a, b) = a

\* The bounds a node caches never become too small: they cover everything
\* under it, before and after removals (a query relies on it to skip nodes).
BoundsCover ==
    \A n \in DOMAIN nodes : nodes[n].bounds # Null =>
        \A i \in ItemsUnder[n] : Covers(nodes[n].bounds, items[i])

\* The items the index holds: all of them until the tree is built, then the
\* ones that can be reached from the root.
Stored == IF built THEN ItemsUnder[root] ELSE DOMAIN items

\* The tree is an exact spatial index: the build, whatever order the sort
\* leaves, loses no item; queries find all and only what meets the search
\* envelope; a removal takes the named item and nothing else.
Index == INSTANCE SpatialIndex WITH
    entries <- items, stored <- Stored, Exact <- TRUE

Contract == Index!Spec

\* The tree is sound: full enough, balanced, and bounded by what it holds.
TreeSound == TypeOK /\ NodesFilled /\ Balanced /\ BoundsCover
=============================================================================
