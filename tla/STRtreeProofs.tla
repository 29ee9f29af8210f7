---------------------------- MODULE STRtreeProofs -----------------------------
(***************************************************************************)
(* The STR tree is an exact spatial index, for every node capacity, every   *)
(* set of envelopes and any number of items: the tree the packing builds    *)
(* holds each item once, its nodes are full enough, balanced and bounded    *)
(* by what they hold, and they stay so through every removal.               *)
(***************************************************************************)
EXTENDS STRtree, Induction

Boundables == [kind : {"item", "node"}, id : Nat]
Box        == [x1 : Int, x2 : Int, y1 : Int, y2 : Int]
TreeNode   == [level : Nat, children : Seq(Boundables), bounds : Box \cup {Null}]

(* A child is one of the first m items or an earlier node.                  *)
Below(c, n, m) == (c.kind = "item" /\ c.id \in 1..m) \/ (c.kind = "node" /\ c.id \in 1..n - 1)

Tree(t, m) ==
  /\ t \in Seq(TreeNode)
  /\ \A n \in 1..Len(t) : \A c \in Range(t[n].children) : Below(c, n, m)

LEMMA NodeFields ==
  ASSUME NEW m, NEW t, Tree(t, m)
  PROVE  /\ Len(t) \in Nat /\ DOMAIN t = 1..Len(t)
         /\ \A n \in 1..Len(t) :
              /\ t[n] = [level |-> t[n].level, children |-> t[n].children, bounds |-> t[n].bounds]
              /\ t[n].level \in Nat
              /\ t[n].children \in Seq(Boundables)
              /\ Range(t[n].children) \subseteq Boundables
              /\ t[n].bounds \in Box \cup {Null}
              /\ \A c \in Range(t[n].children) : Below(c, n, m)
<1>1. \A n \in 1..Len(t) : t[n] \in TreeNode
  BY DEF Tree
<1> HIDE DEF Boundables, Box, Null
<1>2. \A x \in TreeNode : /\ x = [level |-> x.level, children |-> x.children, bounds |-> x.bounds]
                        /\ x.level \in Nat
                        /\ x.children \in Seq(Boundables)
                        /\ x.bounds \in Box \cup {Null}
  BY DEF TreeNode
<1>3. \A s \in Seq(Boundables) : Range(s) \subseteq Boundables
  BY DEF Range
<1>4. Len(t) \in Nat /\ DOMAIN t = 1..Len(t)
  BY DEF Tree
<1>5. \A n \in 1..Len(t) : \A c \in Range(t[n].children) : Below(c, n, m)
  BY DEF Tree
<1> QED BY <1>1, <1>2, <1>3, <1>4, <1>5

-----------------------------------------------------------------------------
(* What the walks over the tree compute: each is a function on the nodes    *)
(* whose value at a node depends on those at its children.                  *)

Gathers(g, visited, n) ==
  /\ g \in [1..n -> SUBSET Nat]
  /\ \A k \in 1..n, i \in Nat :
       i \in g[k] <=> \E c \in visited[k] : IF c.kind = "item" THEN i = c.id ELSE i \in g[c.id]

Walks(visited, n) ==
  /\ DOMAIN visited = 1..n
  /\ \A k \in 1..n : visited[k] \subseteq Boundables
  /\ \A k \in 1..n : \A c \in visited[k] : c.kind = "item" \/ c.id \in 1..k - 1

(* Gathered is the function its definition says it is.                      *)
LEMMA GatheredUnfold ==
  ASSUME NEW n \in Nat, NEW visited, Walks(visited, n)
  PROVE  Gathers(Gathered(visited), visited, n)
<1> DEFINE S == SUBSET Nat
           F == [1..n -> S]
           Of(g, c) == IF c.kind = "item" THEN {c.id} ELSE g[c.id]
           Body(g, k) == UNION {Of(g, c) : c \in visited[k]}
           step == [x \in (1..n) \X F |-> Body(x[2], x[1])]
<1>1. Gathered(visited) = CHOOSE g : g = [k \in 1..n |-> Body(g, k)]
  BY DEF Gathered, Walks
<1>2. \A g \in F, k \in 1..n : \A c \in visited[k] : Of(g, c) \subseteq Nat
  <2> SUFFICES ASSUME NEW g \in F, NEW k \in 1..n, NEW c \in visited[k] PROVE Of(g, c) \subseteq Nat
    OBVIOUS
  <2>1. c.id \in Nat /\ (c.kind = "item" \/ c.id \in 1..n)
    BY DEF Walks, Boundables
  <2> QED BY <2>1
<1>3. \A f, g \in F, k \in 1..n : \A c \in visited[k] :
         (\A j \in 1..k - 1 : f[j] = g[j]) => Of(f, c) = Of(g, c)
  BY DEF Walks
<1> HIDE DEF Of
<1>4. \A x \in 1..n, g \in F : step[<<x, g>>] = Body(g, x)
  OBVIOUS
<1>5. LooksBack(step, S, n)
  <2>1. \A k \in 1..n, g \in F : Body(g, k) \in S
    BY <1>2
  <2>2. ASSUME NEW f \in F, NEW g \in F, NEW k \in 1..n, \A j \in 1..k - 1 : f[j] = g[j]
        PROVE  Body(f, k) = Body(g, k)
    BY <1>3, <2>2
  <2> HIDE DEF Body
  <2>3. step \in [(1..n) \X F -> S]
    BY <2>1
  <2> HIDE DEF step
  <2>4. ASSUME NEW f \in F, NEW g \in F, NEW k \in 1..n, \A j \in 1..k - 1 : f[j] = g[j]
        PROVE  step[<<k, f>>] = step[<<k, g>>]
    <3>1. Body(f, k) = Body(g, k)
      BY <2>2, <2>4
    <3> HIDE DEF F
    <3> QED BY <1>4, <3>1
  <2> QED BY <2>3, <2>4 DEF LooksBack
<1> HIDE DEF step, Body
<1>6. \E g \in F : \A k \in 1..n : g[k] = step[<<k, g>>]
  <2>1. {} \in S
    OBVIOUS
  <2> HIDE DEF S
  <2> QED BY <1>5, <2>1, RecursionExists
<1>7. \E g : g = [k \in 1..n |-> Body(g, k)]
  BY <1>4, <1>6
<1> DEFINE G == Gathered(visited)
<1>8. DOMAIN G = 1..n /\ \A k \in 1..n : G[k] = Body(G, k)
  <2>1. G = [k \in 1..n |-> Body(G, k)]
    BY <1>1, <1>7
  <2> HIDE DEF G
  <2> QED BY <2>1
<1>9. G = [k \in 1..n |-> G[k]]
  BY <1>1, <1>7
<1> HIDE DEF G
<1>10. G \in F
  <2> DEFINE T == {k \in 1..n : G[k] \subseteq Nat}
  <2>1. ASSUME NEW k \in 1..n, \A j \in 1..k - 1 : j \in T PROVE k \in T
    <3>1. ASSUME NEW c \in visited[k] PROVE Of(G, c) \subseteq Nat
      BY <2>1 DEF Of, Walks, Boundables
    <3> QED BY <1>8, <3>1 DEF Body
  <2> HIDE DEF T
  <2>2. \A k \in 1..n : k \in T
    BY <2>1, StrongInduction
  <2> QED BY <1>8, <1>9, <2>2 DEF T
<1>11. ASSUME NEW k \in 1..n, NEW i \in Nat
       PROVE  i \in G[k] <=> \E c \in visited[k] : IF c.kind = "item" THEN i = c.id ELSE i \in G[c.id]
  <2>1. i \in G[k] <=> \E c \in visited[k] : i \in Of(G, c)
    BY <1>8 DEF Body
  <2> QED BY <2>1 DEF Of
<1> QED BY <1>10, <1>11 DEF Gathers, G

(* The items under a node are the items among its children and those under  *)
(* the others.                                                              *)
LEMMA UnderUnfold ==
  ASSUME NEW m \in Nat, NEW t, Tree(t, m)
  PROVE  /\ Under(t) \in [1..Len(t) -> SUBSET Nat]
         /\ \A n \in 1..Len(t), i \in Nat :
              i \in Under(t)[n] <=>
                \E c \in Range(t[n].children) :
                  IF c.kind = "item" THEN i = c.id ELSE i \in Under(t)[c.id]
<1> DEFINE visited == [n \in DOMAIN t |-> Range(t[n].children)]
<1>1. Len(t) \in Nat /\ DOMAIN t = 1..Len(t)
  BY DEF Tree
<1>2. Walks(visited, Len(t))
  <2>1. \A k \in 1..Len(t) : Range(t[k].children) \subseteq Boundables
    BY NodeFields
  <2>2. \A k \in 1..Len(t) : visited[k] = Range(t[k].children)
    BY <1>1
  <2>3. DOMAIN visited = 1..Len(t)
    BY <1>1
  <2> HIDE DEF visited
  <2> QED BY <2>1, <2>2, <2>3 DEF Tree, Below, Walks
<1>3. \A k \in 1..Len(t) : visited[k] = Range(t[k].children)
  BY <1>1
<1>4. Under(t) = Gathered(visited)
  BY DEF Under
<1> HIDE DEF visited
<1>5. Gathers(Gathered(visited), visited, Len(t))
  BY <1>1, <1>2, GatheredUnfold
<1> QED BY <1>3, <1>4, <1>5 DEF Gathers

(* They are items of the tree.                                              *)
LEMMA UnderItems ==
  ASSUME NEW m \in Nat, NEW t, Tree(t, m)
  PROVE  \A n \in 1..Len(t) : Under(t)[n] \subseteq 1..m
<1> DEFINE U == Under(t)
           T == {n \in 1..Len(t) : U[n] \subseteq 1..m}
<1>1. Len(t) \in Nat
  BY DEF Tree
<1>2. /\ U \in [1..Len(t) -> SUBSET Nat]
      /\ \A n \in 1..Len(t), i \in Nat :
           i \in U[n] <=> \E c \in Range(t[n].children) :
                            IF c.kind = "item" THEN i = c.id ELSE i \in U[c.id]
  BY UnderUnfold
<1> HIDE DEF U
<1>3. ASSUME NEW n \in 1..Len(t), \A j \in 1..n - 1 : j \in T PROVE n \in T
  <2>1. ASSUME NEW i \in U[n] PROVE i \in 1..m
    <3>1. i \in Nat
      BY <1>2
    <3>2. PICK c \in Range(t[n].children) : IF c.kind = "item" THEN i = c.id ELSE i \in U[c.id]
      BY <1>2, <3>1
    <3>3. Below(c, n, m)
      BY DEF Tree
    <3> QED BY <1>3, <3>2, <3>3 DEF Below
  <2> QED BY <2>1
<1> HIDE DEF T
<1>4. \A n \in 1..Len(t) : n \in T
  BY <1>1, <1>3, StrongInduction
<1> QED BY <1>4 DEF T, U

(* A removal succeeds under a node that holds the item, or under a child    *)
(* whose bounds meet the search envelope and under which it succeeds.       *)
RemovesFrom(removed, t, b, i, n) ==
  \/ Item(i) \in Range(t[n].children)
  \/ \E c \in Range(t[n].children) : c.kind = "node" /\ Selected(t, c, b) /\ removed[c.id]

LEMMA RemovedUnfold ==
  ASSUME NEW m \in Nat, NEW t, Tree(t, m), NEW b, NEW i
  PROVE  /\ Removed(t, b, i) \in [1..Len(t) -> BOOLEAN]
         /\ \A n \in 1..Len(t) :
              Removed(t, b, i)[n] <=> RemovesFrom(Removed(t, b, i), t, b, i, n)
<1> DEFINE N == Len(t)
           F == [1..N -> BOOLEAN]
           Body(r, n) == RemovesFrom(r, t, b, i, n)
           step == [x \in (1..N) \X F |-> Body(x[2], x[1])]
           R == Removed(t, b, i)
<1>1. N \in Nat /\ DOMAIN t = 1..N
  BY DEF Tree
<1>2. R = CHOOSE r : r = [n \in 1..N |-> Body(r, n)]
  BY <1>1 DEF Removed, RemovesFrom
<1>3. ASSUME NEW f \in F, NEW g \in F, NEW n \in 1..N, \A j \in 1..n - 1 : f[j] = g[j]
      PROVE  Body(f, n) = Body(g, n)
  <2>1. \A c \in Range(t[n].children) : c.kind = "node" => f[c.id] = g[c.id]
    BY <1>3 DEF Tree, Below
  <2> QED BY <2>1, Zenon DEF RemovesFrom
<1>4. \A r, n : Body(r, n) \in BOOLEAN
  BY DEF RemovesFrom
<1> HIDE DEF Body
<1>5. \A x \in 1..N, g \in F : step[<<x, g>>] = Body(g, x)
  OBVIOUS
<1>6. step \in [(1..N) \X F -> BOOLEAN]
  BY <1>4
<1> HIDE DEF step, N
<1>7. LooksBack(step, BOOLEAN, N)
  <2>1. ASSUME NEW f \in F, NEW g \in F, NEW n \in 1..N, \A j \in 1..n - 1 : f[j] = g[j]
        PROVE  step[<<n, f>>] = step[<<n, g>>]
    <3>1. Body(f, n) = Body(g, n)
      BY <1>3, <2>1
    <3>2. step[<<n, f>>] = Body(f, n) /\ step[<<n, g>>] = Body(g, n)
      BY <1>5
    <3> QED BY <3>1, <3>2, Zenon
  <2> QED BY <1>6, <2>1 DEF LooksBack
<1>8. \E g \in F : \A n \in 1..N : g[n] = step[<<n, g>>]
  <2> DEFINE S == BOOLEAN
  <2>1. PICK base : base \in S
    OBVIOUS
  <2>2. LooksBack(step, S, N) /\ F = [1..N -> S]
    BY <1>7
  <2> HIDE DEF S
  <2>3. \E g \in [1..N -> S] : \A n \in 1..N : g[n] = step[<<n, g>>]
    BY <1>1, <2>1, <2>2, RecursionExists
  <2> QED BY <2>2, <2>3, Zenon
<1>9. \E g : g = [n \in 1..N |-> Body(g, n)]
  <2>1. PICK g \in F : \A n \in 1..N : g[n] = step[<<n, g>>]
    BY <1>8
  <2>2. \A n \in 1..N : g[n] = Body(g, n)
    BY <1>5, <2>1, Zenon
  <2> QED BY <2>2, Zenon
<1>10. R = [n \in 1..N |-> Body(R, n)]
  BY <1>2, <1>9, Zenon
<1> HIDE DEF R
<1>11. R \in F /\ \A n \in 1..N : R[n] = Body(R, n)
  BY <1>4, <1>10, Zenon
<1> QED BY <1>11, Zenon DEF R, N, Body

(* erase leaves the children that are not gone, and adds none.              *)
LEMMA WithoutGone ==
  ASSUME NEW B, NEW s \in Seq(B), NEW gone
  PROVE  /\ Without(s, gone) \in Seq(B)
         /\ Len(Without(s, gone)) <= Len(s)
         /\ Range(Without(s, gone)) = Range(s) \ gone
<1> DEFINE n == Len(s)
           S == Seq(B)
           Body(x, k) == IF s[k] \in gone THEN x ELSE Append(x, s[k])
           Loop(f) == f = [k \in 0..n |-> IF k = 0 THEN <<>> ELSE Body(f[k - 1], k)]
           step == [x \in S \X (1..n) |-> Body(x[1], x[2])]
           L == CHOOSE f : Loop(f)
<1>1. Without(s, gone) = L[n]
  BY DEF Without
<1>2. n \in Nat /\ \A k \in 1..n : s[k] \in B
  OBVIOUS
<1>3. \A x \in S, k \in 1..n : Body(x, k) \in S
  BY <1>2
<1>4. \E f : Loop(f)
  <2>1. \A x \in S, k \in 1..n : step[<<x, k>>] = Body(x, k)
    OBVIOUS
  <2> HIDE DEF step, Body, n
  <2>2. Steps(step, S, n)
    BY <1>3, <2>1 DEF Steps
  <2>3. <<>> \in S
    OBVIOUS
  <2> HIDE DEF S
  <2>4. PICK f : Iterates(f, <<>>, step, S, n)
    BY <1>2, <2>2, <2>3, IterationExists
  <2>5. f \in [0..n -> S] /\ f[0] = <<>> /\ \A k \in 1..n : f[k] = step[<<f[k - 1], k>>]
    BY <2>4 DEF Iterates
  <2>6. ASSUME NEW k \in 1..n PROVE f[k] = Body(f[k - 1], k)
    <3>1. f[k - 1] \in S
      BY <1>2, <2>5
    <3> QED BY <2>1, <2>5, <3>1
  <2>7. Loop(f)
    BY <1>2, <2>5, <2>6
  <2> QED BY <2>7
<1>5. Loop(L)
  BY <1>4
<1> HIDE DEF L
<1>6. L[0] = <<>> /\ \A k \in 1..n : L[k] = Body(L[k - 1], k)
  <2> HIDE DEF Body
  <2> QED BY <1>2, <1>5
<1> DEFINE Left(x, k) == /\ x \in S /\ Len(x) <= k
                         /\ \A v : v \in Range(x) <=> v \notin gone /\ \E j \in 1..k : s[j] = v
           T == {k \in 0..n : Left(L[k], k)}
<1>7. 0 \in T
  <2>1. Left(<<>>, 0)
    BY DEF Range
  <2>2. 0 \in 0..n /\ L[0] = <<>>
    BY <1>2, <1>6
  <2> HIDE DEF Left, n
  <2> QED BY <2>1, <2>2
<1>8. ASSUME NEW k \in 0..n - 1, k \in T PROVE k + 1 \in T
  <2> DEFINE x == L[k]
             y == L[k + 1]
  <2>1. k + 1 \in 1..n /\ k + 1 \in 0..n /\ (k + 1) - 1 = k /\ k \in Nat
    BY <1>2
  <2>2. y = Body(x, k + 1) /\ Left(x, k)
    BY <1>6, <1>8, <2>1
  <2>3. s[k + 1] \in B
    BY <1>2, <2>1
  <2>4. \A v : (\E j \in 1..k + 1 : s[j] = v) <=> (\E j \in 1..k : s[j] = v) \/ s[k + 1] = v
    BY <2>1
  <2> HIDE DEF x, y
  <2>5. Left(y, k + 1)
    <3>1. CASE s[k + 1] \in gone
      BY <2>1, <2>2, <2>4, <3>1
    <3>2. CASE s[k + 1] \notin gone
      <4>1. y = Append(x, s[k + 1])
        BY <2>2, <3>2
      <4>2. y \in S /\ Len(y) = Len(x) + 1 /\ Len(x) \in Nat
        BY <2>2, <2>3, <4>1
      <4>3. \A v : v \in Range(y) <=> v \in Range(x) \/ v = s[k + 1]
        <5>1. \A j \in 1..Len(x) : y[j] = x[j]
          BY <2>2, <2>3, <4>1
        <5>2. y[Len(x) + 1] = s[k + 1]
          BY <2>2, <2>3, <4>1
        <5>3. DOMAIN y = 1..Len(x) + 1 /\ DOMAIN x = 1..Len(x)
          BY <2>2, <4>2
        <5>4. \A j : j \in 1..Len(x) + 1 <=> j \in 1..Len(x) \/ j = Len(x) + 1
          BY <4>2
        <5> HIDE DEF Left, S, Body
        <5> QED BY <5>1, <5>2, <5>3, <5>4 DEF Range
      <4> QED BY <2>1, <2>2, <2>4, <3>2, <4>2, <4>3
    <3> QED BY <3>1, <3>2
  <2> QED BY <2>1, <2>5 DEF y
<1> HIDE DEF T
<1>9. n \in T
  <2>1. 0..n \subseteq T
    <3>1. 0 \in Int /\ n \in Int /\ 0 <= n
      BY <1>2
    <3>2. \A k \in 0..n - 1 : k \in T => k + 1 \in T
      BY <1>8
    <3> HIDE DEF n
    <3> QED BY <1>7, <3>1, <3>2, IntervalInduction
  <2> QED BY <1>2, <2>1
<1>10. Left(L[n], n)
  BY <1>9 DEF T
<1>11. DOMAIN s = 1..n
  OBVIOUS
<1> QED BY <1>1, <1>10, <1>11 DEF Range

(* What a removal takes from a node it succeeded under: the item, and the   *)
(* children it left without children.                                       *)
Gone(t, removed, p, i, n) ==
  {Item(i)} \cup {c \in Range(t[n].children) :
                    c.kind = "node" /\ removed[c.id] /\ p[c.id].children = <<>>}

PrunedTo(t, removed, p, i) ==
  /\ p = [n \in 1..Len(t) |-> p[n]]
  /\ \A n \in 1..Len(t) :
       /\ p[n] = [t[n] EXCEPT !.children = p[n].children]
       /\ ~removed[n] => p[n].children = t[n].children
       /\ removed[n] => p[n].children = Without(t[n].children, Gone(t, removed, p, i, n))

LEMMA PrunedUnfold ==
  ASSUME NEW m \in Nat, NEW t, Tree(t, m), NEW removed, NEW i \in Nat
  PROVE  PrunedTo(t, removed, Pruned(t, removed, i), i)
<1> DEFINE N == Len(t)
           S == Seq(Boundables)
           F == [1..N -> S]
           Lost(f, n) == {Item(i)} \cup {c \in Range(t[n].children) :
                              c.kind = "node" /\ removed[c.id] /\ f[c.id] = <<>>}
           Body(f, n) == IF ~removed[n] THEN t[n].children ELSE Without(t[n].children, Lost(f, n))
           step == [x \in (1..N) \X F |-> Body(x[2], x[1])]
           L == CHOOSE f : f = [n \in 1..N |-> Body(f, n)]
           p == [n \in 1..N |-> [t[n] EXCEPT !.children = L[n]]]
<1>1. N \in Nat /\ DOMAIN t = 1..N /\ \A n \in 1..N : t[n].children \in S
  BY NodeFields
<1>2. Pruned(t, removed, i) = p
  BY <1>1 DEF Pruned
<1>3. ASSUME NEW f \in F, NEW g \in F, NEW n \in 1..N, \A j \in 1..n - 1 : f[j] = g[j]
      PROVE  Body(f, n) = Body(g, n)
  <2>1. \A c \in Range(t[n].children) : c.kind = "node" => f[c.id] = g[c.id]
    BY <1>3 DEF Tree, Below
  <2>2. Lost(f, n) = Lost(g, n)
    BY <2>1
  <2> HIDE DEF Lost
  <2> QED BY <2>2
<1>4. \A f \in F, n \in 1..N : Body(f, n) \in S
  <2> HIDE DEF Lost
  <2>1. \A gone : \A n \in 1..N : Without(t[n].children, gone) \in S
    BY <1>1, WithoutGone
  <2> QED BY <1>1, <2>1
<1> HIDE DEF Body
<1>5. \A x \in 1..N, g \in F : step[<<x, g>>] = Body(g, x)
  OBVIOUS
<1>6. step \in [(1..N) \X F -> S]
  BY <1>4
<1> HIDE DEF step
<1>7. LooksBack(step, S, N)
  <2>1. \A f, g \in F, n \in 1..N :
           (\A j \in 1..n - 1 : f[j] = g[j]) => step[<<n, f>>] = step[<<n, g>>]
    <3> HIDE DEF F
    <3> QED BY <1>3, <1>5
  <2> QED BY <1>6, <2>1 DEF LooksBack
<1>8. \E f \in F : \A n \in 1..N : f[n] = step[<<n, f>>]
  <2>0. <<>> \in S
    OBVIOUS
  <2>1. PICK base : base \in S
    BY <2>0
  <2> HIDE DEF S, N
  <2> QED BY <1>1, <1>7, <2>1, RecursionExists
<1>9. \E f : f = [n \in 1..N |-> Body(f, n)]
  BY <1>5, <1>8
<1>10. L = [n \in 1..N |-> Body(L, n)]
  BY <1>9
<1> HIDE DEF L
<1>11. \A n \in 1..N : L[n] = Body(L, n)
  BY <1>10
<1>12. \A n \in 1..N : p[n] = [t[n] EXCEPT !.children = L[n]]
  OBVIOUS
<1>13. \A n \in 1..N : p[n].children = L[n]
  <2>1. \A r, v : r = [level |-> r.level, children |-> r.children, bounds |-> r.bounds]
                   => [r EXCEPT !.children = v].children = v
    OBVIOUS
  <2>2. \A n \in 1..N : t[n] = [level |-> t[n].level, children |-> t[n].children,
                                bounds |-> t[n].bounds]
    BY NodeFields
  <2> HIDE DEF p
  <2> QED BY <1>12, <2>1, <2>2
<1> HIDE DEF p
<1>14. p = [n \in 1..N |-> p[n]]
  BY DEF p
<1>15. ASSUME NEW n \in 1..N PROVE Lost(L, n) = Gone(t, removed, p, i, n)
  <2>1. \A c \in Range(t[n].children) : c.kind = "node" => p[c.id].children = L[c.id]
    BY <1>13 DEF Tree, Below
  <2> QED BY <2>1 DEF Gone
<1> HIDE DEF Lost
<1>16. PrunedTo(t, removed, p, i)
  BY <1>11, <1>12, <1>13, <1>14, <1>15 DEF PrunedTo, Body
<1> QED BY <1>2, <1>16

(* The pruned tree is a tree, with the levels and the bounds there were.    *)
Shrunk(p, t, removed, i) ==
  \A n \in 1..Len(t) :
    /\ p[n].level = t[n].level /\ p[n].bounds = t[n].bounds
    /\ Len(p[n].children) <= Len(t[n].children)
    /\ Range(p[n].children) \subseteq Range(t[n].children)
    /\ removed[n] => Range(p[n].children) = Range(t[n].children) \ Gone(t, removed, p, i, n)

LEMMA PrunedTree ==
  ASSUME NEW m \in Nat, NEW t, Tree(t, m), NEW removed, NEW i \in Nat, NEW p,
         PrunedTo(t, removed, p, i)
  PROVE  Tree(p, m) /\ Len(p) = Len(t) /\ Shrunk(p, t, removed, i)
<1>1. Len(t) \in Nat
  BY NodeFields
<1>2. ASSUME NEW n \in 1..Len(t)
      PROVE  /\ p[n] \in TreeNode
             /\ p[n].level = t[n].level /\ p[n].bounds = t[n].bounds
             /\ Len(p[n].children) <= Len(t[n].children)
             /\ Range(p[n].children) \subseteq Range(t[n].children)
             /\ removed[n] => Range(p[n].children)
                                = Range(t[n].children) \ Gone(t, removed, p, i, n)
  <2> DEFINE g == Gone(t, removed, p, i, n)
             s == t[n].children
             q == p[n].children
  <2>1. s \in Seq(Boundables) /\ t[n] \in TreeNode
    <3>1. t[n] \in TreeNode
      BY DEF Tree
    <3> QED BY <3>1, NodeFields
  <2>2. p[n] = [t[n] EXCEPT !.children = q]
    BY DEF PrunedTo
  <2>3. q = s \/ (removed[n] /\ q = Without(s, g))
    BY DEF PrunedTo
  <2>4. removed[n] => q = Without(s, g)
    BY DEF PrunedTo
  <2> HIDE DEF g, s, q
  <2>5. /\ Without(s, g) \in Seq(Boundables) /\ Len(Without(s, g)) <= Len(s)
        /\ Range(Without(s, g)) = Range(s) \ g
    BY <2>1, WithoutGone
  <2>6. q \in Seq(Boundables) /\ Len(q) <= Len(s) /\ Range(q) \subseteq Range(s)
    BY <2>1, <2>3, <2>5
  <2>7. p[n] \in TreeNode /\ p[n].level = t[n].level /\ p[n].bounds = t[n].bounds
    <3> HIDE DEF Boundables, Box, Null
    <3> QED BY <2>1, <2>2, <2>6 DEF TreeNode
  <2> QED BY <2>4, <2>5, <2>6, <2>7 DEF g, s, q
<1>3. DOMAIN p = 1..Len(t) /\ p = [n \in 1..Len(t) |-> p[n]]
  BY DEF PrunedTo
<1>4. p \in Seq(TreeNode) /\ Len(p) = Len(t)
  <2> HIDE DEF TreeNode
  <2> QED BY <1>1, <1>2, <1>3, SequenceOf
<1>5. \A n \in 1..Len(p) : \A c \in Range(p[n].children) : Below(c, n, m)
  BY <1>2, <1>4 DEF Tree
<1>6. Shrunk(p, t, removed, i)
  BY <1>2 DEF Shrunk
<1> QED BY <1>4, <1>5, <1>6 DEF Tree

-----------------------------------------------------------------------------
(* Bounds                                                                   *)

LEMMA NoBoxIsNull == \A b \in Box : b # Null
<1>1. ASSUME NEW b \in Box, b = Null PROVE FALSE
  <2>1. DOMAIN b = {"x1", "x2", "y1", "y2"} /\ DOMAIN Null = {"null"}
    BY DEF Box, Null
  <2> QED BY <1>1, <2>1
<1> QED BY <1>1

(* One envelope covers another that lies inside it on both axes.            *)
LEMMA CoversMeans ==
  ASSUME NEW a \in Box, NEW b \in Box
  PROVE  Covers(a, b) <=> a.x1 <= b.x1 /\ b.x2 <= a.x2 /\ a.y1 <= b.y1 /\ b.y2 <= a.y2
<1> DEFINE e == ExpandToInclude(a, b)
<1>1. /\ e = [x1 |-> e.x1, x2 |-> e.x2, y1 |-> e.y1, y2 |-> e.y2]
      /\ e.x1 = Least(a.x1, b.x1) /\ e.x2 = Greatest(a.x2, b.x2)
      /\ e.y1 = Least(a.y1, b.y1) /\ e.y2 = Greatest(a.y2, b.y2)
  BY DEF ExpandToInclude
<1>2. a = [x1 |-> a.x1, x2 |-> a.x2, y1 |-> a.y1, y2 |-> a.y2]
  BY DEF Box
<1>3. /\ a.x1 \in Int /\ a.x2 \in Int /\ a.y1 \in Int /\ a.y2 \in Int
      /\ b.x1 \in Int /\ b.x2 \in Int /\ b.y1 \in Int /\ b.y2 \in Int
  BY DEF Box
<1> HIDE DEF e
<1>4. e = a <=> e.x1 = a.x1 /\ e.x2 = a.x2 /\ e.y1 = a.y1 /\ e.y2 = a.y2
  BY <1>1, <1>2
<1>5. (e.x1 = a.x1 <=> a.x1 <= b.x1) /\ (e.y1 = a.y1 <=> a.y1 <= b.y1)
  BY <1>1, <1>3 DEF Least
<1>6. (e.x2 = a.x2 <=> b.x2 <= a.x2) /\ (e.y2 = a.y2 <=> b.y2 <= a.y2)
  BY <1>1, <1>3 DEF Greatest
<1> QED BY <1>4, <1>5, <1>6 DEF Covers, e

(* An envelope grows to cover what it was and what it is to include.        *)
LEMMA ExpandCovers ==
  ASSUME NEW a \in Box, NEW b \in Box
  PROVE  /\ ExpandToInclude(a, b) \in Box
         /\ Covers(ExpandToInclude(a, b), a) /\ Covers(ExpandToInclude(a, b), b)
<1> DEFINE e == ExpandToInclude(a, b)
<1>1. e \in Box
  BY DEF ExpandToInclude, Box, Least, Greatest
<1>2. /\ e.x1 <= a.x1 /\ a.x2 <= e.x2 /\ e.y1 <= a.y1 /\ a.y2 <= e.y2
      /\ e.x1 <= b.x1 /\ b.x2 <= e.x2 /\ e.y1 <= b.y1 /\ b.y2 <= e.y2
  BY DEF ExpandToInclude, Box, Least, Greatest
<1> HIDE DEF e
<1>3. Covers(e, a) /\ Covers(e, b)
  BY <1>1, <1>2, CoversMeans
<1> QED BY <1>1, <1>3 DEF e

LEMMA CoversTransitive ==
  ASSUME NEW a \in Box, NEW b \in Box, NEW c \in Box, Covers(a, b), Covers(b, c)
  PROVE  Covers(a, c)
<1>1. /\ a.x1 <= b.x1 /\ b.x2 <= a.x2 /\ a.y1 <= b.y1 /\ b.y2 <= a.y2
      /\ b.x1 <= c.x1 /\ c.x2 <= b.x2 /\ b.y1 <= c.y1 /\ c.y2 <= b.y2
  BY CoversMeans
<1>2. a.x1 <= c.x1 /\ c.x2 <= a.x2 /\ a.y1 <= c.y1 /\ c.y2 <= a.y2
  BY <1>1 DEF Box
<1> QED BY <1>2, CoversMeans

(* What meets an envelope meets those that cover it.                        *)
LEMMA CoversMeets ==
  ASSUME NEW a \in Box, NEW c \in Box, NEW b \in Box, Covers(a, c), Meets(c, b)
  PROVE  Meets(a, b)
<1>1. a.x1 <= c.x1 /\ c.x2 <= a.x2 /\ a.y1 <= c.y1 /\ c.y2 <= a.y2
  BY CoversMeans
<1> QED BY <1>1 DEF Meets, Box

(* The envelopes given to the tree meet themselves.                         *)
LEMMA MeetsItself == \A b \in Boxes : b \in Box /\ Meets(b, b)
BY BoxesAssumption DEF Box, Meets

(* computeBounds leaves NULL only for a childless node, and otherwise bounds *)
(* that cover those of every child.                                         *)
LEMMA ComputeBoundsCovers ==
  ASSUME NEW n, NEW s, nodes[n].children = s, s \in Seq(Boundables),
         \A c \in Range(s) : BoundsOf(c) \in Box
  PROVE  IF s = <<>> THEN ComputeBounds(n) = Null
         ELSE /\ ComputeBounds(n) \in Box
              /\ \A c \in Range(s) : Covers(ComputeBounds(n), BoundsOf(c))
<1> DEFINE N == Len(s)
           S == Box \cup {Null}
           b == [k \in 1..N |-> BoundsOf(s[k])]
           Body(x, k) == IF x = Null THEN b[k] ELSE ExpandToInclude(x, b[k])
           Next0(f, k) == IF k = 0 THEN Null
                          ELSE IF f[k - 1] = Null THEN BoundsOf(s[k])
                          ELSE ExpandToInclude(f[k - 1], BoundsOf(s[k]))
           Next1(f, k) == IF k = 0 THEN Null ELSE Body(f[k - 1], k)
           Loop(f)  == f = [k \in 0..N |-> Next1(f, k)]
           Loop0(f) == f = [k \in 0..N |-> Next0(f, k)]
           step == [x \in S \X (1..N) |-> Body(x[1], x[2])]
           L == CHOOSE f : Loop0(f)
<1>1. N \in Nat /\ \A k \in 1..N : b[k] = BoundsOf(s[k]) /\ b[k] \in Box
  BY DEF Range
<1>2. ComputeBounds(n) = L[N]
  BY DEF ComputeBounds
<1>3. \A f : Loop0(f) <=> Loop(f)
  <2>1. ASSUME NEW f, NEW k \in 0..N PROVE Next0(f, k) = Next1(f, k)
    <3>1. CASE k = 0
      BY <3>1
    <3>2. CASE k # 0
      <4>1. k \in 1..N
        BY <1>1, <3>2
      <4> QED BY <1>1, <3>2, <4>1
    <3> QED BY <3>1, <3>2
  <2> HIDE DEF Next0, Next1, N
  <2> QED BY <2>1
<1> HIDE DEF b, Loop0
<1>4. \A x \in S, k \in 1..N : Body(x, k) \in Box
  BY <1>1, ExpandCovers
<1>5. \E f : Loop(f)
  <2>1. \A x \in S, k \in 1..N : step[<<x, k>>] = Body(x, k)
    <3> HIDE DEF S, Body
    <3> QED OBVIOUS
  <2> HIDE DEF step, Body, N
  <2>2. Steps(step, S, N)
    BY <1>4, <2>1 DEF Steps
  <2>3. Null \in S
    OBVIOUS
  <2> HIDE DEF S
  <2>4. PICK f : Iterates(f, Null, step, S, N)
    BY <1>1, <2>2, <2>3, IterationExists
  <2>5. f \in [0..N -> S] /\ f[0] = Null /\ \A k \in 1..N : f[k] = step[<<f[k - 1], k>>]
    BY <2>4 DEF Iterates
  <2>6. ASSUME NEW k \in 1..N PROVE f[k] = Body(f[k - 1], k)
    <3>1. f[k - 1] \in S
      BY <1>1, <2>5
    <3> QED BY <2>1, <2>5, <3>1
  <2>7. Loop(f)
    BY <1>1, <2>5, <2>6
  <2> QED BY <2>7
<1>6. Loop(L)
  <2>1. Loop0(L)
    BY <1>3, <1>5
  <2> QED BY <1>3, <2>1
<1> HIDE DEF L
<1>7. L[0] = Null /\ \A k \in 1..N : L[k] = Body(L[k - 1], k)
  <2> HIDE DEF Body
  <2> QED BY <1>1, <1>6
<1> DEFINE Good(x, k) == IF k = 0 THEN x = Null
                         ELSE x \in Box /\ \A j \in 1..k : Covers(x, b[j])
           T == {k \in 0..N : Good(L[k], k)}
<1>8. 0 \in T
  BY <1>1, <1>7
<1>9. ASSUME NEW k \in 0..N - 1, k \in T PROVE k + 1 \in T
  <2> DEFINE x == L[k]
             y == L[k + 1]
  <2>1. k + 1 \in 1..N /\ k + 1 \in 0..N /\ (k + 1) - 1 = k /\ k \in Nat /\ k + 1 # 0
    BY <1>1
  <2>2. y = Body(x, k + 1) /\ Good(x, k)
    BY <1>7, <1>9, <2>1
  <2>3. b[k + 1] \in Box /\ \A j \in 1..k : b[j] \in Box
    BY <1>1, <2>1
  <2>4. \A j \in 1..k + 1 : j \in 1..k \/ j = k + 1
    BY <2>1
  <2> HIDE DEF x, y, L
  <2>5. Good(y, k + 1)
    <3>1. CASE k = 0
      <4>1. y = b[1]
        BY <2>2, <3>1
      <4>2. Covers(b[1], b[1])
        BY <2>3, <3>1, CoversMeans DEF Box
      <4> QED BY <2>3, <3>1, <4>1, <4>2
    <3>2. CASE k # 0
      <4>1. x \in Box /\ \A j \in 1..k : Covers(x, b[j])
        BY <2>2, <3>2
      <4>2. y = ExpandToInclude(x, b[k + 1])
        BY <2>2, <4>1, NoBoxIsNull
      <4>3. y \in Box /\ Covers(y, x) /\ Covers(y, b[k + 1])
        BY <2>3, <4>1, <4>2, ExpandCovers
      <4>4. \A j \in 1..k : Covers(y, b[j])
        BY <2>3, <4>1, <4>3, CoversTransitive
      <4> QED BY <2>1, <2>4, <4>3, <4>4
    <3> QED BY <3>1, <3>2
  <2> HIDE DEF Good
  <2> QED BY <2>1, <2>5 DEF y
<1> HIDE DEF T
<1>10. Good(L[N], N)
  <2>1. 0 \in Int /\ N \in Int /\ 0 <= N
    BY <1>1
  <2>2. \A k \in 0..N - 1 : k \in T => k + 1 \in T
    BY <1>9
  <2> HIDE DEF N, Good
  <2>3. 0..N \subseteq T
    BY <1>8, <2>1, <2>2, IntervalInduction
  <2>4. N \in 0..N
    BY <2>1
  <2> QED BY <2>3, <2>4 DEF T
<1>11. CASE s = <<>>
  BY <1>2, <1>10, <1>11
<1>12. CASE s # <<>>
  <2>1. N # 0 /\ N \in Nat
    BY <1>12
  <2>2. L[N] \in Box /\ \A j \in 1..N : Covers(L[N], b[j])
    BY <1>10, <2>1
  <2>3. \A c \in Range(s) : \E j \in 1..N : BoundsOf(c) = b[j]
    BY <1>1 DEF Range
  <2> HIDE DEF N
  <2> QED BY <1>2, <1>12, <2>2, <2>3
<1> QED BY <1>11, <1>12

(* Two trees with the same nodes but for their bounds.                      *)
SameShape(t, u) ==
  /\ Len(t) = Len(u)
  /\ \A n \in 1..Len(u) : t[n].level = u[n].level /\ t[n].children = u[n].children

(* The children of a node know their bounds, ...                            *)
KnownBelow(t) ==
  \A n \in 1..Len(t) : \A c \in Range(t[n].children) : c.kind = "node" => t[c.id].bounds # Null

(* ... and bounds cover the items under the node.                           *)
Covered(t, its) ==
  \A n \in 1..Len(t) : t[n].bounds # Null => \A i \in Under(t)[n] : Covers(t[n].bounds, its[i])

LEMMA SameUnder ==
  ASSUME NEW m, NEW t, NEW u, Tree(t, m), Tree(u, m), SameShape(t, u)
  PROVE  Under(t) = Under(u)
<1>1. DOMAIN t = 1..Len(u) /\ DOMAIN u = 1..Len(u)
  BY NodeFields DEF SameShape
<1>2. [n \in DOMAIN t |-> Range(t[n].children)] = [n \in DOMAIN u |-> Range(u[n].children)]
  BY <1>1 DEF SameShape
<1> QED BY <1>2 DEF Under

(* The bounds of a boundable whose bounds are known                         *)
LEMMA BoundsOfChild ==
  ASSUME items \in Seq(Boxes), Tree(nodes, Len(items)), KnownBelow(nodes),
         NEW n \in 1..Len(nodes), NEW c \in Range(nodes[n].children)
  PROVE  /\ BoundsOf(c) \in Box
         /\ c.kind = "item" => c.id \in 1..Len(items) /\ BoundsOf(c) = items[c.id]
         /\ c.kind # "item" => /\ c.kind = "node" /\ c.id \in 1..n - 1 /\ c.id \in 1..Len(nodes)
                               /\ BoundsOf(c) = nodes[c.id].bounds
<1>1. Below(c, n, Len(items)) /\ Len(nodes) \in Nat
  BY NodeFields
<1>2. CASE c.kind = "item"
  <2>1. c.id \in 1..Len(items)
    BY <1>1, <1>2 DEF Below
  <2>2. items[c.id] \in Boxes
    BY <2>1
  <2> QED BY <1>2, <2>1, <2>2, MeetsItself DEF BoundsOf
<1>3. CASE c.kind # "item"
  <2>1. c.kind = "node" /\ c.id \in 1..n - 1 /\ c.id \in 1..Len(nodes)
    BY <1>1, <1>3 DEF Below
  <2>2. nodes[c.id].bounds \in Box
    <3>1. nodes[c.id].bounds # Null
      BY <2>1 DEF KnownBelow
    <3>2. nodes[c.id].bounds \in Box \cup {Null}
      BY <2>1, NodeFields
    <3> QED BY <3>1, <3>2
  <2> QED BY <1>3, <2>1, <2>2 DEF BoundsOf
<1> QED BY <1>2, <1>3

(* Bounds that cover those of the children cover the items under the node.  *)
LEMMA CoversUnder ==
  ASSUME items \in Seq(Boxes), Tree(nodes, Len(items)), KnownBelow(nodes), Covered(nodes, items),
         NEW n \in 1..Len(nodes), NEW b \in Box,
         \A c \in Range(nodes[n].children) : Covers(b, BoundsOf(c))
  PROVE  \A i \in Under(nodes)[n] : Covers(b, items[i])
<1> SUFFICES ASSUME NEW i \in Under(nodes)[n] PROVE Covers(b, items[i])
  OBVIOUS
<1>1. i \in 1..Len(items) /\ i \in Nat /\ Len(items) \in Nat
  <2>1. Len(items) \in Nat
    OBVIOUS
  <2> QED BY <2>1, UnderItems
<1>2. PICK c \in Range(nodes[n].children) :
             IF c.kind = "item" THEN i = c.id ELSE i \in Under(nodes)[c.id]
  BY <1>1, UnderUnfold
<1>3. BoundsOf(c) \in Box /\ Covers(b, BoundsOf(c))
  BY BoundsOfChild
<1>4. CASE c.kind = "item"
  BY <1>2, <1>3, <1>4, BoundsOfChild
<1>5. CASE c.kind # "item"
  <2>1. c.id \in 1..Len(nodes) /\ BoundsOf(c) = nodes[c.id].bounds /\ i \in Under(nodes)[c.id]
    BY <1>2, <1>5, BoundsOfChild
  <2>2. Covers(BoundsOf(c), items[i])
    BY <1>3, <2>1, NoBoxIsNull DEF Covered
  <2>3. items[i] \in Box
    BY <1>1, MeetsItself
  <2> QED BY <1>3, <2>2, <2>3, CoversTransitive
<1> QED BY <1>4, <1>5

(* getBounds computes bounds once, and correctly.                           *)
Computed(t, ns) ==
  /\ SameShape(t, nodes)
  /\ \A n \in 1..Len(nodes) :
       /\ nodes[n].bounds # Null \/ n \notin ns => t[n].bounds = nodes[n].bounds
       /\ n \in ns /\ nodes[n].children # <<>> => t[n].bounds # Null

LEMMA WithBoundsTree ==
  ASSUME items \in Seq(Boxes), Tree(nodes, Len(items)), KnownBelow(nodes), Covered(nodes, items),
         NEW ns
  PROVE  /\ Tree(WithBounds(ns), Len(items)) /\ Computed(WithBounds(ns), ns)
         /\ KnownBelow(WithBounds(ns)) /\ Covered(WithBounds(ns), items)
         /\ Under(WithBounds(ns)) = Under(nodes)
<1> DEFINE t == WithBounds(ns)
           m == Len(items)
           N == Len(nodes)
<1>1. N \in Nat /\ DOMAIN nodes = 1..N /\ m \in Nat
  BY NodeFields
<1>2. t = [n \in 1..N |-> t[n]]
  BY <1>1 DEF WithBounds
<1>3. \A n \in 1..N : t[n] = IF n \in ns /\ nodes[n].bounds = Null
                            THEN [nodes[n] EXCEPT !.bounds = ComputeBounds(n)] ELSE nodes[n]
  BY <1>1 DEF WithBounds
<1> HIDE DEF t
<1>4. ASSUME NEW n \in 1..N
      PROVE  /\ t[n] \in TreeNode
             /\ t[n].level = nodes[n].level /\ t[n].children = nodes[n].children
             /\ nodes[n].bounds # Null \/ n \notin ns => t[n].bounds = nodes[n].bounds
             /\ n \in ns /\ nodes[n].children # <<>> => t[n].bounds # Null
             /\ t[n].bounds # Null => \A i \in Under(nodes)[n] : Covers(t[n].bounds, items[i])
  <2>1. nodes[n] \in TreeNode
    BY DEF Tree
  <2>2. CASE ~(n \in ns /\ nodes[n].bounds = Null)
    <3>1. t[n] = nodes[n]
      BY <1>3, <2>2
    <3> QED BY <2>1, <2>2, <3>1 DEF Covered
  <2>3. CASE n \in ns /\ nodes[n].bounds = Null
    <3> DEFINE s == nodes[n].children
               v == ComputeBounds(n)
    <3>1. s \in Seq(Boundables) /\ \A c \in Range(s) : BoundsOf(c) \in Box
      BY NodeFields, BoundsOfChild
    <3>2. IF s = <<>> THEN v = Null
          ELSE v \in Box /\ \A c \in Range(s) : Covers(v, BoundsOf(c))
      BY <3>1, ComputeBoundsCovers
    <3>3. t[n] = [nodes[n] EXCEPT !.bounds = v]
      BY <1>3, <2>3
    <3> HIDE DEF v
    <3>4. v \in Box \cup {Null}
      BY <3>2
    <3>5. t[n] \in TreeNode /\ t[n].level = nodes[n].level /\ t[n].children = s /\ t[n].bounds = v
      <4> HIDE DEF Boundables, Box, Null
      <4> QED BY <2>1, <3>3, <3>4 DEF TreeNode
    <3>6. v # Null => \A i \in Under(nodes)[n] : Covers(v, items[i])
      BY <3>2, CoversUnder
    <3> QED BY <2>3, <3>2, <3>5, <3>6, NoBoxIsNull
  <2> QED BY <2>2, <2>3
<1>5. t \in Seq(TreeNode) /\ Len(t) = N
  <2>1. \A n \in 1..N : t[n] \in TreeNode
    BY <1>4
  <2> HIDE DEF TreeNode, N
  <2> QED BY <1>1, <1>2, <2>1, SequenceOf
<1>6. Tree(t, m)
  BY <1>4, <1>5 DEF Tree
<1>7. SameShape(t, nodes)
  BY <1>4, <1>5 DEF SameShape
<1>8. Computed(t, ns)
  BY <1>4, <1>7 DEF Computed
<1>9. Under(t) = Under(nodes)
  BY <1>6, <1>7, SameUnder
<1>10. Covered(t, items)
  BY <1>4, <1>5, <1>9 DEF Covered
<1>11. KnownBelow(t)
  <2> SUFFICES ASSUME NEW n \in 1..N, NEW c \in Range(nodes[n].children), c.kind = "node"
               PROVE  t[c.id].bounds # Null
    BY <1>4, <1>5 DEF KnownBelow
  <2>1. c.id \in 1..N /\ nodes[c.id].bounds # Null
    BY BoundsOfChild DEF KnownBelow
  <2> QED BY <1>4, <2>1
<1> QED BY <1>6, <1>8, <1>9, <1>10, <1>11 DEF t

-----------------------------------------------------------------------------
(* Packing                                                                  *)

(* The groups are not empty and no larger than a node, and each of the      *)
(* boundables is in exactly one of them.                                    *)
Disjoint(groups) ==
  \A g, h \in 1..Len(groups) : g # h => Range(groups[g]) \cap Range(groups[h]) = {}

Packs(groups, boundables) ==
  /\ groups \in Seq(Seq(Boundables))
  /\ \A g \in 1..Len(groups) : Len(groups[g]) \in 1..NodeCapacity
  /\ \A c : c \in boundables <=> \E g \in 1..Len(groups) : c \in Range(groups[g])
  /\ Disjoint(groups)

LEMMA RangeOfAppend ==
  ASSUME NEW B, NEW s \in Seq(B), NEW c \in B
  PROVE  /\ Append(s, c) \in Seq(B) /\ Len(Append(s, c)) = Len(s) + 1
         /\ Range(Append(s, c)) = Range(s) \cup {c}
<1> DEFINE y == Append(s, c)
           n == Len(s)
<1>1. y \in Seq(B) /\ Len(y) = n + 1 /\ n \in Nat /\ DOMAIN y = 1..n + 1 /\ DOMAIN s = 1..n
  OBVIOUS
<1>2. y[n + 1] = c /\ \A k \in 1..n : y[k] = s[k]
  OBVIOUS
<1>3. \A k : k \in 1..n + 1 <=> k \in 1..n \/ k = n + 1
  BY <1>1
<1> HIDE DEF y, n
<1>4. Range(y) = Range(s) \cup {c}
  BY <1>1, <1>2, <1>3 DEF Range
<1> QED BY <1>1, <1>4 DEF y, n

(* A boundable more joins the last group, or starts a group of its own.     *)
LEMMA AddToLastPacks ==
  ASSUME NEW X, NEW groups, NEW c \in Boundables, c \notin X,
         (Packs(groups, X) /\ Len(groups) >= 1) \/ (X = {} /\ groups = << <<>> >>)
  PROVE  /\ Packs(AddToLast(groups, c), X \cup {c})
         /\ Len(AddToLast(groups, c)) >= 1
<1> DEFINE L == Len(groups)
           S == Seq(Boundables)
           new == AddToLast(groups, c)
<1>1. /\ groups \in Seq(S) /\ L \in Nat /\ L >= 1 /\ Last(groups) = groups[L]
      /\ groups[L] \in S /\ \A g \in 1..L : groups[g] \in S
  <2>1. groups \in Seq(S) /\ L >= 1
    <3>1. <<>> \in S
      OBVIOUS
    <3>2. CASE Packs(groups, X) /\ L >= 1
      BY <3>2 DEF Packs
    <3>3. CASE groups = << <<>> >>
      <4> HIDE DEF S
      <4> QED BY <3>1, <3>3
    <3> QED BY <3>2, <3>3
  <2> HIDE DEF S
  <2>2. L \in Nat /\ \A g \in 1..L : groups[g] \in S
    BY <2>1
  <2> QED BY <2>1, <2>2 DEF Last
<1>2. \A x : x \in X <=> \E g \in 1..L : x \in Range(groups[g])
  <2>1. CASE Packs(groups, X)
    BY <2>1 DEF Packs
  <2>2. CASE X = {} /\ groups = << <<>> >>
    <3>1. L = 1 /\ Range(groups[1]) = {}
      BY <2>2 DEF Range
    <3>2. \A g \in 1..L : g = 1
      BY <3>1
    <3> QED BY <2>2, <3>1, <3>2
  <2> QED BY <2>1, <2>2
<1>3. Disjoint(groups)
  <2>1. CASE Packs(groups, X)
    BY <2>1 DEF Packs
  <2>2. CASE X = {} /\ groups = << <<>> >>
    BY <2>2 DEF Disjoint
  <2> QED BY <2>1, <2>2
<1>4. \A g \in 1..L : Len(groups[g]) \in 0..NodeCapacity /\ (g < L => Len(groups[g]) # 0)
  <2>1. CASE Packs(groups, X)
    BY <2>1, CapacityAssumption DEF Packs
  <2>2. CASE X = {} /\ groups = << <<>> >>
    BY <2>2, CapacityAssumption
  <2> QED BY <2>1, <2>2
<1>5. L > 1 \/ Len(groups[L]) = NodeCapacity => Packs(groups, X)
  <2>1. groups = << <<>> >> => L = 1 /\ Len(groups[L]) = 0
    OBVIOUS
  <2> QED BY <2>1, CapacityAssumption
<1> HIDE DEF S
<1>6. CASE Len(groups[L]) = NodeCapacity
  <2>1. new = [Append(groups, <<>>) EXCEPT ![L + 1] = Append(@, c)]
    BY <1>1, <1>6 DEF AddToLast
  <2>2. <<>> \in S /\ Append(<<>>, c) = <<c>> /\ <<c>> \in S /\ Len(<<c>>) = 1 /\ Range(<<c>>) = {c}
    BY DEF S, Range
  <2>3. /\ Append(groups, <<>>) \in Seq(S) /\ Len(Append(groups, <<>>)) = L + 1
        /\ Append(groups, <<>>)[L + 1] = <<>>
        /\ \A g \in 1..L : Append(groups, <<>>)[g] = groups[g]
    BY <1>1, <2>2
  <2>4. /\ new \in Seq(S) /\ Len(new) = L + 1 /\ new[L + 1] = <<c>>
        /\ \A g \in 1..L : new[g] = groups[g]
    <3> DEFINE q == Append(groups, <<>>)
    <3>1. new = [q EXCEPT ![L + 1] = <<c>>]
      BY <2>1, <2>2, <2>3
    <3>2. L + 1 \in 1..Len(q) /\ q \in Seq(S) /\ Len(q) = L + 1
      BY <1>1, <2>3
    <3>3. \A g \in 1..L : g # L + 1 /\ g \in 1..L + 1
      BY <1>1
    <3>5. <<c>> \in S
      BY <2>2
    <3> HIDE DEF q, new, L
    <3>4. /\ new \in Seq(S) /\ Len(new) = L + 1
          /\ \A g \in 1..L + 1 : new[g] = IF g = L + 1 THEN <<c>> ELSE q[g]
      <4> DEFINE k == L + 1
                 v == <<c>>
      <4>1. new = [q EXCEPT ![k] = v] /\ k \in 1..Len(q) /\ v \in S
        BY <3>1, <3>2, <3>5
      <4> HIDE DEF k, v
      <4>2. /\ new \in Seq(S) /\ Len(new) = Len(q)
            /\ \A g \in 1..Len(q) : new[g] = IF g = k THEN v ELSE q[g]
        BY <3>2, <4>1, ExceptSeq
      <4> QED BY <3>2, <4>2 DEF k, v
    <3> QED BY <2>3, <3>2, <3>3, <3>4 DEF q
  <2> HIDE DEF new
  <2>5. \A g \in 1..L + 1 : g \in 1..L \/ g = L + 1
    BY <1>1
  <2>6. \A g \in 1..L : g \in 1..L + 1
    BY <1>1
  <2>7. \A g \in 1..Len(new) : Len(new[g]) \in 1..NodeCapacity
    <3>1. \A g \in 1..L : Len(groups[g]) \in 1..NodeCapacity
      BY <1>5, <1>6 DEF Packs
    <3>2. Len(<<c>>) \in 1..NodeCapacity
      BY <2>2, CapacityAssumption
    <3> HIDE DEF L
    <3> QED BY <2>4, <2>5, <3>1, <3>2
  <2>8. L + 1 \in 1..L + 1
    BY <1>1
  <2>9. \A x : x \in X \cup {c} <=> \E g \in 1..Len(new) : x \in Range(new[g])
    BY <1>2, <2>2, <2>4, <2>5, <2>6, <2>8
  <2>10. Disjoint(new)
    <3> SUFFICES ASSUME NEW g \in 1..Len(new), NEW h \in 1..Len(new), g # h,
                        NEW x \in Range(new[g]), x \in Range(new[h])
                 PROVE  FALSE
      BY DEF Disjoint
    <3>1. \A k \in 1..L : x \in Range(new[k]) => x \in X
      BY <1>2, <2>4
    <3>2. g \in 1..L /\ h \in 1..L
      BY <2>2, <2>4, <2>5, <3>1
    <3> QED BY <1>3, <2>4, <3>2 DEF Disjoint
  <2>11. new \in Seq(Seq(Boundables)) /\ L + 1 >= 1
    BY <1>1, <2>4 DEF S
  <2> QED BY <2>4, <2>7, <2>9, <2>10, <2>11 DEF Packs, new
<1>7. CASE Len(groups[L]) # NodeCapacity
  <2> DEFINE last == Append(groups[L], c)
  <2>1. new = [groups EXCEPT ![L] = last]
    BY <1>1, <1>7 DEF AddToLast
  <2>2. /\ last \in S /\ Len(last) = Len(groups[L]) + 1
        /\ Range(last) = Range(groups[L]) \cup {c}
    <3>1. groups[L] \in Seq(Boundables)
      BY <1>1 DEF S
    <3>2. /\ Append(groups[L], c) \in Seq(Boundables)
          /\ Len(Append(groups[L], c)) = Len(groups[L]) + 1
          /\ Range(Append(groups[L], c)) = Range(groups[L]) \cup {c}
      <4> DEFINE s == groups[L]
      <4>1. s \in Seq(Boundables) /\ c \in Boundables
        BY <3>1
      <4> HIDE DEF s
      <4>2. /\ Append(s, c) \in Seq(Boundables) /\ Len(Append(s, c)) = Len(s) + 1
            /\ Range(Append(s, c)) = Range(s) \cup {c}
        BY <4>1, RangeOfAppend
      <4> QED BY <4>2 DEF s
    <3> QED BY <3>2 DEF S
  <2> HIDE DEF last
  <2>3. L \in 1..L
    BY <1>1
  <2>4. /\ new \in Seq(S) /\ Len(new) = L /\ new[L] = last
        /\ \A g \in 1..L : g # L => new[g] = groups[g]
    <3> HIDE DEF new, L
    <3>1. /\ new \in Seq(S) /\ Len(new) = Len(groups)
          /\ \A g \in 1..Len(groups) : new[g] = IF g = L THEN last ELSE groups[g]
      BY <1>1, <2>1, <2>2, <2>3, ExceptSeq DEF L
    <3> QED BY <2>3, <3>1 DEF L
  <2> HIDE DEF new
  <2>5. Len(last) \in 1..NodeCapacity
    BY <1>4, <1>7, <2>2, <2>3, CapacityAssumption
  <2>6. \A g \in 1..L : Len(new[g]) \in 1..NodeCapacity
    <3> SUFFICES ASSUME NEW g \in 1..L PROVE Len(new[g]) \in 1..NodeCapacity
      OBVIOUS
    <3>1. CASE g = L
      BY <2>4, <2>5, <3>1
    <3>2. CASE g # L
      BY <1>1, <1>4, <2>4, <3>2
    <3> QED BY <3>1, <3>2
  <2>7. \A g \in 1..L : Range(new[g]) = IF g = L THEN Range(groups[g]) \cup {c} ELSE Range(groups[g])
    BY <2>2, <2>4
  <2>8. \A x : x \in X \cup {c} <=> \E g \in 1..L : x \in Range(new[g])
    BY <1>2, <2>3, <2>7
  <2>9. Disjoint(new)
    <3> SUFFICES ASSUME NEW g \in 1..L, NEW h \in 1..L, g # h,
                        NEW x \in Range(new[g]), x \in Range(new[h])
                 PROVE  FALSE
      BY <2>4 DEF Disjoint
    <3>1. x = c \/ (x \in Range(groups[g]) /\ x \in Range(groups[h]))
      BY <1>2, <2>7
    <3>2. x # c
      BY <1>2, <2>7
    <3> QED BY <1>3, <3>1, <3>2 DEF Disjoint
  <2>10. new \in Seq(Seq(Boundables))
    BY <2>4 DEF S
  <2> QED BY <1>1, <2>4, <2>6, <2>8, <2>9, <2>10 DEF Packs, new
<1> QED BY <1>6, <1>7

OneToOne(s) == \A j, k \in 1..Len(s) : j # k => s[j] # s[k]

(* createParentBoundables puts the boundables of a slice into runs that     *)
(* fill one node after the other.                                           *)
LEMMA RunsPack ==
  ASSUME NEW s \in Seq(Boundables), OneToOne(s), s # <<>>
  PROVE  Packs(Runs(s), Range(s)) /\ Len(Runs(s)) >= 1
<1> DEFINE N == Len(s)
           S == Seq(Seq(Boundables))
           base == << <<>> >>
           First(k) == {s[j] : j \in 1..k}
           Good(x, k) == IF k = 0 THEN x = base ELSE Packs(x, First(k)) /\ Len(x) >= 1
           Body(x, k) == AddToLast(x, s[k])
           Safe(x, k) == IF Good(x, k - 1) THEN Body(x, k) ELSE base
           Loop(f) == f = [k \in 0..N |-> IF k = 0 THEN base ELSE Body(f[k - 1], k)]
           step == [x \in S \X (1..N) |-> Safe(x[1], x[2])]
           L == CHOOSE f : Loop(f)
<1>1. N \in Nat /\ N >= 1 /\ \A k \in 1..N : s[k] \in Boundables
  OBVIOUS
<1>2. Runs(s) = L[N]
  BY DEF Runs
<1>3. ASSUME NEW k \in 1..N, NEW x, Good(x, k - 1) PROVE Good(Body(x, k), k)
  <2>1. s[k] \notin First(k - 1) /\ First(k - 1) \cup {s[k]} = First(k)
    BY <1>1 DEF OneToOne
  <2>2. (Packs(x, First(k - 1)) /\ Len(x) >= 1) \/ (First(k - 1) = {} /\ x = << <<>> >>)
    BY <1>1, <1>3
  <2> HIDE DEF First
  <2>3. Packs(Body(x, k), First(k - 1) \cup {s[k]}) /\ Len(Body(x, k)) >= 1
    BY <1>1, <2>1, <2>2, AddToLastPacks
  <2>4. k # 0
    BY <1>1
  <2> QED BY <2>1, <2>3, <2>4
<1>5. base \in S /\ Good(base, 0)
  <2>1. <<>> \in Seq(Boundables)
    OBVIOUS
  <2> QED BY <2>1
<1>4. \A x, k : Good(x, k) => x \in S
  BY <1>5 DEF Packs
<1> HIDE DEF Body, Good, S, base
<1>6. \E f : Loop(f)
  <2>1. \A x \in S, k \in 1..N : step[<<x, k>>] = Safe(x, k)
    OBVIOUS
  <2>2. \A x \in S, k \in 1..N : Safe(x, k) \in S
    BY <1>3, <1>4, <1>5
  <2> HIDE DEF step, Safe, N
  <2>3. Steps(step, S, N)
    BY <2>1, <2>2 DEF Steps
  <2>4. PICK f : Iterates(f, base, step, S, N)
    BY <1>1, <1>5, <2>3, IterationExists
  <2>5. f \in [0..N -> S] /\ f[0] = base /\ \A k \in 1..N : f[k] = step[<<f[k - 1], k>>]
    BY <2>4 DEF Iterates
  <2>6. \A k \in 1..N : f[k] = Safe(f[k - 1], k)
    <3> SUFFICES ASSUME NEW k \in 1..N PROVE f[k] = Safe(f[k - 1], k)
      OBVIOUS
    <3>1. f[k - 1] \in S
      BY <1>1, <2>5
    <3> QED BY <2>1, <2>5, <3>1
  <2> DEFINE T == {k \in 0..N : Good(f[k], k)}
  <2>7. 0 \in T
    BY <1>1, <1>5, <2>5
  <2>8. ASSUME NEW k \in 0..N - 1, k \in T PROVE k + 1 \in T
    <3>1. k + 1 \in 1..N /\ k + 1 \in 0..N /\ (k + 1) - 1 = k
      BY <1>1
    <3>2. f[k + 1] = Body(f[k], k + 1)
      BY <2>6, <2>8, <3>1 DEF Safe
    <3> QED BY <1>3, <2>8, <3>1, <3>2
  <2> HIDE DEF T
  <2>9. 0..N \subseteq T
    <3>1. 0 \in Int /\ N \in Int /\ 0 <= N
      BY <1>1
    <3>2. \A k \in 0..N - 1 : k \in T => k + 1 \in T
      BY <2>8
    <3> QED BY <2>7, <3>1, <3>2, IntervalInduction
  <2>10. ASSUME NEW k \in 1..N PROVE f[k] = Body(f[k - 1], k)
    <3>1. k - 1 \in T
      BY <1>1, <2>9
    <3> QED BY <2>6, <3>1 DEF Safe, T
  <2>11. Loop(f)
    <3>1. f = [k \in 0..N |-> f[k]]
      BY <2>5
    <3>2. \A k \in 0..N : f[k] = IF k = 0 THEN base ELSE Body(f[k - 1], k)
      <4>1. \A k \in 0..N : k = 0 \/ k \in 1..N
        BY <1>1
      <4> QED BY <2>5, <2>10, <4>1
    <3> HIDE DEF N
    <3> QED BY <3>1, <3>2
  <2> QED BY <2>11
<1>7. Loop(L)
  BY <1>6
<1> HIDE DEF L
<1>8. L[0] = base /\ \A k \in 1..N : L[k] = Body(L[k - 1], k)
  BY <1>1, <1>7
<1> DEFINE T == {k \in 0..N : Good(L[k], k)}
<1>9. 0 \in T
  BY <1>1, <1>5, <1>8
<1>10. ASSUME NEW k \in 0..N - 1, k \in T PROVE k + 1 \in T
  <2>1. k + 1 \in 1..N /\ k + 1 \in 0..N /\ (k + 1) - 1 = k
    BY <1>1
  <2>2. L[k + 1] = Body(L[k], k + 1)
    BY <1>8, <2>1
  <2> QED BY <1>3, <1>10, <2>1, <2>2
<1> HIDE DEF T
<1>11. Good(L[N], N)
  <2>1. 0 \in Int /\ N \in Int /\ 0 <= N /\ N \in 0..N
    BY <1>1
  <2>2. \A k \in 0..N - 1 : k \in T => k + 1 \in T
    BY <1>10
  <2> HIDE DEF N
  <2>3. 0..N \subseteq T
    BY <1>9, <2>1, <2>2, IntervalInduction
  <2> QED BY <2>1, <2>3 DEF T
<1>12. First(N) = Range(s)
  BY DEF Range
<1> HIDE DEF First
<1> QED BY <1>1, <1>2, <1>11, <1>12 DEF Good

(* CeilDiv and CeilSqrt round up.                                           *)
LEMMA CeilDivIs ==
  ASSUME NEW a \in Nat, NEW b \in Nat, b >= 1
  PROVE  /\ CeilDiv(a, b) \in Nat /\ b * CeilDiv(a, b) >= a /\ b * CeilDiv(a, b) <= a + b - 1
         /\ a >= 1 => CeilDiv(a, b) >= 1
<1> DEFINE q == CeilDiv(a, b)
<1>1. q \in Nat /\ b * q <= a + b - 1 /\ a + b - 1 < b * q + b
  BY DEF CeilDiv
<1> HIDE DEF q
<1>2. b * q \in Int
  BY <1>1
<1>3. b * q >= a
  BY <1>1, <1>2
<1>4. a >= 1 => q >= 1
  <2>1. q = 0 => b * q = 0
    BY <1>1
  <2> QED BY <1>1, <1>3, <2>1
<1> QED BY <1>1, <1>3, <1>4 DEF q

LEMMA SquareGrows ==
  ASSUME NEW a \in Nat
  PROVE  a * a >= a
<1>1. a = 0 \/ (a >= 1 /\ a * a >= 1 * a)
  OBVIOUS
<1> QED BY <1>1

LEMMA CeilSqrtIs ==
  ASSUME NEW a \in Nat, a >= 1
  PROVE  /\ CeilSqrt(a) \in Nat /\ CeilSqrt(a) >= 1
         /\ (CeilSqrt(a) - 1) * (CeilSqrt(a) - 1) < a
<1> DEFINE Enough == {s \in Nat : s * s >= a}
           IsIt(s) == s * s >= a /\ (s = 0 \/ (s - 1) * (s - 1) < a)
<1>1. a \in Enough
  BY SquareGrows
<1>2. PICK s \in Enough : \A r \in Enough : s <= r
  BY <1>1, LeastNatural
<1>3. s \in 0..a
  BY <1>1, <1>2
<1>4. IsIt(s)
  <2>1. CASE s = 0
    BY <1>2, <2>1
  <2>2. CASE s # 0
    <3> DEFINE r == s - 1
    <3>1. r \in Nat /\ r < s
      BY <1>3, <2>2
    <3>2. r \notin Enough
      BY <1>2, <3>1
    <3>3. r * r \in Int /\ a \in Int
      BY <3>1
    <3>4. r * r < a
      BY <3>1, <3>2, <3>3
    <3> QED BY <1>2, <3>4
  <2> QED BY <2>1, <2>2
<1> DEFINE c == CeilSqrt(a)
<1>5. c \in 0..a /\ IsIt(c)
  <2>1. c = CHOOSE x \in 0..a : IsIt(x)
    BY DEF CeilSqrt
  <2> HIDE DEF IsIt, c
  <2> QED BY <1>3, <1>4, <2>1
<1> HIDE DEF c
<1>6. c # 0
  BY <1>5
<1> QED BY <1>5, <1>6 DEF c

LEMMA TimesGrows ==
  ASSUME NEW a \in Nat, NEW b \in Nat, NEW q \in Nat, a <= b
  PROVE  a * q <= b * q /\ a * q \in Nat
<1>1. (b - a) \in Nat /\ (b - a) * q \in Nat /\ a * q \in Nat /\ b * q \in Nat
  OBVIOUS
<1>2. b * q = a * q + (b - a) * q
  OBVIOUS
<1> QED BY <1>1, <1>2

(* The last slice begins before the boundables end, and the slices together *)
(* hold them all: no slice is empty.                                        *)
LEMMA SlicesFit ==
  ASSUME NEW n \in Nat, n >= 1
  PROVE  LET count == SliceCount(n)
             q     == CeilDiv(n, count)
         IN  /\ count \in Nat /\ count >= 1 /\ q \in Nat /\ q >= 1
             /\ (count - 1) * q < n /\ n <= count * q
<1> DEFINE m == CeilDiv(n, NodeCapacity)
           count == SliceCount(n)
           q == CeilDiv(n, count)
<1>1. m \in Nat /\ m >= 1 /\ NodeCapacity * m <= n + NodeCapacity - 1
  BY CeilDivIs, CapacityAssumption
<1>2. m <= n
  <2> DEFINE k == m - 1
  <2>1. k \in Nat /\ NodeCapacity * m = NodeCapacity * k + NodeCapacity
    BY <1>1, CapacityAssumption
  <2>2. NodeCapacity * k >= 1 * k
    BY <2>1, CapacityAssumption, TimesGrows
  <2> HIDE DEF m
  <2>3. NodeCapacity * k \in Int
    BY <2>1, CapacityAssumption
  <2> QED BY <1>1, <2>1, <2>2, <2>3, CapacityAssumption
<1> HIDE DEF m
<1>3. count \in Nat /\ count >= 1 /\ (count - 1) * (count - 1) < m
  <2>1. count = CeilSqrt(m)
    BY DEF SliceCount, m
  <2> QED BY <1>1, <2>1, CeilSqrtIs
<1> HIDE DEF count
<1>4. q \in Nat /\ q >= 1 /\ count * q >= n /\ count * q <= n + count - 1
  BY <1>3, CeilDivIs
<1> HIDE DEF q
<1>5. (count - 1) * q < n
  <2> DEFINE r == count - 1
  <2>1. r \in Nat /\ count * q = r * q + q /\ r * q \in Nat
    BY <1>3, <1>4
  <2>2. r * r \in Nat /\ r * r < n
    BY <1>1, <1>2, <1>3, <2>1
  <2> HIDE DEF r
  <2>3. SUFFICES ASSUME r * q >= n PROVE FALSE
    BY <1>4, <2>1 DEF r
  <2>4. q <= r
    BY <1>3, <1>4, <2>1, <2>3 DEF r
  <2>5. q * r <= r * r /\ q * r = r * q
    BY <1>4, <2>1, <2>4, TimesGrows
  <2> QED BY <2>1, <2>2, <2>3, <2>5
<1> QED BY <1>3, <1>4, <1>5 DEF q, count

(* Two packings of different boundables, one after the other                *)
LEMMA ConcatPacks ==
  ASSUME NEW a, NEW b, NEW X, NEW Y, Packs(a, X), Packs(b, Y), X \cap Y = {}
  PROVE  Packs(a \o b, X \cup Y) /\ Len(a \o b) = Len(a) + Len(b)
<1> DEFINE S == Seq(Boundables)
           c == a \o b
           m == Len(a)
           n == Len(b)
<1>1. a \in Seq(S) /\ b \in Seq(S)
  BY DEF Packs
<1> HIDE DEF S
<1>2. /\ c \in Seq(S) /\ Len(c) = m + n /\ m \in Nat /\ n \in Nat
      /\ \A g \in 1..m : c[g] = a[g]
      /\ \A g \in 1..n : c[m + g] = b[g]
  BY <1>1
<1>3. \A g \in 1..m + n : g \in 1..m \/ \E h \in 1..n : g = m + h
  <2> SUFFICES ASSUME NEW g \in 1..m + n, g \notin 1..m PROVE \E h \in 1..n : g = m + h
    OBVIOUS
  <2>1. g - m \in 1..n /\ g = m + (g - m)
    BY <1>2
  <2> QED BY <2>1
<1>4. (\A g \in 1..m : g \in 1..m + n) /\ \A h \in 1..n : m + h \in 1..m + n
  BY <1>2
<1>5. /\ \A g \in 1..m : Len(a[g]) \in 1..NodeCapacity
      /\ \A g \in 1..n : Len(b[g]) \in 1..NodeCapacity
      /\ \A x : x \in X <=> \E g \in 1..m : x \in Range(a[g])
      /\ \A x : x \in Y <=> \E g \in 1..n : x \in Range(b[g])
      /\ Disjoint(a) /\ Disjoint(b)
  BY DEF Packs
<1> HIDE DEF c, m, n
<1>6. \A g \in 1..Len(c) : Len(c[g]) \in 1..NodeCapacity
  <2> SUFFICES ASSUME NEW g \in 1..m + n PROVE Len(c[g]) \in 1..NodeCapacity
    BY <1>2
  <2> QED BY <1>2, <1>3, <1>5
<1>7. \A x : x \in X \cup Y <=> \E g \in 1..Len(c) : x \in Range(c[g])
  <2>1. ASSUME NEW x \in X \cup Y PROVE \E g \in 1..m + n : x \in Range(c[g])
    <3>1. CASE x \in X
      BY <1>2, <1>4, <1>5, <3>1
    <3>2. CASE x \in Y
      <4>1. PICK h \in 1..n : x \in Range(b[h])
        BY <1>5, <3>2
      <4> QED BY <1>2, <1>4, <4>1
    <3> QED BY <3>1, <3>2
  <2>2. ASSUME NEW g \in 1..m + n, NEW x \in Range(c[g]) PROVE x \in X \cup Y
    BY <1>2, <1>3, <1>5, <2>2
  <2> QED BY <1>2, <2>1, <2>2
<1>8. Disjoint(c)
  <2> SUFFICES ASSUME NEW g \in 1..m + n, NEW h \in 1..m + n, g # h,
                      NEW x \in Range(c[g]), x \in Range(c[h])
               PROVE  FALSE
    BY <1>2 DEF Disjoint
  <2>1. CASE g \in 1..m /\ h \in 1..m
    BY <1>2, <1>5, <2>1 DEF Disjoint, m
  <2>5. ASSUME NEW k \in 1..m + n, x \in Range(c[k])
        PROVE  (k \in 1..m => x \in X) /\ (k \notin 1..m => x \in Y)
    <3>1. CASE k \in 1..m
      BY <1>2, <1>5, <2>5, <3>1
    <3>2. CASE k \notin 1..m
      <4>1. PICK kk \in 1..n : k = m + kk
        BY <1>3, <3>2
      <4> QED BY <1>2, <1>5, <2>5, <3>2, <4>1
    <3> QED BY <3>1, <3>2
  <2>2. CASE g \in 1..m /\ h \notin 1..m
    BY <2>2, <2>5
  <2>3. CASE g \notin 1..m /\ h \in 1..m
    BY <2>3, <2>5
  <2>4. CASE g \notin 1..m /\ h \notin 1..m
    <3>1. PICK gg \in 1..n : g = m + gg
      BY <1>3, <2>4
    <3>2. PICK hh \in 1..n : h = m + hh
      BY <1>3, <2>4
    <3>3. gg # hh /\ x \in Range(b[gg]) /\ x \in Range(b[hh])
      BY <1>2, <3>1, <3>2
    <3> QED BY <1>5, <3>3 DEF Disjoint, n
  <2> QED BY <2>1, <2>2, <2>3, <2>4
<1> QED BY <1>2, <1>6, <1>7, <1>8 DEF Packs, c, m, n, S

(* Packings of different boundables, strung together.                       *)
LEMMA FlattenPacks ==
  ASSUME NEW n \in Nat, n >= 1, NEW gs, gs = [j \in 1..n |-> gs[j]], NEW X,
         \A j \in 1..n : Packs(gs[j], X[j]) /\ Len(gs[j]) >= 1,
         \A j, k \in 1..n : j # k => X[j] \cap X[k] = {}
  PROVE  /\ Packs(FlattenSeq(gs), UNION {X[j] : j \in 1..n})
         /\ Len(FlattenSeq(gs)) >= 1
<1> DEFINE S == Seq(Seq(Boundables))
           F == [1..n -> S]
           Body(f, i) == IF i = 1 THEN gs[i] ELSE f[i - 1] \o gs[i]
           step == [x \in (1..n) \X F |-> Body(x[2], x[1])]
           L == CHOOSE f : f = [i \in 1..n |-> Body(f, i)]
           Upto(k) == UNION {X[j] : j \in 1..k}
<1>1. \A j \in 1..n : gs[j] \in S
  BY DEF Packs
<1>2. Len(gs) = n
  BY <1>1, SequenceOf
<1>3. FlattenSeq(gs) = L[n]
  BY <1>2 DEF FlattenSeq
<1>4. ASSUME NEW f \in F, NEW i \in 1..n PROVE Body(f, i) \in S
  <2>1. CASE i = 1
    BY <1>1, <2>1
  <2>2. CASE i # 1
    <3>1. i - 1 \in 1..n
      BY <2>2
    <3>2. f[i - 1] \in S /\ gs[i] \in S
      BY <1>1, <3>1
    <3> QED BY <2>2, <3>2
  <2> QED BY <2>1, <2>2
<1>5. ASSUME NEW f \in F, NEW g \in F, NEW i \in 1..n, \A j \in 1..i - 1 : f[j] = g[j]
      PROVE  Body(f, i) = Body(g, i)
  <2>1. i = 1 \/ i - 1 \in 1..i - 1
    OBVIOUS
  <2> QED BY <1>5, <2>1
<1> HIDE DEF Body, S
<1>6. \A x \in 1..n, g \in F : step[<<x, g>>] = Body(g, x)
  OBVIOUS
<1>7. step \in [(1..n) \X F -> S]
  BY <1>4
<1> HIDE DEF step
<1>8. LooksBack(step, S, n)
  <2>1. \A f, g \in F, k \in 1..n : (\A j \in 1..k - 1 : f[j] = g[j]) => step[<<k, f>>] = step[<<k, g>>]
    <3> HIDE DEF F
    <3> QED BY <1>5, <1>6
  <2> QED BY <1>7, <2>1 DEF LooksBack
<1>9. \E f \in F : \A k \in 1..n : f[k] = step[<<k, f>>]
  <2>1. n \in 1..n
    OBVIOUS
  <2>2. PICK base : base \in S
    BY <1>1, <2>1
  <2> QED BY <1>8, <2>2, RecursionExists
<1>10. \E f : f = [i \in 1..n |-> Body(f, i)]
  <2>1. PICK f \in F : \A k \in 1..n : f[k] = step[<<k, f>>]
    BY <1>9
  <2>2. \A k \in 1..n : f[k] = Body(f, k)
    BY <1>6, <2>1
  <2>3. f = [i \in 1..n |-> f[i]]
    BY <2>1
  <2>4. f = [i \in 1..n |-> Body(f, i)]
    BY <2>2, <2>3
  <2> QED BY <2>4
<1>11. L = [i \in 1..n |-> Body(L, i)]
  BY <1>10
<1> HIDE DEF L
<1>12. \A i \in 1..n : L[i] = Body(L, i)
  BY <1>11
<1> DEFINE T == {k \in 1..n : Packs(L[k], Upto(k)) /\ Len(L[k]) >= 1}
<1>13. 1 \in T
  <2>1. 1 \in 1..n /\ L[1] = gs[1]
    BY <1>12 DEF Body
  <2>2. Upto(1) = X[1]
    BY <2>1
  <2> QED BY <2>1, <2>2
<1>14. ASSUME NEW k \in 1..n - 1, k \in T PROVE k + 1 \in T
  <2>1. k + 1 \in 1..n /\ (k + 1) - 1 = k /\ k + 1 # 1 /\ k \in 1..n
    OBVIOUS
  <2>2. L[k + 1] = L[k] \o gs[k + 1]
    BY <1>12, <2>1 DEF Body
  <2>3. Upto(k + 1) = Upto(k) \cup X[k + 1]
    <3>1. \A j \in 1..k + 1 : j \in 1..k \/ j = k + 1
      BY <2>1
    <3>2. \A j \in 1..k : j \in 1..k + 1
      BY <2>1
    <3>3. k + 1 \in 1..k + 1
      BY <2>1
    <3> QED BY <3>1, <3>2, <3>3
  <2>4. Upto(k) \cap X[k + 1] = {}
    <3>1. \A j \in 1..k : j \in 1..n /\ j # k + 1
      BY <2>1
    <3> QED BY <2>1, <3>1
  <2>5. Packs(L[k], Upto(k)) /\ Len(L[k]) >= 1 /\ Packs(gs[k + 1], X[k + 1])
    BY <1>14, <2>1
  <2> HIDE DEF Upto
  <2>6. Packs(L[k] \o gs[k + 1], Upto(k) \cup X[k + 1])
        /\ Len(L[k] \o gs[k + 1]) = Len(L[k]) + Len(gs[k + 1])
    BY <2>4, <2>5, ConcatPacks
  <2>7. Len(L[k]) \in Nat /\ Len(gs[k + 1]) \in Nat
    BY <2>5 DEF Packs
  <2>8. Len(L[k] \o gs[k + 1]) >= 1
    <3> DEFINE a == Len(L[k])
               b == Len(gs[k + 1])
               c == Len(L[k] \o gs[k + 1])
    <3>1. c = a + b /\ a \in Nat /\ b \in Nat /\ a >= 1
      BY <2>5, <2>6, <2>7
    <3> HIDE DEF a, b, c
    <3>2. c >= 1
      BY <3>1
    <3> QED BY <3>2 DEF c
  <2> QED BY <2>1, <2>2, <2>3, <2>6, <2>8
<1> HIDE DEF T
<1>15. n \in T
  <2>1. 1 \in Int /\ n \in Int /\ 1 <= n /\ n \in 1..n
    OBVIOUS
  <2>2. 1..n \subseteq T
    BY <1>13, <1>14, <2>1, IntervalInduction
  <2> QED BY <2>1, <2>2
<1> QED BY <1>3, <1>15 DEF T

(* The children of the parents that are created for a level: every          *)
(* boundable has one parent, and every parent a child.                      *)
LEMMA ParentsPack ==
  ASSUME NEW s \in Seq(Boundables), OneToOne(s), s # <<>>
  PROVE  Packs(Parents(s), Range(s)) /\ Len(Parents(s)) >= 1
<1> DEFINE n == Len(s)
           count == SliceCount(n)
           q == CeilDiv(n, count)
           lo(j) == (j - 1) * q + 1
           hi(j) == Least(j * q, n)
           slice(j) == SubSeq(s, lo(j), hi(j))
           gs == [j \in 1..count |-> Runs(slice(j))]
           X == [j \in 1..count |-> Range(slice(j))]
<1>1. n \in Nat /\ n >= 1 /\ DOMAIN s = 1..n
  OBVIOUS
<1>2. /\ count \in Nat /\ count >= 1 /\ q \in Nat /\ q >= 1
      /\ (count - 1) * q < n /\ n <= count * q
  BY <1>1, SlicesFit
<1>3. Parents(s) = FlattenSeq(gs)
  <2>1. VerticalSlices(s, count) = [j \in 1..count |-> slice(j)]
    BY DEF VerticalSlices
  <2>2. Parents(s) = FlattenSeq([j \in DOMAIN VerticalSlices(s, count) |-> Runs(VerticalSlices(s, count)[j])])
    BY DEF Parents
  <2> HIDE DEF slice
  <2>3. [j \in DOMAIN VerticalSlices(s, count) |-> Runs(VerticalSlices(s, count)[j])] = gs
    BY <2>1
  <2> QED BY <2>2, <2>3
<1> HIDE DEF count, q
<1>4. ASSUME NEW j \in 1..count
      PROVE  /\ lo(j) \in 1..n /\ hi(j) \in 1..n /\ lo(j) <= hi(j) /\ hi(j) <= j * q /\ j * q \in Int
             /\ lo(j) = (j - 1) * q + 1 /\ (j - 1) * q \in Nat
  <2>1. j \in Nat /\ j - 1 \in Nat /\ j - 1 <= count - 1 /\ count - 1 \in Nat
    BY <1>2
  <2>2. (j - 1) * q <= (count - 1) * q /\ (j - 1) * q \in Nat /\ (count - 1) * q \in Nat
    BY <1>2, <2>1, TimesGrows
  <2>3. j * q = (j - 1) * q + q /\ j * q \in Nat
    BY <1>2, <2>1
  <2> QED BY <1>1, <1>2, <2>1, <2>2, <2>3 DEF Least
<1> HIDE DEF lo, hi
<1>5. ASSUME NEW j \in 1..count
      PROVE  /\ slice(j) \in Seq(Boundables) /\ slice(j) # <<>> /\ OneToOne(slice(j))
             /\ Range(slice(j)) = {s[i] : i \in lo(j)..hi(j)}
  <2> DEFINE a == lo(j)
             b == hi(j)
             r == SubSeq(s, a, b)
  <2>1. a \in 1..n /\ b \in 1..n /\ a <= b
    BY <1>4
  <2> HIDE DEF a, b
  <2>2. /\ r \in Seq(Boundables) /\ Len(r) = b - a + 1
        /\ \A i \in 1..b - a + 1 : r[i] = s[a + i - 1]
    BY <1>1, <2>1
  <2> HIDE DEF r
  <2>3. \A i \in 1..b - a + 1 : a + i - 1 \in a..b /\ a + i - 1 \in 1..n
    BY <1>1, <2>1
  <2>4. r # <<>>
    BY <2>1, <2>2
  <2>5. OneToOne(r)
    <3> SUFFICES ASSUME NEW i \in 1..b - a + 1, NEW k \in 1..b - a + 1, i # k PROVE r[i] # r[k]
      BY <2>2 DEF OneToOne
    <3>1. a + i - 1 # a + k - 1
      BY <2>1
    <3> QED BY <2>2, <2>3, <3>1 DEF OneToOne
  <2>6. Range(r) = {s[i] : i \in a..b}
    <3>1. DOMAIN r = 1..b - a + 1
      BY <2>2
    <3>2. ASSUME NEW i \in a..b PROVE \E k \in 1..b - a + 1 : s[i] = r[k]
      <4>1. i - a + 1 \in 1..b - a + 1 /\ a + (i - a + 1) - 1 = i
        BY <2>1
      <4> QED BY <2>2, <4>1
    <3>3. \A x : x \in Range(r) <=> \E k \in 1..b - a + 1 : x = r[k]
      BY <3>1 DEF Range
    <3>4. ASSUME NEW x \in Range(r) PROVE x \in {s[i] : i \in a..b}
      BY <2>2, <2>3, <3>3
    <3>5. ASSUME NEW i \in a..b PROVE s[i] \in Range(r)
      BY <3>2, <3>3
    <3> QED BY <3>4, <3>5
  <2> QED BY <2>2, <2>4, <2>5, <2>6 DEF a, b, r
<1> HIDE DEF slice
<1>6. \A j \in 1..count : gs[j] = Runs(slice(j)) /\ X[j] = Range(slice(j))
  OBVIOUS
<1>7. gs = [j \in 1..count |-> gs[j]]
  OBVIOUS
<1> HIDE DEF gs, X
<1>8. \A j \in 1..count : Packs(gs[j], X[j]) /\ Len(gs[j]) >= 1
  BY <1>5, <1>6, RunsPack
<1>9. ASSUME NEW j \in 1..count, NEW k \in 1..count, j < k PROVE X[j] \cap X[k] = {}
  <2>1. j * q <= (k - 1) * q
    BY <1>2, <1>9, TimesGrows
  <2>2. hi(j) < lo(k)
    BY <1>4, <2>1
  <2>3. ASSUME NEW i \in lo(j)..hi(j), NEW h \in lo(k)..hi(k) PROVE s[i] # s[h]
    <3>1. i \in 1..n /\ h \in 1..n /\ i # h
      BY <1>4, <2>2
    <3> QED BY <3>1 DEF OneToOne
  <2> QED BY <1>5, <1>6, <2>3
<1>10. \A j, k \in 1..count : j # k => X[j] \cap X[k] = {}
  <2> SUFFICES ASSUME NEW j \in 1..count, NEW k \in 1..count, j # k PROVE X[j] \cap X[k] = {}
    OBVIOUS
  <2>1. j < k \/ k < j
    OBVIOUS
  <2> QED BY <1>9, <2>1
<1>11. UNION {X[j] : j \in 1..count} = Range(s)
  <2>1. ASSUME NEW i \in 1..n PROVE \E j \in 1..count : s[i] \in X[j]
    <3> DEFINE d == (i - 1) \div q
               j == d + 1
    <3>1. d \in Nat /\ q * d <= i - 1 /\ i - 1 < q * d + q /\ q * d = d * q
      BY <1>2
    <3> HIDE DEF d
    <3>2. d < count
      <4> SUFFICES ASSUME count <= d PROVE FALSE
        BY <1>2, <3>1
      <4>1. count * q <= d * q /\ d * q \in Nat
        BY <1>2, <3>1, TimesGrows
      <4> QED BY <1>1, <1>2, <3>1, <4>1
    <3>3. j \in 1..count /\ j - 1 = d /\ j * q = d * q + q
      BY <1>2, <3>1, <3>2
    <3>4. lo(j) = d * q + 1 /\ hi(j) = Least(d * q + q, n)
      BY <3>3 DEF lo, hi
    <3>5. i \in lo(j)..hi(j)
      BY <1>1, <1>2, <3>1, <3>4 DEF Least
    <3> HIDE DEF j
    <3> QED BY <1>5, <1>6, <3>3, <3>5
  <2>2. ASSUME NEW j \in 1..count, NEW x \in X[j] PROVE x \in Range(s)
    <3>1. \A i \in lo(j)..hi(j) : i \in 1..n
      BY <1>4
    <3>2. PICK i \in lo(j)..hi(j) : x = s[i]
      BY <1>5, <1>6
    <3> QED BY <1>1, <3>1, <3>2 DEF Range
  <2>3. \A x : x \in Range(s) <=> \E i \in 1..n : x = s[i]
    BY <1>1 DEF Range
  <2> HIDE DEF n
  <2>4. Range(s) \subseteq UNION {X[j] : j \in 1..count}
    BY <2>1, <2>3
  <2>5. UNION {X[j] : j \in 1..count} \subseteq Range(s)
    BY <2>2
  <2> QED BY <2>4, <2>5
<1> HIDE DEF n
<1>12. /\ Packs(FlattenSeq(gs), UNION {X[j] : j \in 1..count})
       /\ Len(FlattenSeq(gs)) >= 1
  BY <1>2, <1>7, <1>8, <1>10, FlattenPacks
<1> QED BY <1>3, <1>11, <1>12

-----------------------------------------------------------------------------
(* The invariant                                                            *)

Kid(t, n) == \E p \in 1..Len(t) : Node(n) \in Range(t[p].children)

LevelOf(t, c) == IF c.kind = "item" THEN -1 ELSE t[c.id].level

Levels(t) ==
  /\ \A n \in 1..Len(t) : \A c \in Range(t[n].children) : t[n].level = 1 + LevelOf(t, c)
  /\ \A n \in 1..Len(t) : t[n].level <= t[Len(t)].level

OneParent(t) ==
  \A j, k \in 1..Len(t) : j # k => Range(t[j].children) \cap Range(t[k].children) = {}

KidsFilled(t) ==
  \A n \in 1..Len(t) : Kid(t, n) => Len(t[n].children) \in 1..NodeCapacity

(* A tree of m items in every stage of its life                             *)
SoundTree(t, its) ==
  /\ Tree(t, Len(its)) /\ Levels(t) /\ OneParent(t) /\ KidsFilled(t)
  /\ KnownBelow(t) /\ Covered(t, its)

(* The level reached by a build under way: the last nodes, which have no    *)
(* parents yet and hold every item between them.                            *)
Underway ==
  /\ items # <<>>
  /\ Len(current) \in 2..Len(nodes)
  /\ current = [k \in 1..Len(current) |-> Node(Len(nodes) - Len(current) + k)]
  /\ \A n \in Len(nodes) - Len(current) + 1..Len(nodes) :
       /\ ~Kid(nodes, n)
       /\ nodes[n].level = nodes[Len(nodes)].level
       /\ Len(nodes[n].children) \in 1..NodeCapacity
  /\ \A i \in DOMAIN items :
       \E n \in Len(nodes) - Len(current) + 1..Len(nodes) : i \in Under(nodes)[n]

Stage ==
  \/ root = 0 /\ nodes = <<>> /\ current = <<>>
  \/ root = 0 /\ call # NoCall /\ Underway
  \/ root = Len(nodes) /\ root # 0 /\ current = <<>>

Typed ==
  /\ items \in Seq(Boxes) /\ Len(items) <= MaxItems
  /\ call \in {NoCall} \cup Calls
  /\ crashed \in BOOLEAN

IInv == Typed /\ SoundTree(nodes, items) /\ Stage

-----------------------------------------------------------------------------
(* Building a level                                                         *)

(* Sorting moves boundables about.                                          *)
LEMMA SortedKeeps ==
  ASSUME NEW level \in Seq(Boundables), NEW t, NEW s \in Sorted(level, t)
  PROVE  /\ s \in Seq(Boundables) /\ Len(s) = Len(level) /\ Range(s) = Range(level)
         /\ OneToOne(level) => OneToOne(s)
<1> DEFINE n == Len(level)
<1>1. n \in Nat /\ DOMAIN level = 1..n /\ \A k \in 1..n : level[k] \in Boundables
  OBVIOUS
<1>2. PICK p \in Bijection(1..n, 1..n) : s = [k \in 1..n |-> level[p[k]]]
  BY <1>1 DEF Sorted
<1>3. /\ p \in [1..n -> 1..n]
      /\ \A j, k \in 1..n : p[j] = p[k] => j = k
      /\ \A k \in 1..n : \E j \in 1..n : p[j] = k
  <2>1. p \in Injection(1..n, 1..n) /\ p \in Surjection(1..n, 1..n)
    BY <1>2 DEF Bijection
  <2>2. p \in [1..n -> 1..n] /\ IsInjective(p)
    BY <2>1 DEF Injection
  <2>3. \A k \in 1..n : \E j \in 1..n : p[j] = k
    BY <2>1 DEF Surjection
  <2>4. \A j, k \in 1..n : p[j] = p[k] => j = k
    BY <2>2 DEF IsInjective
  <2> QED BY <2>2, <2>3, <2>4
<1>4. \A k \in 1..n : s[k] = level[p[k]] /\ p[k] \in 1..n
  BY <1>2, <1>3
<1>5. s \in Seq(Boundables) /\ Len(s) = n
  <2>1. DOMAIN s = 1..n /\ s = [k \in 1..n |-> s[k]] /\ \A k \in 1..n : s[k] \in Boundables
    BY <1>1, <1>2, <1>3
  <2> HIDE DEF n
  <2> QED BY <1>1, <2>1, SequenceOf
<1>6. Range(s) = Range(level)
  <2>1. DOMAIN s = 1..n
    BY <1>2
  <2> HIDE DEF n
  <2>2. Range(s) \subseteq Range(level)
    BY <1>1, <1>4, <2>1 DEF Range
  <2>3. Range(level) \subseteq Range(s)
    BY <1>1, <1>3, <1>4, <2>1 DEF Range
  <2> QED BY <2>2, <2>3
<1>7. OneToOne(level) => OneToOne(s)
  <2> SUFFICES ASSUME OneToOne(level), NEW j \in 1..n, NEW k \in 1..n, j # k PROVE s[j] # s[k]
    BY <1>5 DEF OneToOne
  <2>1. p[j] # p[k] /\ p[j] \in 1..n /\ p[k] \in 1..n
    BY <1>3, <1>4
  <2>2. level[p[j]] # level[p[k]]
    BY <2>1 DEF OneToOne
  <2> QED BY <1>4, <2>2
<1> QED BY <1>5, <1>6, <1>7

(* The new nodes of a level                                                 *)
Created(groups, v) == [k \in DOMAIN groups |-> [level |-> v, children |-> groups[k], bounds |-> Null]]

Appended(u, t, groups, v) ==
  /\ u \in Seq(TreeNode) /\ Len(u) = Len(t) + Len(groups)
  /\ Len(t) \in Nat /\ Len(groups) \in Nat
  /\ \A n \in 1..Len(t) : u[n] = t[n]
  /\ \A k \in 1..Len(groups) : /\ u[Len(t) + k].level = v
                               /\ u[Len(t) + k].children = groups[k]
                               /\ u[Len(t) + k].bounds = Null
  /\ \A n \in 1..Len(t) + Len(groups) : n \in 1..Len(t) \/ \E k \in 1..Len(groups) : n = Len(t) + k
  /\ \A n \in 1..Len(t) : n \in 1..Len(u)
  /\ \A k \in 1..Len(groups) : Len(t) + k \in 1..Len(u) /\ Len(t) + k \notin 1..Len(t)

LEMMA CreatedNodes ==
  ASSUME NEW m \in Nat, NEW t, Tree(t, m), NEW v \in Nat, NEW groups \in Seq(Seq(Boundables))
  PROVE  Appended(t \o Created(groups, v), t, groups, v)
<1> DEFINE c == Created(groups, v)
           N == Len(t)
           L == Len(groups)
           u == t \o c
<1>1. N \in Nat /\ L \in Nat /\ t \in Seq(TreeNode) /\ \A k \in 1..L : groups[k] \in Seq(Boundables)
  BY DEF Tree
<1>2. /\ DOMAIN c = 1..L /\ c = [k \in 1..L |-> c[k]]
      /\ \A k \in 1..L : c[k] = [level |-> v, children |-> groups[k], bounds |-> Null]
  BY DEF Created
<1>3. \A k \in 1..L : c[k] \in TreeNode
  <2> HIDE DEF Boundables, Box, Null, c, L
  <2> QED BY <1>1, <1>2 DEF TreeNode
<1> HIDE DEF c, L
<1>4. c \in Seq(TreeNode) /\ Len(c) = L
  BY <1>1, <1>2, <1>3, SequenceOf
<1> HIDE DEF N
<1>5. /\ u \in Seq(TreeNode) /\ Len(u) = N + L
      /\ \A n \in 1..N : u[n] = t[n]
      /\ \A k \in 1..L : u[N + k] = c[k]
  <2> DEFINE S == TreeNode
  <2>1. t \in Seq(S) /\ c \in Seq(S)
    BY <1>1, <1>4
  <2> HIDE DEF S
  <2>2. t \o c \in Seq(S) /\ Len(t \o c) = Len(t) + Len(c)
    BY <2>1
  <2>3. \A n \in 1..Len(t) : (t \o c)[n] = t[n]
    BY <2>1
  <2>4. \A k \in 1..Len(c) : (t \o c)[Len(t) + k] = c[k]
    BY <2>1
  <2> HIDE DEF TreeNode
  <2> QED BY <1>4, <2>2, <2>3, <2>4 DEF N, S
<1>6. \A n \in 1..N + L : n \in 1..N \/ \E k \in 1..L : n = N + k
  <2> SUFFICES ASSUME NEW n \in 1..N + L, n \notin 1..N PROVE \E k \in 1..L : n = N + k
    OBVIOUS
  <2>1. n - N \in 1..L /\ n = N + (n - N)
    BY <1>1
  <2> QED BY <2>1
<1>7. (\A n \in 1..N : n \in 1..N + L) /\ \A k \in 1..L : N + k \in 1..N + L /\ N + k \notin 1..N
  BY <1>1
<1>8. \A k \in 1..L : c[k].level = v /\ c[k].children = groups[k] /\ c[k].bounds = Null
  BY <1>2
<1> HIDE DEF u
<1>9. Appended(u, t, groups, v)
  BY <1>1, <1>5, <1>6, <1>7, <1>8 DEF N, L, Appended
<1> QED BY <1>9 DEF u, c

(* More nodes do not change what is under the others.                       *)
LEMMA UnderAppended ==
  ASSUME NEW m \in Nat, NEW t, Tree(t, m), NEW u, Tree(u, m), Len(t) <= Len(u),
         \A n \in 1..Len(t) : u[n].children = t[n].children
  PROVE  \A n \in 1..Len(t) : Under(u)[n] = Under(t)[n]
<1> DEFINE N == Len(t)
           A == Under(t)
           B == Under(u)
           T == {n \in 1..N : B[n] = A[n]}
<1>1. N \in Nat /\ Len(u) \in Nat /\ \A n \in 1..N : n \in 1..Len(u)
  <2>1. N \in Nat /\ Len(u) \in Nat
    BY NodeFields
  <2> QED BY <2>1
<1>2. A \in [1..N -> SUBSET Nat] /\ B \in [1..Len(u) -> SUBSET Nat]
  BY UnderUnfold
<1>3. \A n \in 1..N, i \in Nat : i \in A[n] <=>
         \E c \in Range(t[n].children) : IF c.kind = "item" THEN i = c.id ELSE i \in A[c.id]
  BY UnderUnfold
<1>4. \A n \in 1..N, i \in Nat : i \in B[n] <=>
         \E c \in Range(t[n].children) : IF c.kind = "item" THEN i = c.id ELSE i \in B[c.id]
  <2>1. \A n \in 1..Len(u), i \in Nat : i \in B[n] <=>
           \E c \in Range(u[n].children) : IF c.kind = "item" THEN i = c.id ELSE i \in B[c.id]
    BY UnderUnfold
  <2> HIDE DEF B
  <2> QED BY <1>1, <2>1
<1> HIDE DEF A, B
<1>5. ASSUME NEW n \in 1..N, \A j \in 1..n - 1 : j \in T PROVE n \in T
  <2>1. \A c \in Range(t[n].children) : c.kind # "item" => A[c.id] = B[c.id]
    <3>1. \A c \in Range(t[n].children) : Below(c, n, m)
      BY NodeFields
    <3> QED BY <1>5, <3>1 DEF Below
  <2>2. \A i \in Nat : i \in A[n] <=> i \in B[n]
    BY <1>3, <1>4, <2>1
  <2>3. A[n] \subseteq Nat /\ B[n] \subseteq Nat
    BY <1>1, <1>2
  <2>4. A[n] = B[n]
    BY <2>2, <2>3
  <2> QED BY <2>4
<1> HIDE DEF T, N
<1>6. \A n \in 1..N : n \in T
  BY <1>1, <1>5, StrongInduction
<1> QED BY <1>6 DEF T, A, B, N

(* A level that is ready for its parents: boundables of one level that have *)
(* no parents, know their bounds and hold every item between them.          *)
Ready(level, t, m, v) ==
  /\ level \in Seq(Boundables) /\ level # <<>> /\ OneToOne(level) /\ v \in Nat
  /\ \A c \in Range(level) :
       /\ Below(c, Len(t) + 1, m)
       /\ v = 1 + LevelOf(t, c)
       /\ \A p \in 1..Len(t) : c \notin Range(t[p].children)
       /\ c.kind = "node" => t[c.id].bounds # Null /\ Len(t[c.id].children) \in 1..NodeCapacity
  /\ \A n \in 1..Len(t) : t[n].level <= v
  /\ \A i \in 1..m : \E c \in Range(level) : IF c.kind = "item" THEN i = c.id ELSE i \in Under(t)[c.id]

(* The parents of such a level make a sound tree of it.                     *)
LEMMA LevelAdded ==
  ASSUME NEW its, Len(its) \in Nat, NEW t, SoundTree(t, its),
         NEW level, NEW v, Ready(level, t, Len(its), v),
         NEW groups, Packs(groups, Range(level)), Len(groups) >= 1
  PROVE  LET u == t \o Created(groups, v)
             New == Len(t) + 1..Len(u)
         IN  /\ SoundTree(u, its) /\ Len(u) = Len(t) + Len(groups)
             /\ \A n \in New : /\ ~Kid(u, n) /\ u[n].level = v
                               /\ Len(u[n].children) \in 1..NodeCapacity
             /\ \A i \in 1..Len(its) : \E n \in New : i \in Under(u)[n]
<1> DEFINE u == t \o Created(groups, v)
           N == Len(t)
           L == Len(groups)
           m == Len(its)
           R == Range(level)
           kids(n) == Range(u[n].children)
<1>1. Tree(t, m) /\ m \in Nat /\ v \in Nat /\ groups \in Seq(Seq(Boundables)) /\ R \subseteq Boundables
  <2>1. level \in Seq(Boundables)
    BY DEF Ready
  <2>2. R \subseteq Boundables
    BY <2>1 DEF Range
  <2> QED BY <2>2 DEF SoundTree, Ready, Packs
<1>2. /\ u \in Seq(TreeNode) /\ Len(u) = N + L /\ N \in Nat /\ L \in Nat
      /\ \A n \in 1..N : u[n] = t[n]
      /\ \A k \in 1..L : /\ u[N + k].level = v /\ u[N + k].children = groups[k]
                         /\ u[N + k].bounds = Null
      /\ \A n \in 1..Len(u) : n \in 1..N \/ \E k \in 1..L : n = N + k
      /\ \A n \in 1..N : n \in 1..Len(u)
      /\ \A k \in 1..L : N + k \in 1..Len(u) /\ N + k \notin 1..N
  <2>1. Appended(u, t, groups, v)
    BY <1>1, CreatedNodes
  <2> HIDE DEF u
  <2> QED BY <2>1 DEF Appended
<1> HIDE DEF u
<1>3. /\ L >= 1 /\ Len(u) \in N + 1..Len(u)
      /\ \A n \in N + 1..Len(u) : n \in 1..Len(u) /\ n \notin 1..N /\ \E k \in 1..L : n = N + k
      /\ \A k \in 1..L : N + k \in N + 1..Len(u)
  <2>1. L >= 1
    OBVIOUS
  <2>2. \A n \in N + 1..N + L : n \in 1..N + L /\ n \notin 1..N /\ n - N \in 1..L /\ n = N + (n - N)
    BY <1>2
  <2>3. \A k \in 1..L : N + k \in N + 1..N + L
    BY <1>2
  <2>4. N + L \in N + 1..N + L
    BY <1>2, <2>1
  <2> HIDE DEF N, L
  <2>5. \A n \in N + 1..N + L : \E k \in 1..L : n = N + k
    BY <2>2
  <2> QED BY <1>2, <2>1, <2>2, <2>3, <2>4, <2>5
<1>4. \A n \in 1..N : /\ kids(n) = Range(t[n].children) /\ kids(n) \cap R = {}
  BY <1>2 DEF Ready
<1>5. \A n \in N + 1..Len(u) : /\ kids(n) \subseteq R /\ u[n].level = v /\ u[n].bounds = Null
                               /\ Len(u[n].children) \in 1..NodeCapacity
  <2> SUFFICES ASSUME NEW n \in N + 1..Len(u)
               PROVE  /\ kids(n) \subseteq R /\ u[n].level = v /\ u[n].bounds = Null
                      /\ Len(u[n].children) \in 1..NodeCapacity
    OBVIOUS
  <2>1. PICK k \in 1..L : n = N + k
    BY <1>3
  <2>2. u[n].level = v /\ u[n].children = groups[k] /\ u[n].bounds = Null
    BY <1>2, <2>1
  <2>3. Range(groups[k]) \subseteq R /\ Len(groups[k]) \in 1..NodeCapacity
    BY DEF Packs
  <2> QED BY <2>2, <2>3
<1>6. \A n \in 1..Len(u) : n \in 1..N \/ n \in N + 1..Len(u)
  BY <1>2, <1>3
<1>7. \A c \in R : /\ c \in Boundables /\ Below(c, N + 1, m) /\ LevelOf(t, c) = v - 1
                   /\ c.kind = "node" => /\ c.id \in 1..N /\ t[c.id].bounds # Null
                                         /\ Len(t[c.id].children) \in 1..NodeCapacity
                   /\ LevelOf(u, c) = LevelOf(t, c)
  <2> SUFFICES ASSUME NEW c \in R
               PROVE  /\ c \in Boundables /\ Below(c, N + 1, m) /\ LevelOf(t, c) = v - 1
                      /\ c.kind = "node" => /\ c.id \in 1..N /\ t[c.id].bounds # Null
                                            /\ Len(t[c.id].children) \in 1..NodeCapacity
                      /\ LevelOf(u, c) = LevelOf(t, c)
    OBVIOUS
  <2>1. Below(c, N + 1, m) /\ v = 1 + LevelOf(t, c)
        /\ (c.kind = "node" => t[c.id].bounds # Null /\ Len(t[c.id].children) \in 1..NodeCapacity)
    BY DEF Ready
  <2>2. c.kind = "item" \/ (c.kind = "node" /\ c.id \in 1..N)
    BY <1>2, <2>1 DEF Below
  <2>3. LevelOf(t, c) \in Int
    <3>1. \A n \in 1..N : t[n].level \in Nat
      BY <1>1, NodeFields
    <3> QED BY <2>2, <3>1 DEF LevelOf
  <2>4. LevelOf(t, c) = v - 1
    BY <1>1, <2>1, <2>3
  <2>5. LevelOf(u, c) = LevelOf(t, c)
    BY <1>2, <2>2 DEF LevelOf
  <2> QED BY <1>1, <2>1, <2>2, <2>4, <2>5
<1>8. Tree(u, m)
  <2>1. ASSUME NEW n \in 1..Len(u), NEW c \in kids(n) PROVE Below(c, n, m)
    <3>1. CASE n \in 1..N
      BY <1>1, <1>2, <3>1 DEF Tree
    <3>2. CASE n \in N + 1..Len(u)
      <4>1. Below(c, N + 1, m) /\ N + 1 <= n /\ n \in Nat
        BY <1>2, <1>5, <1>7, <3>2
      <4> QED BY <1>2, <4>1 DEF Below
    <3> QED BY <1>6, <3>1, <3>2
  <2> QED BY <1>2, <2>1 DEF Tree
<1>9. \A n \in 1..N : Under(u)[n] = Under(t)[n]
  <2>1. N <= Len(u)
    BY <1>2
  <2>2. \A n \in 1..N : u[n].children = t[n].children
    BY <1>2
  <2>3. Tree(u, m) /\ Tree(t, m) /\ m \in Nat
    BY <1>1, <1>8
  <2> HIDE DEF m
  <2> QED BY <2>1, <2>2, <2>3, UnderAppended
<1>10. Levels(u)
  <2>1. ASSUME NEW n \in 1..Len(u), NEW c \in kids(n) PROVE u[n].level = 1 + LevelOf(u, c)
    <3>1. CASE n \in 1..N
      <4>1. u[n].level = 1 + LevelOf(t, c)
        BY <1>2, <3>1 DEF SoundTree, Levels
      <4>2. Below(c, n, m)
        BY <1>8 DEF Tree
      <4>3. c.kind = "item" \/ c.id \in 1..N
        BY <1>2, <3>1, <4>2 DEF Below
      <4> QED BY <1>2, <4>1, <4>3 DEF LevelOf
    <3>2. CASE n \in N + 1..Len(u)
      <4>1. u[n].level = v /\ LevelOf(u, c) = v - 1
        BY <1>5, <1>7, <3>2
      <4> QED BY <1>1, <4>1
    <3> QED BY <1>6, <3>1, <3>2
  <2>2. ASSUME NEW n \in 1..Len(u) PROVE u[n].level <= u[Len(u)].level
    <3>1. u[Len(u)].level = v
      BY <1>3, <1>5
    <3>2. CASE n \in 1..N
      BY <1>2, <3>1, <3>2 DEF Ready
    <3>3. CASE n \in N + 1..Len(u)
      BY <1>1, <1>5, <3>1, <3>3
    <3> QED BY <1>6, <3>2, <3>3
  <2> QED BY <2>1, <2>2 DEF Levels
<1>11. OneParent(u)
  <2> SUFFICES ASSUME NEW j \in 1..Len(u), NEW k \in 1..Len(u), j # k
               PROVE  kids(j) \cap kids(k) = {}
    BY DEF OneParent
  <2>1. CASE j \in 1..N /\ k \in 1..N
    BY <1>4, <2>1 DEF SoundTree, OneParent
  <2>2. CASE j \in 1..N /\ k \in N + 1..Len(u)
    BY <1>4, <1>5, <2>2
  <2>3. CASE k \in 1..N /\ j \in N + 1..Len(u)
    BY <1>4, <1>5, <2>3
  <2>4. CASE j \in N + 1..Len(u) /\ k \in N + 1..Len(u)
    <3>1. PICK g \in 1..L : j = N + g
      BY <1>3, <2>4
    <3>2. PICK h \in 1..L : k = N + h
      BY <1>3, <2>4
    <3>3. kids(j) = Range(groups[g]) /\ kids(k) = Range(groups[h]) /\ g # h
      BY <1>2, <3>1, <3>2
    <3> QED BY <3>3 DEF Packs, Disjoint
  <2> QED BY <1>6, <2>1, <2>2, <2>3, <2>4
<1>12. \A n \in N + 1..Len(u) : ~Kid(u, n)
  <2> SUFFICES ASSUME NEW n \in N + 1..Len(u), NEW p \in 1..Len(u), Node(n) \in kids(p) PROVE FALSE
    BY DEF Kid
  <2>1. Node(n).kind = "node" /\ Node(n).id = n
    BY DEF Node
  <2>2. CASE p \in 1..N
    <3>1. Below(Node(n), p, m)
      BY <1>8 DEF Tree
    <3>2. n \in 1..p - 1
      BY <2>1, <3>1 DEF Below
    <3> QED BY <1>2, <1>3, <2>2, <3>2
  <2>3. CASE p \in N + 1..Len(u)
    <3>1. n \in 1..N
      BY <1>5, <1>7, <2>1, <2>3
    <3> QED BY <1>3, <3>1
  <2> QED BY <1>6, <2>2, <2>3
<1>13. KidsFilled(u)
  <2> SUFFICES ASSUME NEW n \in 1..Len(u), NEW p \in 1..Len(u), Node(n) \in kids(p)
               PROVE  Len(u[n].children) \in 1..NodeCapacity
    BY DEF KidsFilled, Kid
  <2>1. Node(n).kind = "node" /\ Node(n).id = n
    BY DEF Node
  <2>2. n \in 1..N
    BY <1>6, <1>12 DEF Kid
  <2>3. CASE p \in 1..N
    BY <1>2, <1>4, <2>2, <2>3 DEF SoundTree, KidsFilled, Kid
  <2>4. CASE p \in N + 1..Len(u)
    <3>1. Node(n) \in R
      BY <1>5, <2>4
    <3>2. Len(t[n].children) \in 1..NodeCapacity
      BY <1>7, <2>1, <3>1
    <3>3. u[n] = t[n]
      BY <1>2, <2>2
    <3> QED BY <3>2, <3>3
  <2> QED BY <1>6, <2>3, <2>4
<1>14. KnownBelow(u)
  <2> SUFFICES ASSUME NEW n \in 1..Len(u), NEW c \in kids(n), c.kind = "node"
               PROVE  u[c.id].bounds # Null
    BY DEF KnownBelow
  <2>1. CASE n \in 1..N
    <3>1. Below(c, n, m)
      BY <1>8 DEF Tree
    <3>2. c.id \in 1..N
      BY <1>2, <2>1, <3>1 DEF Below
    <3>3. t[c.id].bounds # Null
      BY <1>4, <2>1 DEF SoundTree, KnownBelow
    <3> QED BY <1>2, <3>2, <3>3
  <2>2. CASE n \in N + 1..Len(u)
    <3>1. c \in R
      BY <1>5, <2>2
    <3>2. c.id \in 1..N /\ t[c.id].bounds # Null
      BY <1>7, <3>1
    <3>3. u[c.id] = t[c.id]
      BY <1>2, <3>2
    <3> QED BY <3>2, <3>3
  <2> QED BY <1>6, <2>1, <2>2
<1>15. Covered(u, its)
  <2> SUFFICES ASSUME NEW n \in 1..Len(u), u[n].bounds # Null, NEW i \in Under(u)[n]
               PROVE  Covers(u[n].bounds, its[i])
    BY DEF Covered
  <2>1. n \in 1..N
    BY <1>5, <1>6
  <2> QED BY <1>2, <1>9, <2>1 DEF SoundTree, Covered
<1>16. ASSUME NEW i \in 1..m PROVE \E n \in N + 1..Len(u) : i \in Under(u)[n]
  <2>1. PICK c \in R : IF c.kind = "item" THEN i = c.id ELSE i \in Under(t)[c.id]
    BY DEF Ready
  <2>2. PICK g \in 1..L : c \in Range(groups[g])
    BY DEF Packs
  <2>3. N + g \in N + 1..Len(u) /\ N + g \in 1..Len(u) /\ c \in kids(N + g)
    BY <1>2, <1>3, <2>2
  <2>4. IF c.kind = "item" THEN i = c.id ELSE i \in Under(u)[c.id]
    <3>1. c.kind # "item" => c.id \in 1..N
      BY <1>7 DEF Below
    <3> QED BY <1>9, <2>1, <3>1
  <2>5. i \in Nat
    OBVIOUS
  <2>6. i \in Under(u)[N + g]
    BY <1>1, <1>8, <2>3, <2>4, <2>5, UnderUnfold
  <2> QED BY <2>3, <2>6
<1>17. SoundTree(u, its)
  BY <1>8, <1>10, <1>11, <1>13, <1>14, <1>15 DEF SoundTree
<1> QED BY <1>2, <1>5, <1>12, <1>16, <1>17 DEF u

(* getBounds changes nothing else of a sound tree.                          *)
LEMMA KnownSound ==
  ASSUME items \in Seq(Boxes), SoundTree(nodes, items), NEW ns
  PROVE  /\ SoundTree(WithBounds(ns), items) /\ Computed(WithBounds(ns), ns)
         /\ Under(WithBounds(ns)) = Under(nodes)
         /\ \A n : Kid(WithBounds(ns), n) <=> Kid(nodes, n)
<1> DEFINE t == WithBounds(ns)
           m == Len(items)
<1>1. /\ Tree(t, m) /\ Computed(t, ns) /\ KnownBelow(t) /\ Covered(t, items)
      /\ Under(t) = Under(nodes) /\ Tree(nodes, m)
  BY WithBoundsTree DEF SoundTree
<1>2. /\ Len(t) = Len(nodes) /\ Len(t) \in Nat
      /\ \A n \in 1..Len(t) : t[n].level = nodes[n].level /\ t[n].children = nodes[n].children
  BY <1>1, NodeFields DEF Computed, SameShape
<1> HIDE DEF t
<1>3. \A n : Kid(t, n) <=> Kid(nodes, n)
  BY <1>2 DEF Kid
<1>4. Levels(t)
  <2>1. \A n \in 1..Len(t) : \A c \in Range(t[n].children) : LevelOf(t, c) = LevelOf(nodes, c)
    <3> SUFFICES ASSUME NEW n \in 1..Len(t), NEW c \in Range(t[n].children)
                 PROVE  LevelOf(t, c) = LevelOf(nodes, c)
      OBVIOUS
    <3>1. Below(c, n, m)
      BY <1>1 DEF Tree
    <3>2. c.kind = "item" \/ c.id \in 1..Len(t)
      BY <1>2, <3>1 DEF Below
    <3> QED BY <1>2, <3>2 DEF LevelOf
  <2>2. Len(t) = 0 \/ Len(t) \in 1..Len(t)
    BY <1>2
  <2> QED BY <1>2, <2>1, <2>2 DEF SoundTree, Levels
<1>5. OneParent(t) /\ KidsFilled(t)
  BY <1>2, <1>3 DEF SoundTree, OneParent, KidsFilled
<1> QED BY <1>1, <1>3, <1>4, <1>5 DEF SoundTree, t

(* Sorting leaves a level ready.                                            *)
LEMMA SortedReady ==
  ASSUME NEW level, NEW t, NEW m, NEW v, Ready(level, t, m, v), NEW u, NEW s \in Sorted(level, u)
  PROVE  Ready(s, t, m, v) /\ s # <<>>
<1>1. level \in Seq(Boundables) /\ level # <<>> /\ OneToOne(level)
  BY DEF Ready
<1>2. s \in Seq(Boundables) /\ Len(s) = Len(level) /\ Range(s) = Range(level) /\ OneToOne(s)
  BY <1>1, SortedKeeps
<1>3. s # <<>>
  BY <1>1, <1>2
<1> QED BY <1>2, <1>3 DEF Ready

(* The first level: the items                                               *)
LEMMA ItemsReady ==
  ASSUME IInv, nodes = <<>>, current = <<>>, items # <<>>
  PROVE  /\ Compared = {}
         /\ Ready(Level, WithBounds(Compared), Len(items), 0)
<1> DEFINE m == Len(items)
           level == [i \in 1..m |-> Item(i)]
           t == WithBounds(Compared)
<1>1. Level = level /\ items \in Seq(Boxes) /\ m \in Nat /\ SoundTree(nodes, items)
  BY DEF Level, IInv, Typed
<1>2. /\ DOMAIN level = 1..m
      /\ \A i \in 1..m : level[i] = Item(i) /\ Item(i).kind = "item" /\ Item(i).id = i
                         /\ Item(i) \in Boundables
  BY DEF Item, Boundables
<1>3. level \in Seq(Boundables) /\ Len(level) = m
  BY <1>1, <1>2, SequenceOf
<1>4. Compared = {}
  <2>1. \A c \in Range(level) : c.kind = "item"
    BY <1>2 DEF Range
  <2> QED BY <1>1, <2>1 DEF Compared, NodesOf
<1> HIDE DEF level
<1>5. Len(t) = 0
  <2>1. Computed(t, Compared)
    BY <1>1, KnownSound
  <2> QED BY <2>1 DEF Computed, SameShape
<1> HIDE DEF t
<1>6. level # <<>> /\ OneToOne(level)
  <2>1. OneToOne(level)
    BY <1>2, <1>3 DEF OneToOne
  <2>2. m # 0
    BY <1>1
  <2> QED BY <1>3, <2>1, <2>2
<1>7. ASSUME NEW c \in Range(level)
      PROVE  Below(c, Len(t) + 1, m) /\ 0 = 1 + LevelOf(t, c) /\ c.kind # "node"
  <2>1. PICK i \in 1..m : c = level[i]
    BY <1>2 DEF Range
  <2>2. c.kind = "item" /\ c.id = i
    BY <1>2, <2>1
  <2> QED BY <2>2 DEF Below, LevelOf
<1>8. \A p : p \notin 1..Len(t)
  BY <1>5
<1>9. \A i \in 1..m : \E c \in Range(level) : c.kind = "item" /\ i = c.id
  BY <1>2 DEF Range
<1> QED BY <1>1, <1>3, <1>4, <1>6, <1>7, <1>8, <1>9 DEF Ready, t

(* The others: the nodes that were created last                             *)
LEMMA NodesReady ==
  ASSUME IInv, Underway
  PROVE  /\ \A n \in Compared : WithBounds(Compared)[n].bounds # Null
         /\ current # <<>>
         /\ Ready(Level, WithBounds(Compared), Len(items), nodes[current[1].id].level + 1)
<1> DEFINE m == Len(items)
           N == Len(nodes)
           L == Len(current)
           lo == N - L + 1
           t == WithBounds(Compared)
           v == nodes[current[1].id].level + 1
<1>1. items \in Seq(Boxes) /\ m \in Nat /\ SoundTree(nodes, items) /\ N \in Nat /\ DOMAIN items = 1..m
  <2>1. items \in Seq(Boxes) /\ SoundTree(nodes, items)
    BY DEF IInv, Typed
  <2>2. Len(nodes) \in Nat
    BY <2>1, NodeFields DEF SoundTree
  <2> QED BY <2>1, <2>2
<1>2. /\ L \in Nat /\ L >= 2 /\ L <= N
      /\ current = [k \in 1..L |-> Node(N - L + k)]
      /\ \A n \in lo..N : /\ ~Kid(nodes, n) /\ nodes[n].level = nodes[N].level
                          /\ Len(nodes[n].children) \in 1..NodeCapacity
      /\ \A i \in 1..m : \E n \in lo..N : i \in Under(nodes)[n]
  <2>1. L \in 2..N /\ current = [k \in 1..L |-> Node(N - L + k)]
    BY DEF Underway
  <2>2. \A n \in lo..N : /\ ~Kid(nodes, n) /\ nodes[n].level = nodes[N].level
                         /\ Len(nodes[n].children) \in 1..NodeCapacity
    BY DEF Underway
  <2>3. \A i \in 1..m : \E n \in lo..N : i \in Under(nodes)[n]
    BY <1>1 DEF Underway
  <2>4. L \in Nat /\ L >= 2 /\ L <= N
    BY <1>1, <2>1
  <2> QED BY <2>1, <2>2, <2>3, <2>4
<1>3. /\ DOMAIN current = 1..L
      /\ \A k \in 1..L : /\ current[k] = Node(N - L + k) /\ Node(N - L + k).kind = "node"
                         /\ Node(N - L + k).id = N - L + k /\ N - L + k \in lo..N
                         /\ Node(N - L + k) \in Boundables
  <2>1. \A k \in 1..L : N - L + k \in lo..N /\ N - L + k \in Nat
    BY <1>1, <1>2
  <2>2. \A n \in Nat : Node(n).kind = "node" /\ Node(n).id = n /\ Node(n) \in Boundables
    BY DEF Node, Boundables
  <2> HIDE DEF N, L
  <2> QED BY <1>2, <2>1, <2>2
<1>4. \A n \in lo..N : \E k \in 1..L : n = N - L + k
  <2>1. \A n \in lo..N : n - (N - L) \in 1..L /\ n = N - L + (n - (N - L))
    BY <1>1, <1>2
  <2> HIDE DEF N, L
  <2> QED BY <2>1
<1>5. current \in Seq(Boundables) /\ current # <<>> /\ Level = current
  <2>1. current = [k \in 1..L |-> current[k]]
    BY <1>2, <1>3
  <2>2. \A k \in 1..L : current[k] \in Boundables
    BY <1>3
  <2>3. L \in Nat
    BY <1>2
  <2>4. current \in Seq(Boundables)
    <3> HIDE DEF L
    <3> QED BY <1>3, <2>1, <2>2, <2>3, SequenceOf
  <2>5. current # <<>>
    BY <1>2
  <2> QED BY <2>4, <2>5 DEF Level
<1>6. ASSUME NEW c \in Range(current)
      PROVE  c.kind = "node" /\ c.id \in lo..N /\ c = Node(c.id)
  <2>1. PICK k \in 1..L : c = current[k]
    BY <1>3 DEF Range
  <2> QED BY <1>3, <2>1
<1>7. \A n \in lo..N : \E c \in Range(current) : c.kind = "node" /\ c.id = n
  <2> SUFFICES ASSUME NEW n \in lo..N PROVE \E c \in Range(current) : c.kind = "node" /\ c.id = n
    OBVIOUS
  <2>1. PICK k \in 1..L : n = N - L + k
    BY <1>4
  <2>2. current[k] \in Range(current) /\ current[k].kind = "node" /\ current[k].id = n
    BY <1>3, <2>1 DEF Range
  <2> QED BY <2>2
<1>8. Compared = lo..N
  <2>1. Len(Level) > 1
    BY <1>2, <1>5
  <2>2. Compared = NodesOf(current)
    BY <1>5, <2>1 DEF Compared
  <2>3. NodesOf(current) = lo..N
    BY <1>6, <1>7 DEF NodesOf
  <2> QED BY <2>2, <2>3
<1>9. /\ SoundTree(t, items) /\ Computed(t, Compared) /\ Under(t) = Under(nodes)
      /\ \A n : Kid(t, n) <=> Kid(nodes, n)
  BY <1>1, KnownSound
<1> HIDE DEF t
<1>10. /\ Len(t) = N
       /\ \A n \in 1..N : t[n].level = nodes[n].level /\ t[n].children = nodes[n].children
  BY <1>9 DEF Computed, SameShape
<1>11. \A n \in lo..N : /\ n \in 1..N /\ t[n].bounds # Null /\ Len(t[n].children) \in 1..NodeCapacity
                        /\ t[n].level = nodes[N].level /\ ~Kid(t, n)
  <2> SUFFICES ASSUME NEW n \in lo..N
               PROVE  /\ n \in 1..N /\ t[n].bounds # Null /\ Len(t[n].children) \in 1..NodeCapacity
                      /\ t[n].level = nodes[N].level /\ ~Kid(t, n)
    OBVIOUS
  <2>1. n \in 1..N
    BY <1>1, <1>2
  <2>2. Len(nodes[n].children) \in 1..NodeCapacity
    BY <1>2
  <2>3. nodes[n].children # <<>>
    BY <2>2
  <2>4. t[n].bounds # Null
    BY <1>8, <1>9, <2>1, <2>3 DEF Computed
  <2> QED BY <1>2, <1>9, <1>10, <2>1, <2>2, <2>4
<1>12. v = nodes[N].level + 1 /\ v \in Nat /\ nodes[N].level \in Nat
  <2>1. 1 \in 1..L
    BY <1>2
  <2>2. current[1].id \in lo..N
    BY <1>3, <2>1
  <2>3. nodes[current[1].id].level = nodes[N].level
    BY <1>2, <2>2
  <2>4. N \in 1..N
    BY <1>2
  <2>5. nodes[N].level \in Nat
    BY <2>4, NodeFields, <1>1 DEF SoundTree
  <2> QED BY <2>3, <2>5
<1> HIDE DEF v
<1>13. OneToOne(current)
  <2> SUFFICES ASSUME NEW j \in 1..L, NEW k \in 1..L, j # k PROVE current[j] # current[k]
    BY DEF OneToOne
  <2>1. N - L + j # N - L + k
    BY <1>1, <1>2
  <2> QED BY <1>3, <2>1
<1>14. ASSUME NEW c \in Range(current)
       PROVE  /\ Below(c, Len(t) + 1, m)
              /\ v = 1 + LevelOf(t, c)
              /\ \A p \in 1..Len(t) : c \notin Range(t[p].children)
              /\ c.kind = "node" => t[c.id].bounds # Null /\ Len(t[c.id].children) \in 1..NodeCapacity
  <2>1. c.kind = "node" /\ c.id \in lo..N /\ c = Node(c.id) /\ c.id \in 1..N
    BY <1>6, <1>11
  <2>2. Below(c, Len(t) + 1, m)
    BY <1>1, <1>10, <2>1 DEF Below
  <2>3. v = 1 + LevelOf(t, c)
    BY <1>11, <1>12, <2>1 DEF LevelOf
  <2>4. \A p \in 1..Len(t) : c \notin Range(t[p].children)
    BY <1>11, <2>1 DEF Kid
  <2> QED BY <1>11, <2>1, <2>2, <2>3, <2>4
<1>15. \A n \in 1..Len(t) : t[n].level <= v
  <2> SUFFICES ASSUME NEW n \in 1..N PROVE t[n].level <= v
    BY <1>10
  <2>1. nodes[n].level <= nodes[N].level /\ nodes[n].level \in Nat
    BY <1>1, NodeFields DEF SoundTree, Levels
  <2> QED BY <1>10, <1>12, <2>1
<1>16. \A i \in 1..m : \E c \in Range(current) : c.kind = "node" /\ i \in Under(t)[c.id]
  BY <1>2, <1>7, <1>9
<1>17. \A n \in Compared : t[n].bounds # Null
  BY <1>8, <1>11
<1>18. Ready(current, t, m, v)
  BY <1>5, <1>12, <1>13, <1>14, <1>15, <1>16 DEF Ready
<1> QED BY <1>5, <1>17, <1>18 DEF t, v

(* Building a level leaves a sound tree: the whole tree once one node is     *)
(* created, with all items under it.  It never follows a NULL pointer.      *)
LEMMA BuildLevelSound ==
  ASSUME IInv, BuildLevel
  PROVE  /\ UNCHANGED <<items, call, answer, crashed>>
         /\ SoundTree(nodes', items)
         /\ \/ /\ root' = Len(nodes') /\ root' # 0 /\ current' = <<>>
               /\ Under(nodes')[root'] = 1..Len(items)
            \/ root' = root /\ Underway'
<1> DEFINE m == Len(items)
           t == WithBounds(Compared)
           v == IF current = <<>> THEN 0 ELSE nodes[current[1].id].level + 1
<1>1. items # <<>> /\ root = 0 /\ items \in Seq(Boxes) /\ m \in Nat /\ SoundTree(nodes, items)
      /\ DOMAIN items = 1..m /\ UNCHANGED <<items, call, answer>>
  BY DEF BuildLevel, built, IInv, Typed
<1>2. (\A n \in Compared : t[n].bounds # Null) /\ Ready(Level, t, m, v)
  <2>1. CASE nodes = <<>> /\ current = <<>>
    BY <1>1, <2>1, ItemsReady
  <2>2. CASE Underway
    BY <2>2, NodesReady
  <2> QED BY <1>1, <2>1, <2>2 DEF IInv, Stage
<1>3. SoundTree(t, items) /\ Len(t) = Len(nodes)
  BY <1>1, KnownSound DEF Computed, SameShape
<1>4. PICK sorted \in Sorted(Level, t) :
        /\ nodes' = t \o Created(Parents(sorted), v)
        /\ IF Len(Created(Parents(sorted), v)) = 1
           THEN root' = Len(nodes') /\ current' = <<>>
           ELSE /\ current' = [k \in DOMAIN Created(Parents(sorted), v) |-> Node(Len(nodes) + k)]
                /\ UNCHANGED root
  <2>1. \A groups : [k \in DOMAIN groups |-> NewNode(groups[k])] = Created(groups, v)
    BY DEF NewNode, Created
  <2>2. ~\E n \in Compared : t[n].bounds = Null
    BY <1>2
  <2> HIDE DEF v, t
  <2> QED BY <2>1, <2>2 DEF BuildLevel, t
<1>5. crashed' = crashed
  <2>1. ~\E n \in Compared : t[n].bounds = Null
    BY <1>2
  <2> HIDE DEF t
  <2> QED BY <2>1 DEF BuildLevel, t
<1> DEFINE groups == Parents(sorted)
           L == Len(groups)
           u == t \o Created(groups, v)
           N == Len(t)
<1> HIDE DEF t, v
<1>6. Ready(sorted, t, m, v) /\ sorted # <<>>
  BY <1>2, <1>4, SortedReady
<1>7. Packs(groups, Range(sorted)) /\ L >= 1
  BY <1>6, ParentsPack DEF Ready
<1>8. L \in Nat /\ DOMAIN Created(groups, v) = 1..L /\ Len(Created(groups, v)) = L
  <2>1. groups \in Seq(Seq(Boundables))
    BY <1>7 DEF Packs
  <2>2. L \in Nat /\ DOMAIN Created(groups, v) = 1..L
    BY <2>1 DEF Created
  <2>3. Created(groups, v) = [k \in 1..L |-> Created(groups, v)[k]]
    BY <2>2 DEF Created
  <2> HIDE DEF L
  <2> QED BY <2>2, <2>3
<1> HIDE DEF groups
<1>9. /\ SoundTree(u, items) /\ Len(u) = N + L
      /\ \A n \in N + 1..Len(u) : ~Kid(u, n) /\ u[n].level = v /\ Len(u[n].children) \in 1..NodeCapacity
      /\ \A i \in 1..m : \E n \in N + 1..Len(u) : i \in Under(u)[n]
  BY <1>1, <1>3, <1>6, <1>7, LevelAdded, Zenon
<1>10. nodes' = u /\ Len(nodes) = N /\ N \in Nat
  BY <1>3, <1>4, NodeFields DEF SoundTree, groups
<1> HIDE DEF u, L, N
<1>11. CASE L = 1
  <2>1. root' = Len(nodes') /\ current' = <<>>
    BY <1>4, <1>8, <1>11 DEF groups
  <2>2. Len(u) = N + 1 /\ Len(u) # 0 /\ Len(u) \in 1..Len(u)
    BY <1>9, <1>10, <1>11
  <2>3. 1..m \subseteq Under(u)[Len(u)]
    BY <1>9, <2>2
  <2>4. Under(u)[Len(u)] \subseteq 1..m
    BY <1>1, <1>9, <2>2, UnderItems DEF SoundTree
  <2> QED BY <1>1, <1>5, <1>9, <1>10, <2>1, <2>2, <2>3, <2>4
<1>12. CASE L # 1
  <2>1. current' = [k \in 1..L |-> Node(N + k)] /\ root' = root
    BY <1>4, <1>8, <1>10, <1>12 DEF groups
  <2>2. Len(current') = L /\ L \in 2..Len(u) /\ Len(u) - L = N /\ Len(u) - L + 1 = N + 1
    BY <1>7, <1>8, <1>9, <1>10, <1>12, <2>1 DEF L
  <2>3. \A n \in N + 1..Len(u) : u[n].level = u[Len(u)].level
    BY <1>9, <1>10, <2>2
  <2>4. Underway'
    BY <1>1, <1>9, <1>10, <2>1, <2>2, <2>3 DEF Underway
  <2> QED BY <1>1, <1>5, <1>9, <1>10, <2>1, <2>4
<1> QED BY <1>11, <1>12

-----------------------------------------------------------------------------
(* Removing an item                                                         *)

Removal(t, b, i, removed) ==
  /\ items \in Seq(Boxes) /\ SoundTree(t, items) /\ i \in 1..Len(items)
  /\ removed = Removed(t, b, i)

LEMMA RemovalFields ==
  ASSUME NEW t, NEW b, NEW i, NEW removed, Removal(t, b, i, removed)
  PROVE  /\ Len(items) \in Nat /\ Tree(t, Len(items)) /\ Len(t) \in Nat /\ i \in Nat
         /\ removed \in [1..Len(t) -> BOOLEAN]
         /\ \A n \in 1..Len(t) : removed[n] <=> RemovesFrom(removed, t, b, i, n)
         /\ \A n \in 1..Len(t), j \in Nat : j \in Under(t)[n] <=>
              \E c \in Range(t[n].children) : IF c.kind = "item" THEN j = c.id ELSE j \in Under(t)[c.id]
         /\ \A n \in 1..Len(t) : Under(t)[n] \subseteq 1..Len(items)
         /\ \A n \in 1..Len(t) : \A c \in Range(t[n].children) :
              /\ c \in Boundables /\ Below(c, n, Len(items)) /\ (c.kind = "node" => c = Node(c.id))
              /\ (c.kind = "item" => c = Item(c.id))
<1>1. Len(items) \in Nat /\ Tree(t, Len(items)) /\ i \in Nat /\ removed = Removed(t, b, i)
  BY DEF Removal, SoundTree
<1>2. /\ removed \in [1..Len(t) -> BOOLEAN]
      /\ \A n \in 1..Len(t) : removed[n] <=> RemovesFrom(removed, t, b, i, n)
  BY <1>1, RemovedUnfold, Zenon
<1>3. Len(t) \in Nat /\ \A n \in 1..Len(t) : \A c \in Range(t[n].children) :
        c \in Boundables /\ Below(c, n, Len(items))
  BY <1>1, NodeFields
<1>4. \A c \in Boundables : (c.kind = "node" => c = Node(c.id)) /\ (c.kind = "item" => c = Item(c.id))
  BY DEF Boundables, Node, Item
<1>5. /\ \A n \in 1..Len(t), j \in Nat : j \in Under(t)[n] <=>
           \E c \in Range(t[n].children) : IF c.kind = "item" THEN j = c.id ELSE j \in Under(t)[c.id]
      /\ \A n \in 1..Len(t) : Under(t)[n] \subseteq 1..Len(items)
  BY <1>1, UnderUnfold, UnderItems
<1> QED BY <1>1, <1>2, <1>3, <1>4, <1>5

(* A removal succeeds at a leaf that holds the item and at its ancestors.   *)
LEMMA RemovedStep ==
  ASSUME NEW t, NEW b, NEW i, NEW removed, Removal(t, b, i, removed),
         NEW n \in 1..Len(t), removed[n]
  PROVE  \/ t[n].level = 0 /\ Item(i) \in Range(t[n].children)
         \/ \E k \in 1..n - 1 : /\ k \in 1..Len(t) /\ removed[k]
                                /\ Node(k) \in Range(t[n].children)
                                /\ t[k].level \in Nat /\ t[n].level = t[k].level + 1
<1>1. /\ Len(t) \in Nat /\ Tree(t, Len(items)) /\ removed[n] <=> RemovesFrom(removed, t, b, i, n)
      /\ \A c \in Range(t[n].children) :
           c \in Boundables /\ Below(c, n, Len(items)) /\ (c.kind = "node" => c = Node(c.id))
  BY RemovalFields
<1>2. RemovesFrom(removed, t, b, i, n)
  BY RemovalFields
<1>3. \A c \in Range(t[n].children) : t[n].level = 1 + LevelOf(t, c)
  BY DEF Removal, SoundTree, Levels
<1>4. \A k \in 1..Len(t) : t[k].level \in Nat
  BY RemovalFields, NodeFields
<1>5. CASE Item(i) \in Range(t[n].children)
  <2>1. LevelOf(t, Item(i)) = -1
    BY DEF LevelOf, Item
  <2>2. t[n].level = 1 + (-1)
    BY <1>3, <1>5, <2>1
  <2> QED BY <1>5, <2>2
<1>6. ASSUME NEW c \in Range(t[n].children), c.kind = "node", removed[c.id]
      PROVE  \E k \in 1..n - 1 : /\ k \in 1..Len(t) /\ removed[k]
                                 /\ Node(k) \in Range(t[n].children)
                                 /\ t[k].level \in Nat /\ t[n].level = t[k].level + 1
  <2>1. c.id \in 1..n - 1 /\ c = Node(c.id) /\ c.kind # "item"
    BY <1>1, <1>6 DEF Below
  <2>2. c.id \in 1..Len(t)
    BY <1>1, <2>1
  <2>3. t[n].level = 1 + t[c.id].level /\ t[c.id].level \in Nat
    BY <1>3, <1>4, <2>1, <2>2 DEF LevelOf
  <2>4. t[n].level = t[c.id].level + 1
    BY <2>3
  <2> QED BY <1>6, <2>1, <2>2, <2>3, <2>4
<1> QED BY <1>2, <1>5, <1>6 DEF RemovesFrom

(* A node under which the removal succeeds holds the item; ...              *)
LEMMA RemovedHolds ==
  ASSUME NEW t, NEW b, NEW i, NEW removed, Removal(t, b, i, removed)
  PROVE  \A n \in 1..Len(t) : removed[n] => i \in Under(t)[n]
<1> DEFINE N == Len(t)
           U == Under(t)
           T == {n \in 1..N : removed[n] => i \in U[n]}
<1>1. /\ N \in Nat /\ i \in Nat
      /\ \A n \in 1..N, j \in Nat : j \in U[n] <=>
           \E c \in Range(t[n].children) : IF c.kind = "item" THEN j = c.id ELSE j \in U[c.id]
  BY RemovalFields
<1>2. Item(i).kind = "item" /\ Item(i).id = i /\ \A k : Node(k).kind = "node" /\ Node(k).id = k
  BY DEF Item, Node
<1> HIDE DEF U
<1>3. ASSUME NEW n \in 1..N, \A j \in 1..n - 1 : j \in T PROVE n \in T
  <2>1. ASSUME removed[n] PROVE i \in U[n]
    <3>1. CASE Item(i) \in Range(t[n].children)
      BY <1>1, <1>2, <3>1
    <3>2. ASSUME NEW k \in 1..n - 1, removed[k], Node(k) \in Range(t[n].children) PROVE i \in U[n]
      <4>1. i \in U[k]
        BY <1>3, <3>2
      <4> QED BY <1>1, <1>2, <3>2, <4>1
    <3> QED BY <2>1, <3>1, <3>2, RemovedStep
  <2> QED BY <2>1
<1> HIDE DEF T, N
<1>4. \A n \in 1..N : n \in T
  BY <1>1, <1>3, StrongInduction
<1> QED BY <1>4 DEF T, U, N

(* ... no two nodes of a level are such nodes, as no boundable has two      *)
(* parents; ...                                                             *)
LEMMA RemovedOnce ==
  ASSUME NEW t, NEW b, NEW i, NEW removed, Removal(t, b, i, removed),
         NEW j \in 1..Len(t), NEW k \in 1..Len(t), removed[j], removed[k], t[j].level = t[k].level
  PROVE  j = k
<1> DEFINE N == Len(t)
           T == {x \in 1..N : \A y \in 1..N :
                   removed[x] /\ removed[y] /\ t[x].level = t[y].level => x = y}
<1>1. N \in Nat
  BY RemovalFields
<1>2. \A x, y \in 1..N : \A c :
        c \in Range(t[x].children) /\ c \in Range(t[y].children) => x = y
  BY DEF Removal, SoundTree, OneParent
<1>3. ASSUME NEW x \in 1..N, \A z \in 1..x - 1 : z \in T PROVE x \in T
  <2> SUFFICES ASSUME NEW y \in 1..N, removed[x], removed[y], t[x].level = t[y].level
               PROVE  x = y
    OBVIOUS
  <2>1. CASE t[x].level = 0 /\ Item(i) \in Range(t[x].children)
    <3>1. \A h : ~(t[h].level \in Nat /\ t[y].level = t[h].level + 1)
      <4>1. t[y].level = 0 /\ \A d \in Nat : 0 # d + 1
        BY <2>1
      <4> QED BY <4>1
    <3>2. Item(i) \in Range(t[y].children)
      <4>1. \/ t[y].level = 0 /\ Item(i) \in Range(t[y].children)
            \/ \E h \in 1..y - 1 : /\ h \in 1..N /\ removed[h]
                                   /\ Node(h) \in Range(t[y].children)
                                   /\ t[h].level \in Nat /\ t[y].level = t[h].level + 1
        BY RemovedStep
      <4> QED BY <3>1, <4>1, Zenon
    <3> QED BY <1>2, <2>1, <3>2
  <2>2. ASSUME NEW g \in 1..x - 1, g \in 1..N, removed[g], Node(g) \in Range(t[x].children),
               t[g].level \in Nat, t[x].level = t[g].level + 1
        PROVE  x = y
    <3>1. t[y].level # 0
      BY <2>2
    <3>2. PICK h \in 1..y - 1 : /\ h \in 1..N /\ removed[h] /\ Node(h) \in Range(t[y].children)
                                /\ t[h].level \in Nat /\ t[y].level = t[h].level + 1
      BY <3>1, RemovedStep
    <3>3. t[g].level = t[h].level
      <4>1. \A d, e \in Nat : d + 1 = e + 1 => d = e
        OBVIOUS
      <4>2. t[g].level + 1 = t[h].level + 1
        BY <2>2, <3>2
      <4> QED BY <2>2, <3>2, <4>1, <4>2
    <3>4. g = h
      BY <1>3, <2>2, <3>2, <3>3
    <3> QED BY <1>2, <2>2, <3>2, <3>4
  <2> QED BY <2>1, <2>2, RemovedStep
<1> HIDE DEF T
<1>4. \A x \in 1..N : x \in T
  <2> HIDE DEF N
  <2> QED BY <1>1, <1>3, StrongInduction
<1> QED BY <1>4 DEF T

(* ... and there is one on every level if the root is one, ...              *)
LEMMA RemovedDeep ==
  ASSUME NEW t, NEW b, NEW i, NEW removed, Removal(t, b, i, removed),
         NEW top \in 1..Len(t), removed[top]
  PROVE  \A d \in 0..t[top].level : \E n \in 1..Len(t) : removed[n] /\ t[n].level = t[top].level - d
<1> DEFINE N == Len(t)
           H == t[top].level
           T == {d \in 0..H : \E n \in 1..N : removed[n] /\ t[n].level = H - d}
<1>1. H \in Nat
  BY RemovalFields, NodeFields
<1>2. 0 \in T
  BY <1>1
<1>3. ASSUME NEW d \in 0..H - 1, d \in T PROVE d + 1 \in T
  <2>1. PICK n \in 1..N : removed[n] /\ t[n].level = H - d
    BY <1>3
  <2>2. H - d # 0 /\ d + 1 \in 0..H /\ d \in Nat
    BY <1>1
  <2>3. PICK k \in 1..n - 1 : k \in 1..N /\ removed[k] /\ t[k].level \in Nat /\ t[n].level = t[k].level + 1
    BY <2>1, <2>2, RemovedStep
  <2>4. t[k].level = H - (d + 1)
    <3>1. \A a, h, e \in Nat : h - e = a + 1 => a = h - (e + 1)
      OBVIOUS
    <3> HIDE DEF H
    <3> QED BY <1>1, <2>1, <2>2, <2>3, <3>1
  <2> HIDE DEF H
  <2> QED BY <2>2, <2>3, <2>4
<1> HIDE DEF T
<1>4. 0..H \subseteq T
  <2>1. 0 \in Int /\ H \in Int /\ 0 <= H
    BY <1>1
  <2> HIDE DEF H
  <2> QED BY <1>2, <1>3, <2>1, IntervalInduction
<1> QED BY <1>4 DEF T

(* ... so that the removal succeeds under the parents of such a node too.   *)
LEMMA RemovedParent ==
  ASSUME NEW t, NEW b, NEW i, NEW removed, Removal(t, b, i, removed),
         Len(t) # 0, removed[Len(t)],
         NEW p \in 1..Len(t), NEW k \in 1..Len(t), Node(k) \in Range(t[p].children), removed[k]
  PROVE  removed[p]
<1> DEFINE N == Len(t)
           H == t[N].level
<1>1. N \in Nat /\ N \in 1..N
  BY RemovalFields
<1>2. \A n \in 1..N : t[n].level \in Nat /\ t[n].level <= H
  BY RemovalFields, NodeFields DEF Removal, SoundTree, Levels
<1>3. t[p].level = t[k].level + 1
  <2>1. t[p].level = 1 + LevelOf(t, Node(k))
    BY DEF Removal, SoundTree, Levels
  <2>2. LevelOf(t, Node(k)) = t[k].level
    BY DEF LevelOf, Node
  <2> QED BY <1>2, <2>1, <2>2
<1>4. H - t[p].level \in 0..H /\ H - (H - t[p].level) = t[p].level
  BY <1>1, <1>2
<1>5. PICK q \in 1..N : removed[q] /\ t[q].level = t[p].level
  <2>1. \A d \in 0..H : \E n \in 1..N : removed[n] /\ t[n].level = H - d
    BY <1>1, RemovedDeep
  <2> HIDE DEF H
  <2> QED BY <1>4, <2>1
<1>6. PICK g \in 1..q - 1 : g \in 1..N /\ removed[g] /\ Node(g) \in Range(t[q].children)
                            /\ t[g].level \in Nat /\ t[q].level = t[g].level + 1
  <2>1. t[q].level # 0
    BY <1>2, <1>3, <1>5
  <2> QED BY <1>5, <2>1, RemovedStep
<1>7. t[g].level = t[k].level
  BY <1>2, <1>3, <1>5, <1>6
<1>8. g = k
  BY <1>6, <1>7, RemovedOnce
<1>9. q = p
  BY <1>6, <1>8 DEF Removal, SoundTree, OneParent
<1> QED BY <1>5, <1>9

(* If the removal succeeds at the root, it does under every node that holds *)
(* the item.                                                                *)
LEMMA HoldsRemoved ==
  ASSUME NEW t, NEW b, NEW i, NEW removed, Removal(t, b, i, removed),
         Len(t) # 0, removed[Len(t)]
  PROVE  \A n \in 1..Len(t) : i \in Under(t)[n] => removed[n]
<1> DEFINE N == Len(t)
           U == Under(t)
           T == {n \in 1..N : i \in U[n] => removed[n]}
<1>1. /\ N \in Nat /\ i \in Nat
      /\ \A n \in 1..N : removed[n] <=> RemovesFrom(removed, t, b, i, n)
      /\ \A n \in 1..N, j \in Nat : j \in U[n] <=>
           \E c \in Range(t[n].children) : IF c.kind = "item" THEN j = c.id ELSE j \in U[c.id]
      /\ \A n \in 1..N : \A c \in Range(t[n].children) :
           /\ Below(c, n, Len(items)) /\ (c.kind = "node" => c = Node(c.id))
           /\ (c.kind = "item" => c = Item(c.id))
  BY RemovalFields
<1> HIDE DEF U
<1>2. ASSUME NEW n \in 1..N, \A j \in 1..n - 1 : j \in T PROVE n \in T
  <2> SUFFICES ASSUME i \in U[n] PROVE removed[n]
    OBVIOUS
  <2>1. PICK c \in Range(t[n].children) : IF c.kind = "item" THEN i = c.id ELSE i \in U[c.id]
    BY <1>1
  <2>2. CASE c.kind = "item"
    <3>1. Item(i) \in Range(t[n].children)
      BY <1>1, <2>1, <2>2
    <3> QED BY <1>1, <3>1 DEF RemovesFrom
  <2>3. CASE c.kind # "item"
    <3>1. c.id \in 1..n - 1 /\ c.kind = "node" /\ c = Node(c.id)
      BY <1>1, <2>3 DEF Below
    <3>2. c.id \in 1..N /\ removed[c.id]
      BY <1>1, <1>2, <2>1, <2>3, <3>1
    <3> QED BY <2>1, <3>1, <3>2, RemovedParent
  <2> QED BY <2>2, <2>3
<1> HIDE DEF T, N
<1>3. \A n \in 1..N : n \in T
  BY <1>1, <1>2, StrongInduction
<1> QED BY <1>3 DEF T, U, N

(* Pruning takes the item from the children of a node, and children that    *)
(* are left childless, and it takes nothing else.                           *)
PrunedFrom(p, t, i) ==
  /\ Tree(p, Len(items)) /\ Len(p) = Len(t)
  /\ \A n \in 1..Len(t) :
       /\ p[n].level = t[n].level /\ p[n].bounds = t[n].bounds
       /\ Len(p[n].children) <= Len(t[n].children)
       /\ Range(p[n].children) \subseteq Range(t[n].children) \ {Item(i)}
       /\ \A c \in Range(t[n].children) \ {Item(i)} :
            c \in Range(p[n].children) \/ (c.kind = "node" /\ p[c.id].children = <<>>)
       /\ \A c \in Range(p[n].children) :
            c.kind = "node" /\ t[c.id].children # <<>> => p[c.id].children # <<>>

LEMMA PrunedChildren ==
  ASSUME NEW t, NEW b, NEW i, NEW removed, Removal(t, b, i, removed),
         Len(t) # 0, removed[Len(t)], NEW p, PrunedTo(t, removed, p, i)
  PROVE  PrunedFrom(p, t, i)
<1>1. /\ Tree(t, Len(items)) /\ Len(items) \in Nat /\ i \in Nat /\ Len(t) \in Nat
      /\ \A n \in 1..Len(t) : removed[n] <=> RemovesFrom(removed, t, b, i, n)
      /\ \A n \in 1..Len(t) : \A c \in Range(t[n].children) :
           /\ Below(c, n, Len(items)) /\ (c.kind = "node" => c = Node(c.id))
  BY RemovalFields
<1>2. /\ Tree(p, Len(items)) /\ Len(p) = Len(t)
      /\ \A n \in 1..Len(t) :
           /\ p[n].level = t[n].level /\ p[n].bounds = t[n].bounds
           /\ Len(p[n].children) <= Len(t[n].children)
           /\ Range(p[n].children) \subseteq Range(t[n].children)
           /\ removed[n] => Range(p[n].children) = Range(t[n].children) \ Gone(t, removed, p, i, n)
  <2> DEFINE m == Len(items)
  <2>1. m \in Nat /\ Tree(t, m) /\ i \in Nat /\ PrunedTo(t, removed, p, i)
    BY <1>1
  <2> HIDE DEF m
  <2>2. Tree(p, m) /\ Len(p) = Len(t) /\ Shrunk(p, t, removed, i)
    BY <2>1, PrunedTree
  <2> QED BY <2>2 DEF m, Shrunk
<1>3. ASSUME NEW n \in 1..Len(t)
      PROVE  /\ Range(p[n].children) \subseteq Range(t[n].children) \ {Item(i)}
             /\ \A c \in Range(t[n].children) \ {Item(i)} :
                  c \in Range(p[n].children) \/ (c.kind = "node" /\ p[c.id].children = <<>>)
             /\ \A c \in Range(p[n].children) :
                  c.kind = "node" /\ t[c.id].children # <<>> => p[c.id].children # <<>>
  <2>1. \A c \in Range(t[n].children) : c.kind = "node" => c.id \in 1..Len(t) /\ c = Node(c.id)
    <3> SUFFICES ASSUME NEW c \in Range(t[n].children), c.kind = "node"
                 PROVE  c.id \in 1..Len(t) /\ c = Node(c.id)
      OBVIOUS
    <3>1. c.id \in 1..n - 1 /\ c = Node(c.id)
      BY <1>1 DEF Below
    <3> QED BY <1>1, <3>1
  <2>2. \A c \in Range(t[n].children) : c.kind = "node" /\ removed[c.id] => removed[n]
    BY <2>1, RemovedParent
  <2>3. \A c \in Range(t[n].children) : c.kind = "node" /\ ~removed[c.id] => p[c.id].children = t[c.id].children
    BY <2>1 DEF PrunedTo
  <2>4. CASE removed[n]
    <3>1. Range(p[n].children) = Range(t[n].children) \ Gone(t, removed, p, i, n)
      BY <1>2, <2>4
    <3> QED BY <2>3, <3>1 DEF Gone
  <2>5. CASE ~removed[n]
    <3>1. p[n].children = t[n].children
      BY <2>5 DEF PrunedTo
    <3>2. Item(i) \notin Range(t[n].children)
      BY <1>1, <2>5 DEF RemovesFrom
    <3> QED BY <2>2, <2>3, <2>5, <3>1, <3>2
  <2> QED BY <2>4, <2>5
<1> QED BY <1>2, <1>3 DEF PrunedFrom

(* Under every node, the items are those there were but for the one removed. *)
LEMMA PrunedUnder ==
  ASSUME NEW t, NEW b, NEW i, NEW removed, Removal(t, b, i, removed),
         Len(t) # 0, removed[Len(t)], NEW p, PrunedTo(t, removed, p, i)
  PROVE  \A n \in 1..Len(t) : Under(p)[n] = Under(t)[n] \ {i}
<1> DEFINE N == Len(t)
           U == Under(t)
           V == Under(p)
           T == {n \in 1..N : V[n] = U[n] \ {i}}
<1>1. /\ N \in Nat /\ i \in Nat /\ Len(items) \in Nat
      /\ \A n \in 1..N, j \in Nat : j \in U[n] <=>
           \E c \in Range(t[n].children) : IF c.kind = "item" THEN j = c.id ELSE j \in U[c.id]
      /\ \A n \in 1..N : U[n] \subseteq 1..Len(items)
      /\ \A n \in 1..N : \A c \in Range(t[n].children) :
           /\ Below(c, n, Len(items)) /\ (c.kind = "node" => c = Node(c.id))
           /\ (c.kind = "item" => c = Item(c.id))
  BY RemovalFields
<1>2. /\ Tree(p, Len(items)) /\ Len(p) = N
      /\ \A n \in 1..N :
           /\ Range(p[n].children) \subseteq Range(t[n].children) \ {Item(i)}
           /\ \A c \in Range(t[n].children) \ {Item(i)} :
                c \in Range(p[n].children) \/ (c.kind = "node" /\ p[c.id].children = <<>>)
  <2>1. PrunedFrom(p, t, i)
    BY PrunedChildren
  <2> QED BY <2>1 DEF PrunedFrom
<1>3. /\ \A n \in 1..N, j \in Nat : j \in V[n] <=>
           \E c \in Range(p[n].children) : IF c.kind = "item" THEN j = c.id ELSE j \in V[c.id]
      /\ \A n \in 1..N : V[n] \subseteq 1..Len(items)
  BY <1>1, <1>2, UnderUnfold, UnderItems
<1> HIDE DEF U, V
<1>4. ASSUME NEW n \in 1..N, \A j \in 1..n - 1 : j \in T PROVE n \in T
  <2>1. \A c \in Range(t[n].children) : c.kind # "item" =>
          c.kind = "node" /\ c.id \in 1..N /\ V[c.id] = U[c.id] \ {i}
    <3> SUFFICES ASSUME NEW c \in Range(t[n].children), c.kind # "item"
                 PROVE  c.kind = "node" /\ c.id \in 1..N /\ V[c.id] = U[c.id] \ {i}
      OBVIOUS
    <3>1. c.kind = "node" /\ c.id \in 1..n - 1
      BY <1>1 DEF Below
    <3> QED BY <1>1, <1>4, <3>1
  <2>2. ASSUME NEW j \in Nat, j \in V[n] PROVE j \in U[n] /\ j # i
    <3>1. PICK c \in Range(p[n].children) : IF c.kind = "item" THEN j = c.id ELSE j \in V[c.id]
      BY <1>3, <2>2
    <3>2. c \in Range(t[n].children) /\ c # Item(i)
      BY <1>2
    <3>3. CASE c.kind = "item"
      BY <1>1, <3>1, <3>2, <3>3
    <3>4. CASE c.kind # "item"
      <4>1. j \in V[c.id] /\ V[c.id] = U[c.id] \ {i}
        BY <2>1, <3>1, <3>2, <3>4
      <4>2. j \in U[c.id] /\ j # i
        BY <4>1
      <4> QED BY <1>1, <3>2, <3>4, <4>2
    <3> QED BY <3>3, <3>4
  <2>3. ASSUME NEW j \in Nat, j \in U[n], j # i PROVE j \in V[n]
    <3>1. PICK c \in Range(t[n].children) : IF c.kind = "item" THEN j = c.id ELSE j \in U[c.id]
      BY <1>1, <2>3
    <3>2. Item(i).id = i /\ Item(i).kind = "item"
      BY DEF Item
    <3>3. CASE c.kind = "item"
      <4>1. c \in Range(p[n].children)
        BY <1>2, <2>3, <3>1, <3>2, <3>3
      <4> QED BY <1>3, <3>1, <3>3, <4>1
    <3>4. CASE c.kind # "item"
      <4>1. c.id \in 1..N /\ j \in V[c.id]
        BY <2>1, <2>3, <3>1, <3>4
      <4>2. p[c.id].children # <<>>
        <5>1. \E d \in Range(p[c.id].children) : TRUE
          BY <1>3, <4>1
        <5> QED BY <5>1 DEF Range
      <4>3. c \in Range(p[n].children)
        BY <1>2, <3>2, <3>4, <4>2
      <4> QED BY <1>3, <3>4, <4>1, <4>3
    <3> QED BY <3>3, <3>4
  <2>4. V[n] = U[n] \ {i}
    BY <1>1, <1>3, <2>2, <2>3
  <2> QED BY <2>4
<1> HIDE DEF T, N
<1>5. \A n \in 1..N : n \in T
  BY <1>1, <1>4, StrongInduction
<1> QED BY <1>5 DEF T, U, V, N

(* A removal leaves a sound tree.                                           *)
LEMMA PrunedSound ==
  ASSUME NEW t, NEW b, NEW i, NEW removed, Removal(t, b, i, removed),
         Len(t) # 0, removed[Len(t)], NEW p, PrunedTo(t, removed, p, i)
  PROVE  SoundTree(p, items)
<1> DEFINE N == Len(t)
<1>1. /\ SoundTree(t, items) /\ N \in Nat /\ N \in 1..N
      /\ \A n \in 1..N : \A c \in Range(t[n].children) : Below(c, n, Len(items))
  BY RemovalFields DEF Removal
<1>2. /\ Tree(p, Len(items)) /\ Len(p) = N
      /\ \A n \in 1..N :
           /\ p[n].level = t[n].level /\ p[n].bounds = t[n].bounds
           /\ Len(p[n].children) <= Len(t[n].children)
           /\ Range(p[n].children) \subseteq Range(t[n].children)
           /\ \A c \in Range(p[n].children) :
                c.kind = "node" /\ t[c.id].children # <<>> => p[c.id].children # <<>>
  <2>1. PrunedFrom(p, t, i)
    BY PrunedChildren
  <2> QED BY <2>1 DEF PrunedFrom
<1>3. \A n \in 1..N : \A c \in Range(p[n].children) :
        /\ c \in Range(t[n].children) /\ (c.kind = "item" \/ c.id \in 1..N)
  <2> SUFFICES ASSUME NEW n \in 1..N, NEW c \in Range(p[n].children)
               PROVE  c \in Range(t[n].children) /\ (c.kind = "item" \/ c.id \in 1..N)
    OBVIOUS
  <2>1. Below(c, n, Len(items)) /\ c \in Range(t[n].children)
    BY <1>1, <1>2
  <2> QED BY <1>1, <2>1 DEF Below
<1>4. Levels(p)
  <2>1. ASSUME NEW n \in 1..N, NEW c \in Range(p[n].children) PROVE p[n].level = 1 + LevelOf(p, c)
    <3>1. LevelOf(p, c) = LevelOf(t, c)
      BY <1>2, <1>3 DEF LevelOf
    <3>2. t[n].level = 1 + LevelOf(t, c)
      BY <1>1, <1>3 DEF SoundTree, Levels
    <3> QED BY <1>2, <3>1, <3>2
  <2>2. \A n \in 1..N : p[n].level <= p[N].level
    BY <1>1, <1>2 DEF SoundTree, Levels
  <2> QED BY <1>2, <2>1, <2>2 DEF Levels
<1>5. OneParent(p)
  <2> SUFFICES ASSUME NEW j \in 1..N, NEW k \in 1..N, j # k
               PROVE  Range(p[j].children) \cap Range(p[k].children) = {}
    BY <1>2 DEF OneParent
  <2>1. Range(t[j].children) \cap Range(t[k].children) = {}
    BY <1>1 DEF SoundTree, OneParent
  <2> QED BY <1>2, <2>1
<1>6. KidsFilled(p)
  <2> SUFFICES ASSUME NEW n \in 1..N, NEW q \in 1..N, Node(n) \in Range(p[q].children)
               PROVE  Len(p[n].children) \in 1..NodeCapacity
    BY <1>2 DEF KidsFilled, Kid
  <2>1. Node(n) \in Range(t[q].children) /\ Node(n).kind = "node" /\ Node(n).id = n
    BY <1>3 DEF Node
  <2>2. Len(t[n].children) \in 1..NodeCapacity
    BY <1>1, <2>1 DEF SoundTree, KidsFilled, Kid
  <2>3. t[n].children # <<>>
    BY <2>2
  <2>4. p[n].children # <<>>
    BY <1>2, <2>1, <2>3
  <2>5. p[n].children \in Seq(Boundables)
    BY <1>2, NodeFields
  <2>6. Len(p[n].children) \in Nat /\ Len(p[n].children) # 0
    BY <2>4, <2>5
  <2>7. Len(p[n].children) <= Len(t[n].children)
    BY <1>2
  <2> QED BY <2>2, <2>6, <2>7, CapacityAssumption
<1>7. KnownBelow(p)
  BY <1>1, <1>2, <1>3 DEF SoundTree, KnownBelow
<1>8. Covered(p, items)
  <2>1. \A n \in 1..N : Under(p)[n] = Under(t)[n] \ {i}
    BY PrunedUnder
  <2> QED BY <1>1, <1>2, <2>1 DEF SoundTree, Covered
<1> QED BY <1>2, <1>4, <1>5, <1>6, <1>7, <1>8 DEF SoundTree

(* An item that is named with its own envelope is found.                    *)
LEMMA NamedIsFound ==
  ASSUME NEW t, NEW i, NEW removed, Removal(t, items[i], i, removed),
         NEW n \in 1..Len(t), i \in Under(t)[n]
  PROVE  /\ removed[n]
         /\ t[n].bounds # Null => Meets(t[n].bounds, items[i])
<1> DEFINE N == Len(t)
           U == Under(t)
           b == items[i]
           T == {k \in 1..N : i \in U[k] => removed[k]}
<1>1. /\ N \in Nat /\ i \in Nat /\ Tree(t, Len(items)) /\ SoundTree(t, items)
      /\ \A k \in 1..N : removed[k] <=> RemovesFrom(removed, t, b, i, k)
      /\ \A k \in 1..N, j \in Nat : j \in U[k] <=>
           \E c \in Range(t[k].children) : IF c.kind = "item" THEN j = c.id ELSE j \in U[c.id]
      /\ \A k \in 1..N : \A c \in Range(t[k].children) :
           /\ Below(c, k, Len(items)) /\ (c.kind = "node" => c = Node(c.id))
           /\ (c.kind = "item" => c = Item(c.id))
  BY RemovalFields DEF Removal
<1>2. b \in Box /\ Meets(b, b)
  <2>1. items \in Seq(Boxes) /\ i \in 1..Len(items)
    BY DEF Removal
  <2> QED BY <2>1, MeetsItself
<1>3. ASSUME NEW k \in 1..N, i \in U[k], t[k].bounds # Null PROVE Meets(t[k].bounds, b)
  <2>1. Covers(t[k].bounds, b)
    BY <1>1, <1>3 DEF SoundTree, Covered
  <2>2. t[k].bounds \in Box
    <3>1. t[k].bounds \in Box \cup {Null}
      BY <1>1, NodeFields
    <3> QED BY <1>3, <3>1
  <2> QED BY <1>2, <2>1, <2>2, CoversMeets
<1> HIDE DEF U, b
<1>4. ASSUME NEW k \in 1..N, \A j \in 1..k - 1 : j \in T PROVE k \in T
  <2> SUFFICES ASSUME i \in U[k] PROVE removed[k]
    OBVIOUS
  <2>1. PICK c \in Range(t[k].children) : IF c.kind = "item" THEN i = c.id ELSE i \in U[c.id]
    BY <1>1
  <2>2. CASE c.kind = "item"
    <3>1. Item(i) \in Range(t[k].children)
      BY <1>1, <2>1, <2>2
    <3> QED BY <1>1, <3>1 DEF RemovesFrom
  <2>3. CASE c.kind # "item"
    <3>1. c.id \in 1..k - 1 /\ c.kind = "node"
      BY <1>1, <2>3 DEF Below
    <3>2. c.id \in 1..N /\ removed[c.id] /\ i \in U[c.id]
      BY <1>1, <1>4, <2>1, <2>3, <3>1
    <3>3. t[c.id].bounds # Null
      BY <1>1, <3>1 DEF SoundTree, KnownBelow
    <3>4. Selected(t, c, b)
      BY <1>3, <3>1, <3>2, <3>3 DEF Selected
    <3> QED BY <1>1, <3>1, <3>2, <3>4 DEF RemovesFrom
  <2> QED BY <2>2, <2>3
<1> HIDE DEF T, N
<1>5. \A k \in 1..N : k \in T
  BY <1>1, <1>4, StrongInduction
<1> QED BY <1>3, <1>5 DEF T, U, b, N

-----------------------------------------------------------------------------
(* Queries                                                                  *)

(* The envelope of a node whose bounds are known meets whatever the items   *)
(* under it do.                                                             *)
LEMMA BoundsMeet ==
  ASSUME items \in Seq(Boxes), NEW t, SoundTree(t, items), NEW b \in Box,
         NEW n \in 1..Len(t), t[n].bounds # Null, NEW i \in Under(t)[n], Meets(items[i], b)
  PROVE  Meets(t[n].bounds, b)
<1>1. Tree(t, Len(items)) /\ Covered(t, items) /\ Len(items) \in Nat
  BY DEF SoundTree
<1>2. i \in 1..Len(items)
  BY <1>1, UnderItems
<1>3. items[i] \in Box
  BY <1>2, MeetsItself
<1>4. t[n].bounds \in Box
  <2>1. t[n].bounds \in Box \cup {Null}
    BY <1>1, NodeFields
  <2> QED BY <2>1
<1>5. Covers(t[n].bounds, items[i])
  BY <1>1 DEF Covered
<1> QED BY <1>3, <1>4, <1>5, CoversMeets

(* query finds the items under a node that meet the search envelope, and    *)
(* nothing else.                                                            *)
LEMMA MatchesExactly ==
  ASSUME items \in Seq(Boxes), NEW t, SoundTree(t, items), NEW b \in Box
  PROVE  \A n \in 1..Len(t) : Matches(t, b)[n] = {i \in Under(t)[n] : Meets(items[i], b)}
<1> DEFINE N == Len(t)
           m == Len(items)
           visited == [n \in DOMAIN t |-> {c \in Range(t[n].children) : Selected(t, c, b)}]
           M == Matches(t, b)
           U == Under(t)
           T == {n \in 1..N : M[n] = {i \in U[n] : Meets(items[i], b)}}
<1>1. /\ Tree(t, m) /\ m \in Nat /\ N \in Nat /\ DOMAIN t = 1..N
      /\ \A n \in 1..N : \A c \in Range(t[n].children) : c \in Boundables /\ Below(c, n, m)
  <2>1. Tree(t, m) /\ m \in Nat
    BY DEF SoundTree
  <2> QED BY <2>1, NodeFields
<1>2. /\ U \in [1..N -> SUBSET Nat]
      /\ \A n \in 1..N, j \in Nat : j \in U[n] <=>
           \E c \in Range(t[n].children) : IF c.kind = "item" THEN j = c.id ELSE j \in U[c.id]
  BY <1>1, UnderUnfold
<1>3. /\ DOMAIN visited = 1..N
      /\ \A n \in 1..N : visited[n] = {c \in Range(t[n].children) : Selected(t, c, b)}
  BY <1>1
<1>4. M = Gathered(visited)
  BY DEF Matches
<1> HIDE DEF visited, M, U
<1>5. Walks(visited, N)
  BY <1>1, <1>3 DEF Walks, Below
<1>6. Gathers(M, visited, N)
  BY <1>1, <1>4, <1>5, GatheredUnfold
<1>7. /\ M \in [1..N -> SUBSET Nat]
      /\ \A n \in 1..N, j \in Nat : j \in M[n] <=>
           \E c \in visited[n] : IF c.kind = "item" THEN j = c.id ELSE j \in M[c.id]
  BY <1>6 DEF Gathers
<1>8. ASSUME NEW n \in 1..N, \A k \in 1..n - 1 : k \in T PROVE n \in T
  <2>1. \A c \in Range(t[n].children) : c.kind # "item" =>
          /\ c.kind = "node" /\ c.id \in 1..N /\ t[c.id].bounds # Null
          /\ M[c.id] = {i \in U[c.id] : Meets(items[i], b)}
    <3> SUFFICES ASSUME NEW c \in Range(t[n].children), c.kind # "item"
                 PROVE  /\ c.kind = "node" /\ c.id \in 1..N /\ t[c.id].bounds # Null
                        /\ M[c.id] = {i \in U[c.id] : Meets(items[i], b)}
      OBVIOUS
    <3>1. c.kind = "node" /\ c.id \in 1..n - 1
      BY <1>1 DEF Below
    <3> QED BY <1>1, <1>8, <3>1 DEF SoundTree, KnownBelow
  <2>2. ASSUME NEW j \in Nat, j \in M[n] PROVE j \in U[n] /\ Meets(items[j], b)
    <3>1. PICK c \in visited[n] : IF c.kind = "item" THEN j = c.id ELSE j \in M[c.id]
      BY <1>7, <2>2
    <3>2. c \in Range(t[n].children) /\ Selected(t, c, b)
      BY <1>3
    <3>3. CASE c.kind = "item"
      BY <1>2, <3>1, <3>2, <3>3 DEF Selected
    <3>4. CASE c.kind # "item"
      <4>1. j \in U[c.id] /\ Meets(items[j], b)
        BY <2>1, <3>1, <3>2, <3>4
      <4> QED BY <1>2, <3>2, <3>4, <4>1
    <3> QED BY <3>3, <3>4
  <2>3. ASSUME NEW j \in Nat, j \in U[n], Meets(items[j], b) PROVE j \in M[n]
    <3>1. PICK c \in Range(t[n].children) : IF c.kind = "item" THEN j = c.id ELSE j \in U[c.id]
      BY <1>2, <2>3
    <3>2. CASE c.kind = "item"
      <4>1. c \in visited[n]
        BY <1>3, <2>3, <3>1, <3>2 DEF Selected
      <4> QED BY <1>7, <3>1, <3>2, <4>1
    <3>3. CASE c.kind # "item"
      <4>1. c.id \in 1..N /\ t[c.id].bounds # Null /\ j \in U[c.id] /\ j \in M[c.id]
        BY <2>1, <2>3, <3>1, <3>3
      <4>2. Meets(t[c.id].bounds, b)
        BY <2>3, <4>1, BoundsMeet DEF U
      <4>3. c \in visited[n]
        BY <1>3, <3>3, <4>2 DEF Selected
      <4> QED BY <1>7, <3>3, <4>1, <4>3
    <3> QED BY <3>2, <3>3
  <2>4. M[n] \subseteq Nat /\ U[n] \subseteq Nat
    BY <1>2, <1>7
  <2>5. M[n] = {i \in U[n] : Meets(items[i], b)}
    BY <2>2, <2>3, <2>4
  <2> QED BY <2>5
<1> HIDE DEF T, N
<1>9. \A n \in 1..N : n \in T
  BY <1>1, <1>8, StrongInduction
<1> QED BY <1>9 DEF T, U, M, N

-----------------------------------------------------------------------------
(* Every step keeps the invariant, and is one of the index's or changes     *)
(* nothing the index's callers see.                                         *)

IndexStep == Index!Next \/ UNCHANGED Index!vars

LEMMA EmptySound ==
  ASSUME NEW its, Len(its) \in Nat
  PROVE  SoundTree(<<>>, its)
<1>1. Len(<<>>) = 0 /\ <<>> \in Seq(TreeNode) /\ \A n : n \notin 1..0
  OBVIOUS
<1> QED BY <1>1 DEF SoundTree, Tree, Levels, OneParent, KidsFilled, KnownBelow, Covered

LEMMA InitSound == Init => IInv /\ Index!Init
<1> SUFFICES ASSUME Init PROVE IInv /\ Index!Init
  OBVIOUS
<1>1. items = <<>> /\ Len(items) = 0 /\ items \in Seq(Boxes) /\ DOMAIN items = {} /\ root = 0
      /\ nodes = <<>> /\ current = <<>> /\ call = NoCall /\ answer = NoAnswer /\ crashed = FALSE
  BY DEF Init
<1>2. SoundTree(nodes, items)
  BY <1>1, EmptySound
<1>3. Typed /\ Stage
  <2>1. Len(items) <= MaxItems
    BY <1>1, BoundAssumption
  <2>2. crashed \in BOOLEAN /\ call \in {NoCall} \cup Calls
    BY <1>1
  <2>3. Typed
    BY <1>1, <2>1, <2>2, Zenon DEF Typed
  <2>4. Stage
    BY <1>1, Zenon DEF Stage
  <2> QED BY <2>3, <2>4
<1>4. Index!Init
  BY <1>1 DEF Index!Init, Index!NoCall, Index!NoAnswer, NoCall, NoAnswer, Stored, built
<1> QED BY <1>2, <1>3, <1>4 DEF IInv

(* The calls there are, and what they ask for                               *)
LEMMA CallKinds ==
  ASSUME NEW c \in Calls
  PROVE  /\ c # NoCall
         /\ c.op = "query" => c.box \in Boxes
         /\ c.op = "remove" => c.box \in Boxes /\ c.item \in DOMAIN items
<1>1. CASE c \in {[op |-> "query", box |-> b] : b \in Boxes}
  BY <1>1 DEF NoCall
<1>2. CASE c \in {[op |-> "remove", box |-> b, item |-> i] : b \in Boxes, i \in DOMAIN items}
  BY <1>2 DEF NoCall
<1>3. CASE c \in {[op |-> "items"]}
  BY <1>3 DEF NoCall
<1> QED BY <1>1, <1>2, <1>3 DEF Calls

(* What holds in the stages of a tree's life                                *)
LEMMA Stages ==
  ASSUME IInv
  PROVE  /\ items \in Seq(Boxes) /\ Len(items) \in Nat /\ Len(items) <= MaxItems
         /\ DOMAIN items = 1..Len(items)
         /\ SoundTree(nodes, items) /\ Len(nodes) \in Nat
         /\ built => /\ root = Len(nodes) /\ root \in 1..Len(nodes) /\ current = <<>>
                     /\ Stored = Under(nodes)[root] /\ Stored \subseteq 1..Len(items)
         /\ ~built => root = 0 /\ Stored = DOMAIN items
         /\ call = NoCall /\ ~built => nodes = <<>> /\ current = <<>>
         /\ items = <<>> /\ ~built => nodes = <<>> /\ current = <<>>
<1>1. /\ items \in Seq(Boxes) /\ Len(items) <= MaxItems /\ SoundTree(nodes, items)
      /\ Len(items) \in Nat /\ DOMAIN items = 1..Len(items)
  BY DEF IInv, Typed
<1>2. Len(nodes) \in Nat /\ Tree(nodes, Len(items))
  BY <1>1, NodeFields DEF SoundTree
<1>3. /\ built => root = Len(nodes) /\ root # 0 /\ current = <<>>
      /\ call = NoCall /\ ~built => nodes = <<>> /\ current = <<>>
      /\ items = <<>> /\ ~built => nodes = <<>> /\ current = <<>>
  <2>1. Stage
    BY DEF IInv
  <2> QED BY <1>2, <2>1 DEF Stage, Underway, built
<1>4. built => root \in 1..Len(nodes)
  BY <1>2, <1>3
<1>5. built => Stored = Under(nodes)[root] /\ Stored \subseteq 1..Len(items)
  BY <1>1, <1>2, <1>4, UnderItems DEF Stored, ItemsUnder
<1>6. ~built => root = 0 /\ Stored = DOMAIN items
  BY DEF built, Stored
<1> QED BY <1>1, <1>2, <1>3, <1>4, <1>5, <1>6

LEMMA InsertStep ==
  ASSUME IInv, NEW b \in Boxes, Insert(b)
  PROVE  IInv' /\ IndexStep
<1>1. /\ call = NoCall /\ call' = NoCall /\ ~built /\ Len(items) < MaxItems
      /\ items' = Append(items, b) /\ answer' = NoAnswer
      /\ UNCHANGED <<nodes, current, root, call, crashed>>
  BY DEF Insert
<1>2. /\ items \in Seq(Boxes) /\ Len(items) \in Nat /\ nodes = <<>> /\ current = <<>> /\ root = 0
      /\ Stored = DOMAIN items /\ DOMAIN items = 1..Len(items)
  BY <1>1, Stages
<1>3. items' \in Seq(Boxes) /\ Len(items') = Len(items) + 1 /\ DOMAIN items' = 1..Len(items) + 1
  BY <1>1, <1>2
<1>4. Len(items') <= MaxItems /\ Len(items') \in Nat
  BY <1>1, <1>2, <1>3, BoundAssumption
<1>5. SoundTree(nodes', items')
  BY <1>1, <1>2, <1>4, EmptySound
<1>6. Typed'
  BY <1>1, <1>3, <1>4 DEF IInv, Typed
<1>7. Stage'
  BY <1>1, <1>2 DEF Stage
<1>8. Stored' = Stored \cup {Len(items) + 1}
  <2>1. Stored' = DOMAIN items'
    BY <1>1, <1>2 DEF Stored, built
  <2>2. 1..Len(items) + 1 = 1..Len(items) \cup {Len(items) + 1}
    BY <1>2
  <2> QED BY <1>2, <1>3, <2>1, <2>2
<1>9. Index!Insert(b)
  BY <1>1, <1>8 DEF Index!Insert, Index!NoCall, Index!NoAnswer, NoCall, NoAnswer
<1>10. Index!Next
  BY <1>9 DEF Index!Next
<1> QED BY <1>5, <1>6, <1>7, <1>10 DEF IInv, IndexStep

LEMMA CallStep ==
  ASSUME IInv, NEW c \in Calls, Call(c)
  PROVE  IInv' /\ IndexStep
<1>1. /\ call = NoCall /\ call' = c /\ answer' = NoAnswer
      /\ UNCHANGED <<items, nodes, current, root, crashed>>
  BY DEF Call
<1>2. /\ DOMAIN items = 1..Len(items) /\ Len(items) \in Nat /\ Len(items) <= MaxItems
      /\ SoundTree(nodes, items)
  BY Stages
<1>3. Typed'
  <2>1. Calls' = Calls
    BY <1>1 DEF Calls
  <2> QED BY <1>1, <2>1 DEF IInv, Typed
<1>4. Stage'
  <2>1. call' # NoCall
    BY <1>1, CallKinds
  <2>2. (root = 0 /\ nodes = <<>> /\ current = <<>>) \/ (root = Len(nodes) /\ root # 0 /\ current = <<>>)
    BY <1>1 DEF IInv, Stage
  <2> QED BY <1>1, <2>2 DEF Stage
<1>5. Stored' = Stored
  BY <1>1 DEF Stored, built, ItemsUnder
<1>6. c \in Index!Calls
  <2>1. DOMAIN items \subseteq 1..MaxItems
    BY <1>2, BoundAssumption
  <2> HIDE DEF NoCall
  <2> QED BY <2>1 DEF Calls, Index!Calls
<1>7. Index!Call(c)
  BY <1>1, <1>5 DEF Index!Call, Index!NoCall, Index!NoAnswer, NoCall, NoAnswer
<1>8. Index!Next
  BY <1>6, <1>7 DEF Index!Next
<1>9. SoundTree(nodes', items')
  BY <1>1, <1>2
<1> QED BY <1>3, <1>4, <1>8, <1>9 DEF IInv, IndexStep

(* What a step of the build, which the callers do not see, has to keep      *)
LEMMA BuildEmptyStep ==
  ASSUME IInv, BuildEmpty
  PROVE  IInv' /\ IndexStep
<1> DEFINE leaf == [level |-> 0, children |-> <<>>, bounds |-> Null]
           t == <<leaf>>
<1>1. /\ ~built /\ items = <<>> /\ nodes' = t /\ root' = 1
      /\ UNCHANGED <<items, current, call, answer, crashed>>
  BY DEF BuildEmpty
<1>2. current = <<>> /\ Stored = DOMAIN items /\ Len(items) = 0 /\ DOMAIN items = {}
  BY <1>1, Stages
<1>3. leaf \in TreeNode /\ leaf.children = <<>> /\ leaf.bounds = Null /\ leaf.level = 0
  BY DEF TreeNode
<1> HIDE DEF leaf
<1>4. Len(t) = 1 /\ t \in Seq(TreeNode) /\ (\A n \in 1..1 : t[n] = leaf) /\ 1 \in 1..1 /\ t[1] = leaf
  <2> HIDE DEF TreeNode
  <2> QED BY <1>3
<1> HIDE DEF t
<1>5. \A n \in 1..Len(t) : /\ Range(t[n].children) = {} /\ t[n].bounds = Null /\ t[n].level = 0
                           /\ n = 1
  <2>1. Range(<<>>) = {}
    BY DEF Range
  <2> QED BY <1>3, <1>4, <2>1
<1>6. SoundTree(t, items)
  <2>1. Tree(t, 0) /\ OneParent(t) /\ KnownBelow(t) /\ Covered(t, items)
    BY <1>4, <1>5 DEF Tree, OneParent, KnownBelow, Covered
  <2>2. KidsFilled(t)
    BY <1>4, <1>5 DEF KidsFilled, Kid
  <2>3. Levels(t)
    BY <1>4, <1>5 DEF Levels
  <2> QED BY <1>2, <2>1, <2>2, <2>3 DEF SoundTree
<1>7. Under(t)[1] = {}
  <2>1. Under(t)[1] \subseteq 1..0
    BY <1>2, <1>4, <1>6, UnderItems DEF SoundTree
  <2> QED BY <2>1
<1>8. Stored' = Stored
  BY <1>1, <1>2, <1>7 DEF Stored, built, ItemsUnder
<1>9. SoundTree(nodes', items')
  BY <1>1, <1>6
<1>10. Typed'
  <2>1. Calls' = Calls
    BY <1>1 DEF Calls
  <2> QED BY <1>1, <2>1 DEF IInv, Typed
<1>11. Stage'
  BY <1>1, <1>2, <1>4 DEF Stage
<1> QED BY <1>1, <1>8, <1>9, <1>10, <1>11 DEF IInv, IndexStep, Index!vars

LEMMA BuildLevelStep ==
  ASSUME IInv, BuildLevel
  PROVE  IInv' /\ IndexStep
<1>1. /\ UNCHANGED <<items, call, answer, crashed>>
      /\ SoundTree(nodes', items)
      /\ \/ /\ root' = Len(nodes') /\ root' # 0 /\ current' = <<>>
            /\ Under(nodes')[root'] = 1..Len(items)
         \/ root' = root /\ Underway'
  BY BuildLevelSound
<1>2. /\ ~built /\ root = 0 /\ call # NoCall /\ Stored = DOMAIN items /\ DOMAIN items = 1..Len(items)
  BY Stages DEF BuildLevel
<1>3. Stored' = Stored
  BY <1>1, <1>2 DEF Stored, built, ItemsUnder
<1>4. Typed'
  <2>1. Calls' = Calls
    BY <1>1 DEF Calls
  <2> QED BY <1>1, <2>1 DEF IInv, Typed
<1>5. Stage'
  BY <1>1, <1>2 DEF Stage
<1>6. SoundTree(nodes', items')
  BY <1>1
<1> QED BY <1>1, <1>3, <1>4, <1>5, <1>6 DEF IInv, IndexStep, Index!vars

(* The stage and the type of a built tree once an operation has returned    *)
LEMMA Returned ==
  ASSUME IInv, built, NEW a, Return(a), UNCHANGED <<items, current, root, crashed>>,
         Len(nodes') = Len(nodes), SoundTree(nodes', items)
  PROVE  IInv' /\ Stored' = Under(nodes')[root]
<1>1. call' = NoCall /\ UNCHANGED <<items, current, root, crashed>>
  BY DEF Return
<1>2. root = Len(nodes) /\ root # 0 /\ current = <<>>
  BY Stages DEF built
<1>3. Typed'
  BY <1>1 DEF IInv, Typed
<1>4. Stage'
  BY <1>1, <1>2 DEF Stage
<1>5. SoundTree(nodes', items')
  BY <1>1
<1>6. Stored' = Under(nodes')[root]
  BY <1>1, <1>2 DEF Stored, built, ItemsUnder
<1> QED BY <1>3, <1>4, <1>5, <1>6 DEF IInv

LEMMA ServeItemsTreeStep ==
  ASSUME IInv, ServeItemsTree
  PROVE  IInv' /\ IndexStep
<1>1. /\ call.op = "items" /\ built /\ Return([op |-> "items", found |-> ItemsUnder[root]])
      /\ UNCHANGED <<items, nodes, current, root, crashed>>
  BY DEF ServeItemsTree
<1>2. SoundTree(nodes', items) /\ Len(nodes') = Len(nodes) /\ Stored = Under(nodes)[root]
  BY <1>1, Stages
<1>3. IInv' /\ Stored' = Under(nodes')[root]
  BY <1>1, <1>2, Returned
<1>4. Index!AnswerItems
  BY <1>1, <1>2, <1>3 DEF Index!AnswerItems, Return, ItemsUnder, NoCall, Index!NoCall
<1> QED BY <1>3, <1>4 DEF IndexStep, Index!Next

LEMMA CrashOnEmptyStep ==
  ASSUME IInv, CrashOnEmpty
  PROVE  IInv' /\ IndexStep
<1>1. crashed' = TRUE /\ UNCHANGED <<items, nodes, current, root, call, answer>>
  BY DEF CrashOnEmpty
<1>2. Typed'
  <2>1. Calls' = Calls
    BY <1>1 DEF Calls
  <2> QED BY <1>1, <2>1 DEF IInv, Typed
<1>3. Stage'
  BY <1>1 DEF IInv, Stage, Underway
<1>4. SoundTree(nodes', items')
  BY <1>1 DEF IInv
<1>5. Stored' = Stored
  BY <1>1 DEF Stored, built, ItemsUnder
<1> QED BY <1>1, <1>2, <1>3, <1>4, <1>5 DEF IInv, IndexStep, Index!vars

(* The tree a walk goes through: the root knows its bounds                  *)
LEMMA WalkedTree ==
  ASSUME IInv, built
  PROVE  LET t == WithBounds({root}) IN
         /\ SoundTree(t, items) /\ Len(t) = Len(nodes) /\ root = Len(t) /\ root \in 1..Len(t)
         /\ Under(t)[root] = Stored
<1> DEFINE t == WithBounds({root})
<1>1. /\ items \in Seq(Boxes) /\ SoundTree(nodes, items) /\ root = Len(nodes)
      /\ root \in 1..Len(nodes) /\ Stored = Under(nodes)[root]
  BY Stages
<1>2. SoundTree(t, items) /\ Computed(t, {root}) /\ Under(t) = Under(nodes)
  BY <1>1, KnownSound
<1>3. Len(t) = Len(nodes)
  BY <1>2 DEF Computed, SameShape
<1> HIDE DEF t
<1> QED BY <1>1, <1>2, <1>3 DEF t

LEMMA ServeQueryStep ==
  ASSUME IInv, ServeQuery
  PROVE  IInv' /\ IndexStep
<1> DEFINE t == WithBounds({root})
           b == call.box
           found == IF Meets(t[root].bounds, b) THEN Matches(t, b)[root] ELSE {}
<1>1. /\ call.op = "query" /\ built /\ t[root].bounds # Null /\ nodes' = t
      /\ Return([op |-> "query", found |-> found])
      /\ UNCHANGED <<items, current, root, crashed>>
  BY DEF ServeQuery
<1>2. b \in Boxes /\ b \in Box
  <2>1. call \in Calls
    <3>1. call \in {NoCall} \cup Calls
      BY DEF IInv, Typed
    <3>2. NoCall.op # "query"
      BY DEF NoCall
    <3> QED BY <1>1, <3>1, <3>2
  <2>2. b \in Boxes
    BY <1>1, <2>1, CallKinds
  <2> QED BY <2>2, MeetsItself
<1>3. /\ SoundTree(t, items) /\ Len(t) = Len(nodes) /\ root \in 1..Len(t)
      /\ Under(t)[root] = Stored
  BY <1>1, WalkedTree
<1>4. /\ items \in Seq(Boxes) /\ Len(items) \in Nat /\ Len(items) <= MaxItems
      /\ Stored \subseteq 1..Len(items)
  BY <1>1, Stages
<1> HIDE DEF t, b
<1>5. found = {i \in Stored : Meets(items[i], b)}
  <2>1. Matches(t, b)[root] = {i \in Stored : Meets(items[i], b)}
    BY <1>2, <1>3, <1>4, MatchesExactly
  <2>2. \A i \in Stored : Meets(items[i], b) => Meets(t[root].bounds, b)
    BY <1>1, <1>2, <1>3, <1>4, BoundsMeet
  <2> QED BY <2>1, <2>2
<1> HIDE DEF found
<1>6. IInv' /\ Stored' = Stored
  <2>1. Len(nodes') = Len(nodes) /\ SoundTree(nodes', items)
    BY <1>1, <1>3
  <2>2. IInv' /\ Stored' = Under(nodes')[root]
    BY <1>1, <2>1, Returned
  <2> QED BY <1>1, <1>3, <2>2
<1>7. found \in SUBSET (1..MaxItems)
  <2>1. 1..Len(items) \subseteq 1..MaxItems
    BY <1>4, BoundAssumption
  <2> QED BY <1>4, <1>5, <2>1
<1>8. found = Index!Hits(call.box)
  BY <1>5 DEF Index!Hits, b
<1>9. Index!AnswerQuery(found)
  BY <1>1, <1>6, <1>8 DEF Index!AnswerQuery, Return, NoCall, Index!NoCall
<1> QED BY <1>6, <1>7, <1>9 DEF IndexStep, Index!Next

LEMMA ServeRemoveStep ==
  ASSUME IInv, ServeRemove
  PROVE  IInv' /\ IndexStep
<1> DEFINE t == WithBounds({root})
           b == call.box
           i == call.item
           removed == Removed(t, b, i)
           found == Meets(t[root].bounds, b) /\ removed[root]
           p == Pruned(t, removed, i)
<1>1. /\ call.op = "remove" /\ built /\ t[root].bounds # Null
      /\ nodes' = IF found THEN p ELSE t
      /\ Return([op |-> "remove", found |-> found])
      /\ UNCHANGED <<items, current, root, crashed>>
  BY DEF ServeRemove
<1>2. b \in Boxes /\ i \in DOMAIN items
  <2>1. call \in Calls
    <3>1. call \in {NoCall} \cup Calls
      BY DEF IInv, Typed
    <3>2. NoCall.op # "remove"
      BY DEF NoCall
    <3> QED BY <1>1, <3>1, <3>2
  <2> QED BY <1>1, <2>1, CallKinds
<1>3. /\ SoundTree(t, items) /\ Len(t) = Len(nodes) /\ root = Len(t) /\ root \in 1..Len(t)
      /\ Under(t)[root] = Stored
  BY <1>1, WalkedTree
<1>4. items \in Seq(Boxes) /\ Len(items) \in Nat /\ DOMAIN items = 1..Len(items)
  BY Stages
<1> HIDE DEF t, b, i
<1>5. Removal(t, b, i, removed)
  BY <1>2, <1>3, <1>4 DEF Removal
<1>6. i \in Nat /\ Tree(t, Len(items))
  BY <1>2, <1>3, <1>4 DEF SoundTree
<1>7. PrunedTo(t, removed, p, i)
  BY <1>4, <1>6, PrunedUnfold
<1> HIDE DEF removed, p
<1>8. removed[root] => i \in Stored
  BY <1>3, <1>5, RemovedHolds
<1>9. removed[root] => /\ SoundTree(p, items) /\ Len(p) = Len(t)
                       /\ Under(p)[root] = Stored \ {i}
  <2> SUFFICES ASSUME removed[root]
               PROVE  SoundTree(p, items) /\ Len(p) = Len(t) /\ Under(p)[root] = Stored \ {i}
    OBVIOUS
  <2>1. Len(t) # 0 /\ removed[Len(t)]
    BY <1>3
  <2>2. SoundTree(p, items)
    BY <1>5, <1>7, <2>1, PrunedSound
  <2>3. Len(p) = Len(t)
    BY <1>5, <1>7, <2>1, PrunedChildren DEF PrunedFrom
  <2>4. Under(p)[root] = Under(t)[root] \ {i}
    BY <1>3, <1>5, <1>7, <2>1, PrunedUnder
  <2> QED BY <1>3, <2>2, <2>3, <2>4
<1>10. i \in Stored /\ b = items[i] => found
  <2> SUFFICES ASSUME i \in Stored, b = items[i] PROVE found
    OBVIOUS
  <2>1. Removal(t, items[i], i, removed)
    BY <1>5
  <2>2. removed[root] /\ Meets(t[root].bounds, items[i])
    BY <1>1, <1>3, <2>1, NamedIsFound
  <2> QED BY <2>2
<1>11. found \in BOOLEAN
  <2>1. removed \in [1..Len(t) -> BOOLEAN]
    BY <1>5, RemovalFields
  <2>2. removed[root] \in BOOLEAN
    BY <1>3, <2>1
  <2> QED BY <2>2 DEF Meets
<1>12. found => removed[root]
  OBVIOUS
<1> HIDE DEF found
<1>13. /\ Len(nodes') = Len(nodes) /\ SoundTree(nodes', items)
       /\ Under(nodes')[root] = IF found THEN Stored \ {i} ELSE Stored
  <2>1. CASE found
    <3>1. nodes' = p
      BY <1>1, <2>1
    <3> QED BY <1>3, <1>9, <1>12, <2>1, <3>1
  <2>2. CASE ~found
    <3>1. nodes' = t
      BY <1>1, <2>2
    <3> QED BY <1>3, <2>2, <3>1
  <2> QED BY <2>1, <2>2
<1>14. IInv' /\ Stored' = Under(nodes')[root]
  BY <1>1, <1>13, Returned
<1>15. Stored' = IF found THEN Stored \ {i} ELSE Stored
  BY <1>13, <1>14
<1>16. Index!AnswerRemove(found)
  BY <1>1, <1>8, <1>10, <1>12, <1>15 DEF Index!AnswerRemove, Return, NoCall, Index!NoCall, b, i
<1> QED BY <1>11, <1>14, <1>16 DEF IndexStep, Index!Next

LEMMA StutterStep ==
  ASSUME IInv, UNCHANGED vars
  PROVE  IInv' /\ IndexStep
<1>1. UNCHANGED <<items, nodes, current, root, call, answer, crashed>>
  BY DEF vars
<1>2. Typed'
  <2>1. Calls' = Calls
    BY <1>1 DEF Calls
  <2> QED BY <1>1, <2>1 DEF IInv, Typed
<1>3. Stage'
  BY <1>1 DEF IInv, Stage, Underway
<1>4. SoundTree(nodes', items')
  BY <1>1 DEF IInv
<1>5. Stored' = Stored
  BY <1>1 DEF Stored, built, ItemsUnder
<1> QED BY <1>1, <1>2, <1>3, <1>4, <1>5 DEF IInv, IndexStep, Index!vars

LEMMA NextStep == IInv /\ [Next]_vars => IInv' /\ IndexStep
<1> SUFFICES ASSUME IInv, [Next]_vars PROVE IInv' /\ IndexStep
  OBVIOUS
<1>1. ASSUME NEW b \in Boxes, Insert(b) PROVE IInv' /\ IndexStep
  BY <1>1, InsertStep
<1>2. ASSUME NEW c \in Calls, Call(c) PROVE IInv' /\ IndexStep
  BY <1>2, CallStep
<1>3. CASE BuildEmpty
  BY <1>3, BuildEmptyStep
<1>4. CASE BuildLevel
  BY <1>4, BuildLevelStep
<1>5. CASE ServeQuery
  BY <1>5, ServeQueryStep
<1>6. CASE ServeRemove
  BY <1>6, ServeRemoveStep
<1>7. CASE ServeItemsTree
  BY <1>7, ServeItemsTreeStep
<1>8. CASE CrashOnEmpty
  BY <1>8, CrashOnEmptyStep
<1>9. CASE UNCHANGED vars
  BY <1>9, StutterStep
<1> QED BY <1>1, <1>2, <1>3, <1>4, <1>5, <1>6, <1>7, <1>8, <1>9 DEF Next, Serve

-----------------------------------------------------------------------------
(* The tree is sound in every state: its children are items and earlier     *)
(* nodes, its nodes are neither empty nor too full, it is balanced and no   *)
(* boundable has two parents, and no bounds are too small for what is under  *)
(* them, through every build and any number of removals.                    *)
LEMMA SoundInv == IInv => TreeSound
<1> SUFFICES ASSUME IInv PROVE TreeSound
  OBVIOUS
<1> DEFINE m == Len(items)
           N == Len(nodes)
<1>1. /\ items \in Seq(Boxes) /\ m \in Nat /\ m <= MaxItems /\ DOMAIN items = 1..m
      /\ SoundTree(nodes, items) /\ N \in Nat
      /\ built => root = N /\ root \in 1..N /\ current = <<>>
      /\ ~built => root = 0
  BY Stages
<1>2. /\ Tree(nodes, m) /\ DOMAIN nodes = 1..N
      /\ \A n \in 1..N :
           /\ nodes[n].level \in Nat
           /\ \A c \in Range(nodes[n].children) : c \in Boundables /\ Below(c, n, m)
  <2>1. Tree(nodes, m)
    BY <1>1 DEF SoundTree
  <2> QED BY <2>1, NodeFields
<1>3. Boundable = {c \in Boundables : (c.kind = "item" /\ c.id \in 1..m)
                                       \/ (c.kind = "node" /\ c.id \in 1..N)}
  <2>1. \A c \in Boundable : c \in Boundables /\ ((c.kind = "item" /\ c.id \in 1..m)
                                                   \/ (c.kind = "node" /\ c.id \in 1..N))
    BY <1>1, <1>2 DEF Boundable, Boundables
  <2>2. \A c \in Boundables : (c.kind = "item" /\ c.id \in 1..m) \/ (c.kind = "node" /\ c.id \in 1..N)
                              => c \in Boundable
    BY <1>1, <1>2 DEF Boundable, Boundables
  <2> QED BY <2>1, <2>2
<1>4. ASSUME NEW n \in 1..N, NEW c \in Range(nodes[n].children)
      PROVE  c \in Boundable /\ (c.kind = "node" => c.id < n /\ c.id \in 1..N)
  <2>1. c \in Boundables /\ Below(c, n, m)
    BY <1>2
  <2>2. c.kind = "node" => c.id < n /\ c.id \in 1..N
    BY <1>1, <2>1 DEF Below
  <2> QED BY <1>3, <2>1, <2>2 DEF Below
<1>5. Range(current) \subseteq Boundable
  <2>1. CASE current = <<>>
    BY <2>1 DEF Range
  <2>2. CASE Underway
    <3> DEFINE L == Len(current)
    <3>1. L \in 2..N /\ current = [k \in 1..L |-> Node(N - L + k)]
      BY <2>2 DEF Underway
    <3>2. \A k \in 1..L : N - L + k \in 1..N /\ N - L + k \in Nat
      BY <1>1, <3>1
    <3>3. \A n \in 1..N : n \in Nat => Node(n) \in Boundable
      BY <1>2 DEF Boundable, Node
    <3>4. \A c \in Range(current) : \E k \in 1..L : c = Node(N - L + k)
      <4> HIDE DEF L, N
      <4> QED BY <3>1 DEF Range
    <3> HIDE DEF L, N
    <3> QED BY <3>2, <3>3, <3>4
  <2> QED BY <2>1, <2>2 DEF IInv, Stage
<1>6. TypeOK
  <2>1. root \in {0} \cup DOMAIN nodes
    BY <1>1, <1>2
  <2>2. crashed \in BOOLEAN
    BY DEF IInv, Typed
  <2>3. \A n \in DOMAIN nodes :
          /\ nodes[n].level \in Nat
          /\ Range(nodes[n].children) \subseteq Boundable
          /\ \A c \in Range(nodes[n].children) : c.kind = "node" => c.id < n
    BY <1>2, <1>4
  <2> HIDE DEF N
  <2> QED BY <1>1, <1>5, <2>1, <2>2, <2>3 DEF TypeOK
<1>7. NodesFilled
  <2> SUFFICES ASSUME NEW n \in Reachable \ {root}
               PROVE  Len(nodes[n].children) \in 1..NodeCapacity
    BY DEF NodesFilled
  <2>1. n \in 1..N /\ Kid(nodes, n)
    BY <1>2 DEF Reachable, Kid
  <2> QED BY <1>1, <2>1 DEF SoundTree, KidsFilled
<1>8. Balanced
  <2>1. \A n \in DOMAIN nodes : \A c \in Range(nodes[n].children) :
          nodes[n].level = 1 + (IF c.kind = "item" THEN -1 ELSE nodes[c.id].level)
    BY <1>1, <1>2 DEF SoundTree, Levels, LevelOf
  <2>2. \A j, n \in DOMAIN nodes :
          j # n => Range(nodes[j].children) \cap Range(nodes[n].children) = {}
    BY <1>1, <1>2 DEF SoundTree, OneParent
  <2> QED BY <2>1, <2>2 DEF Balanced
<1>9. BoundsCover
  BY <1>1, <1>2 DEF SoundTree, Covered, BoundsCover, ItemsUnder
<1> QED BY <1>6, <1>7, <1>8, <1>9 DEF TreeSound

THEOREM TreeAlwaysSound == Spec => []TreeSound
<1>1. Init => IInv
  BY InitSound
<1>2. IInv /\ [Next]_vars => IInv'
  BY NextStep
<1>3. IInv => TreeSound
  BY SoundInv
<1> QED BY <1>1, <1>2, <1>3, PTL DEF Spec

(* The tree is an exact spatial index: it implements SpatialIndex, whatever  *)
(* order the sort leaves equal boundables in and whatever the capacity.     *)
THEOREM TreeIsExactIndex == Spec => Contract
<1>1. Init => IInv /\ Index!Init
  BY InitSound
<1>2. IInv /\ [Next]_vars => IInv' /\ [Index!Next]_(Index!vars)
  BY NextStep DEF IndexStep
<1> QED BY <1>1, <1>2, PTL DEF Spec, Contract, Index!Spec
=============================================================================
