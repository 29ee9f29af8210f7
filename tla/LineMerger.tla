----------------------------- MODULE LineMerger -----------------------------
(***************************************************************************)
(* linemerge::LineMerger: lines are sewn together at nodes where exactly   *)
(* two of them meet.  Marks on nodes and edges outlive a call, so lines    *)
(* added after one meet the state it left behind.                          *)
(***************************************************************************)
EXTENDS Linework

VARIABLES
  markedEdges,
  markedNodes,
  strings,  \* the edge strings built so far, each a sequence of darts
  todo,     \* the nodes the loop has still to visit
  out,      \* the darts of the node visited that are still to be looked at
  string    \* the edge string being built

mergerVars == <<markedEdges, markedNodes, strings, todo, out, string>>

MergerInit ==
  /\ markedEdges = {}
  /\ markedNodes = {}
  /\ strings = <<>>
  /\ todo = <<>>
  /\ out = <<>>
  /\ string = <<>>

GetMergedLineStrings ==
  /\ Request("junctions")
  /\ todo' = NodesInOrder
  /\ UNCHANGED <<markedEdges, markedNodes, strings, out, string>>

(* Fault: loops are looked for at every node that is left.                  *)
StartsHereAlways(node) == TRUE

(* Which nodes edge strings start at: first the ends and junctions, then    *)
(* one node of each loop.                                                   *)
StartsHere(node) ==
  IF pc = "junctions" THEN Degree(node) # 2 ELSE node \notin markedNodes

BetweenNodes == out = <<>> /\ string = <<>>

VisitNode ==
  /\ pc \in {"junctions", "loops"}
  /\ BetweenNodes
  /\ todo # <<>>
  /\ IF StartsHere(Head(todo))
     THEN /\ out' = Star(Head(todo))
          /\ markedNodes' = markedNodes \cup {Head(todo)}
     ELSE UNCHANGED <<out, markedNodes>>
  /\ todo' = Tail(todo)
  /\ UNCHANGED <<markedEdges, strings, string, lineworkVars>>

SkipMarkedEdge ==
  /\ string = <<>>
  /\ out # <<>>
  /\ Head(out)[1] \in markedEdges
  /\ out' = Tail(out)
  /\ UNCHANGED <<markedEdges, markedNodes, strings, todo, string, lineworkVars>>

StartString ==
  /\ string = <<>>
  /\ out # <<>>
  /\ Head(out)[1] \notin markedEdges
  /\ string' = <<Head(out)>>
  /\ markedEdges' = markedEdges \cup {Head(out)[1]}
  /\ out' = Tail(out)
  /\ UNCHANGED <<markedNodes, strings, todo, lineworkVars>>

(* LineMergeDirectedEdge::getNext                                           *)
NextDart(d) ==
  LET star == Star(ToNode(d))
  IN  IF Len(star) # 2 THEN NULL
      ELSE IF star[1] = Sym(d) THEN star[2] ELSE star[1]

Follow ==
  /\ string # <<>>
  /\ NextDart(Last(string)) \notin {NULL, string[1]}
  /\ string' = Append(string, NextDart(Last(string)))
  /\ markedEdges' = markedEdges \cup {NextDart(Last(string))[1]}
  /\ UNCHANGED <<markedNodes, strings, todo, out, lineworkVars>>

EndString ==
  /\ string # <<>>
  /\ NextDart(Last(string)) \in {NULL, string[1]}
  /\ strings' = Append(strings, string)
  /\ string' = <<>>
  /\ UNCHANGED <<markedEdges, markedNodes, todo, out, lineworkVars>>

SearchLoops ==
  /\ pc = "junctions"
  /\ BetweenNodes
  /\ todo = <<>>
  /\ pc' = "loops"
  /\ todo' = NodesInOrder
  /\ UNCHANGED <<markedEdges, markedNodes, strings, out, string, asked, lines, tool>>

ReturnMerged ==
  /\ pc = "loops"
  /\ BetweenNodes
  /\ todo = <<>>
  /\ pc' = "idle"
  /\ UNCHANGED <<mergerVars, asked, lines, tool>>

MergerStep ==
  \/ VisitNode \/ SkipMarkedEdge \/ StartString \/ Follow
  \/ EndString \/ SearchLoops \/ ReturnMerged

MergerNext ==
  /\ tool = "merger"
  /\ \/ GetMergedLineStrings
     \/ MergerStep
     \/ \E line \in Spare : AddLine(line) /\ UNCHANGED mergerVars

(* EdgeString::getCoordinates: a string runs the way most of its lines do.  *)
Merged(path) ==
  LET forward == Cardinality({k \in DOMAIN path : path[k][2]})
  IN  IF Len(path) - forward > forward
      THEN Reverse([k \in DOMAIN path |-> Sym(path[k])])
      ELSE path

-----------------------------------------------------------------------------
HasMerged == tool = "merger" /\ pc = "idle" /\ asked # <<>>

(* How often a line occurs in the merged lines.                             *)
Occurrences(e) ==
  Cardinality({kj \in {<<k, j>> : k \in DOMAIN strings, j \in DOMAIN lines} :
                 kj[2] \in DOMAIN strings[kj[1]] /\ strings[kj[1]][kj[2]][1] = e})

(* The first answer has every line in one merged line, once, in whatever    *)
(* order junctions and loops are come by.  (A line added afterwards at nodes *)
(* already marked is in no later answer, although add "May be called        *)
(* multiple times", LineMerger.h.)                                          *)
LinesMergedOnce ==
  HasMerged /\ Len(asked) = 1 =>
    \A e \in DOMAIN lines : Occurrences(e) = IF e <= asked[1] THEN 1 ELSE 0

(* Merged lines are paths that cannot be extended: they end at nodes of     *)
(* degree other than two, or they are loops without such a node.  (A line   *)
(* added afterwards may change the degrees.)                                *)
StringsAreMaximal ==
  HasMerged /\ asked = <<Len(lines)>> =>
    \A k \in DOMAIN strings :
      LET path == strings[k] IN
        /\ IsPath(path)
        /\ \A j \in 1..Len(path) - 1 : Degree(ToNode(path[j])) = 2
        /\ \/ Degree(FromNode(path[1])) # 2 /\ Degree(ToNode(Last(path))) # 2
           \/ FromNode(path[1]) = ToNode(Last(path))

(* LineMerger.h, "The direction of each merged LineString will be that of   *)
(* the majority of the LineStrings from which it was derived", and turning  *)
(* a string round keeps it a path.                                          *)
RunsWithMajority ==
  HasMerged =>
    \A k \in DOMAIN strings :
      LET path == Merged(strings[k])
      IN  2 * Cardinality({j \in DOMAIN path : path[j][2]}) >= Len(path) /\ IsPath(path)
=============================================================================
