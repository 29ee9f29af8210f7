--------------------------- MODULE LineSequencer ----------------------------
(***************************************************************************)
(* linemerge::LineSequencer: all lines of each connected part, end to end, *)
(* along an Eulerian path grown from closed walks.                         *)
(***************************************************************************)
EXTENDS Linework

VARIABLES
  isRun,
  subgraphs,  \* the connected parts still to be sequenced, sets of nodes
  visited,    \* the edges visited
  seq,        \* the sequence of the part being worked on
  lit,        \* the position of the list iterator in it
  walk,       \* the walk in progress: [at, home, closed], or NULL
  sequences,  \* the sequences found, oriented
  sequenceable

sequencerVars == <<isRun, subgraphs, visited, seq, lit, walk, sequences, sequenceable>>

SequencerInit ==
  /\ isRun = FALSE
  /\ subgraphs = <<>>
  /\ visited = {}
  /\ seq = <<>>
  /\ lit = 1
  /\ walk = NULL
  /\ sequences = <<>>
  /\ sequenceable = FALSE

(* ConnectedSubgraphFinder: the parts in the order of their first edges.     *)
Component(node) == Reachable(node, Dart)
PartsInOrder ==
  LET Find(found, d) ==
        IF FromNode(d) \in UNION Range(found) THEN found
        ELSE Append(found, Component(FromNode(d)))
  IN  FoldLeft(Find, <<>>, DartsInOrder)

OddNodes(part) == {n \in part : Degree(n) % 2 = 1}

ComputeSequence ==
  /\ Request("subgraph")
  /\ ~isRun
  /\ isRun' = TRUE
  /\ subgraphs' = PartsInOrder
  /\ UNCHANGED <<visited, seq, lit, walk, sequences, sequenceable>>

(* An answer computed before is given again, lines added or not.            *)
GiveSequenceAgain ==
  /\ Request("idle")
  /\ isRun
  /\ UNCHANGED sequencerVars

LowestDegreeNode(part) ==
  CHOOSE n \in part : \A m \in part \ {n} :
    Degree(n) < Degree(m) \/ (Degree(n) = Degree(m) /\ CoordinateLess(n, m))

(* The last unvisited dart, one that runs with its line if there is any.    *)
BestOriented(node) ==
  LET unvisited == SelectSeq(Star(node), LAMBDA d : d[1] \notin visited)
      oriented  == SelectSeq(unvisited, LAMBDA d : d[2])
  IN  IF oriented # <<>> THEN Last(oriented)
      ELSE IF unvisited # <<>> THEN Last(unvisited) ELSE NULL

StartSequence ==
  /\ pc = "subgraph"
  /\ subgraphs # <<>>
  /\ Cardinality(OddNodes(Head(subgraphs))) <= 2
  /\ LET start == Star(LowestDegreeNode(Head(subgraphs)))[1]
     IN  /\ seq' = <<start>>
         /\ lit' = 2
         /\ visited' = visited \cup {start[1]}
         /\ walk' = [at |-> ToNode(start), home |-> FromNode(start), closed |-> FALSE]
  /\ pc' = "walk"
  /\ UNCHANGED <<isRun, subgraphs, sequences, sequenceable, asked, lines, tool>>

HasNoSequence ==
  /\ pc = "subgraph"
  /\ subgraphs # <<>>
  /\ Cardinality(OddNodes(Head(subgraphs))) > 2
  /\ pc' = "idle"
  /\ UNCHANGED <<sequencerVars, asked, lines, tool>>

(* addReverseSubpath: darts are inserted before the iterator.               *)
Walk ==
  /\ pc = "walk"
  /\ BestOriented(walk.at) # NULL
  /\ LET d == BestOriented(walk.at)
     IN  /\ seq' = InsertAt(seq, lit, d)
         /\ visited' = visited \cup {d[1]}
         /\ walk' = [walk EXCEPT !.at = ToNode(d)]
  /\ lit' = lit + 1
  /\ UNCHANGED <<isRun, subgraphs, sequences, sequenceable, lineworkVars>>

(* "path not contiguos": the exception leaves the sequencer marked as run.  *)
WalkNotClosed ==
  /\ pc = "walk"
  /\ BestOriented(walk.at) = NULL
  /\ walk.closed
  /\ walk.at # walk.home
  /\ walk' = NULL
  /\ pc' = "thrown"
  /\ UNCHANGED <<isRun, subgraphs, visited, seq, lit, sequences, sequenceable, asked, lines, tool>>

WalkEnds ==
  /\ pc = "walk"
  /\ BestOriented(walk.at) = NULL
  /\ walk.closed => walk.at = walk.home
  /\ lit' = IF walk.closed THEN lit ELSE Len(seq) + 1
  /\ walk' = NULL
  /\ pc' = "back"
  /\ UNCHANGED <<isRun, subgraphs, visited, seq, sequences, sequenceable, asked, lines, tool>>

(* Fault: a closed walk is inserted behind the dart it starts at.           *)
BackAndInsertBehind ==
  /\ pc = "back"
  /\ lit > 1
  /\ LET node == FromNode(seq[lit - 1])
         d    == BestOriented(node)
     IN  IF d = NULL
         THEN /\ lit' = lit - 1
              /\ UNCHANGED <<seq, visited, walk, pc>>
         ELSE /\ seq' = InsertAt(seq, lit, d)
              /\ lit' = lit + 1
              /\ visited' = visited \cup {d[1]}
              /\ walk' = [at |-> ToNode(d), home |-> node, closed |-> TRUE]
              /\ pc' = "walk"
  /\ UNCHANGED <<isRun, subgraphs, sequences, sequenceable, asked, lines, tool>>

(* Back along the sequence, with a closed walk from each node that has      *)
(* unvisited edges.                                                         *)
Back ==
  /\ pc = "back"
  /\ lit > 1
  /\ LET node == FromNode(seq[lit - 1])
         d    == BestOriented(node)
     IN  IF d = NULL
         THEN /\ lit' = lit - 1
              /\ UNCHANGED <<seq, visited, walk, pc>>
         ELSE /\ seq' = InsertAt(seq, lit - 1, d)
              /\ lit' = lit
              /\ visited' = visited \cup {d[1]}
              /\ walk' = [at |-> ToNode(d), home |-> node, closed |-> TRUE]
              /\ pc' = "walk"
  /\ UNCHANGED <<isRun, subgraphs, sequences, sequenceable, asked, lines, tool>>

Reversed(path) == Reverse([k \in DOMAIN path |-> Sym(path[k])])

(* A node of degree one where a line starts goes first.                     *)
Oriented(path) ==
  LET first == path[1]
      last  == Last(path)
      startIsEnd == Degree(FromNode(first)) = 1
      endIsEnd   == Degree(ToNode(last)) = 1
      flip == IF startIsEnd /\ first[2] THEN FALSE
              ELSE (endIsEnd /\ ~last[2]) \/ startIsEnd
  IN  IF flip THEN Reversed(path) ELSE path

SequenceFound ==
  /\ pc = "back"
  /\ lit = 1
  /\ sequences' = Append(sequences, Oriented(seq))
  /\ subgraphs' = Tail(subgraphs)
  /\ seq' = <<>>
  /\ pc' = "subgraph"
  /\ UNCHANGED <<isRun, visited, lit, walk, sequenceable, asked, lines, tool>>

(* Without lines there is no geometry to count the lines of.                *)
SequencesFound ==
  /\ pc = "subgraph"
  /\ subgraphs = <<>>
  /\ IF lines = <<>>
     THEN pc' = "crashed" /\ UNCHANGED sequenceable
     ELSE pc' = "idle" /\ sequenceable' = TRUE
  /\ UNCHANGED <<isRun, subgraphs, visited, seq, lit, walk, sequences, asked, lines, tool>>

(* A caller may go on after an exception.                                   *)
Catch ==
  /\ pc = "thrown"
  /\ pc' = "idle"
  /\ UNCHANGED <<sequencerVars, asked, lines, tool>>

SequencerStep ==
  \/ StartSequence \/ HasNoSequence \/ Walk \/ WalkNotClosed \/ WalkEnds
  \/ Back \/ SequenceFound \/ SequencesFound \/ Catch

SequencerNext ==
  /\ tool = "sequencer"
  /\ \/ ComputeSequence \/ GiveSequenceAgain \/ SequencerStep
     \/ \E line \in Spare : AddLine(line) /\ UNCHANGED sequencerVars

(* The sequence as the lines of the result run: a closed line is not turned.*)
Run(d) == IF FromNode(d) = ToNode(d) THEN <<d[1], TRUE>> ELSE d
Sequenced == LET all == FlattenSeq(sequences) IN [k \in DOMAIN all |-> Run(all[k])]

(* LineSequencer::isSequenced, for the lines of a geometry in their order:  *)
(* no line meets a node of a connected run that has ended.                  *)
IsSequenced(path) ==
  \A j, k \in DOMAIN path :
    /\ j < k
    /\ \E m \in j + 1..k : ToNode(path[m - 1]) # FromNode(path[m])
    => {FromNode(path[j]), ToNode(path[j])} \cap {FromNode(path[k]), ToNode(path[k])} = {}

-----------------------------------------------------------------------------
(* A sequence holds every line once, and the code's own test accepts it.    *)
SequenceIsComplete ==
  tool = "sequencer" /\ sequenceable =>
    /\ IsSequenced(Sequenced)
    /\ \A k \in DOMAIN sequences : IsPath(sequences[k])
    /\ Len(Sequenced) = asked[1]
    /\ Edges(Sequenced) = 1..asked[1]

Components == {Component(n) : n \in Nodes}

HasResult == tool = "sequencer" /\ isRun /\ pc \in {"idle", "thrown"} /\ asked[1] = Len(lines)

(* LineSequencer.h: there is a sequence containing each edge once "if and   *)
(* only if there are no more than 2 nodes of odd degree. If it is not       *)
(* possible to find a sequence, the isSequenceable method will return"      *)
(* false; each connected part has a sequence of its own.                    *)
SequencedIffEulerian ==
  HasResult => (sequenceable <=> \A part \in Components : Cardinality(OddNodes(part)) <= 2)

(* A part whose Eulerian paths all end at two odd nodes, but which has a    *)
(* node of lower, even degree: the walk sets out from that node.            *)
StartsAtWrongNode(part) ==
  OddNodes(part) # {} /\ Degree(LowestDegreeNode(part)) % 2 = 0

(* Where that promise is broken: only by parts with a path that the walk    *)
(* sets out to find from the wrong node, and by every one of them.          *)
MissedByItsStartOnly ==
  HasResult =>
    (sequenceable <=> \A part \in Components : /\ Cardinality(OddNodes(part)) <= 2
                                               /\ ~StartsAtWrongNode(part))
=============================================================================
