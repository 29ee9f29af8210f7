--------------------------- MODULE LineworkTools ----------------------------
(***************************************************************************)
(* The three tools that work on a planar graph of lines, each of which may *)
(* be asked, given another line and asked again.                           *)
(***************************************************************************)
EXTENDS LineMerger, LineSequencer, Polygonizer

toolVars == <<lineworkVars, mergerVars, sequencerVars, polygonizerVars>>

ToolInit == LineworkInit /\ MergerInit /\ SequencerInit /\ PolygonizerInit

ToolNext ==
  \/ MergerNext /\ UNCHANGED <<sequencerVars, polygonizerVars>>
  \/ SequencerNext /\ UNCHANGED <<mergerVars, polygonizerVars>>
  \/ PolygonizerNext /\ UNCHANGED <<mergerVars, sequencerVars>>

ToolSpec == ToolInit /\ [][ToolNext]_toolVars

TypeOK ==
  /\ tool \in {"merger", "sequencer", "polygonizer"}
  /\ Range(asked) \subseteq 0..Len(lines)
  /\ markedEdges \cup visited \subseteq DOMAIN lines
  /\ markedNodes \subseteq Nodes
  /\ \A k \in DOMAIN strings : Range(strings[k]) \subseteq Dart
  /\ Range(seq) \subseteq Dart
  /\ lit \in 1..Len(seq) + 1
  /\ marked \cup inRing \subseteq Dart
  /\ Range(stack) \subseteq Nodes

(* LineMerger: each line is in one maximal string, which runs the way most   *)
(* of its lines do.                                                         *)
MergedExactly == LinesMergedOnce /\ StringsAreMaximal /\ RunsWithMajority

(* LineSequencer: a network that is sequenced is sequenced completely, and   *)
(* one with Eulerian paths is missed for one reason only, the start of the  *)
(* walk.  That it is missed at all is against SequencedIffEulerian.         *)
SequencesSound == TypeOK /\ SequenceIsComplete /\ MissedByItsStartOnly

(* Polygonizer: dangles, cut edges and polygons are the trees, the bridges   *)
(* and the bounded faces of the network.                                    *)
PolygonizedExactly == DanglesAreTrees /\ CutEdgesAreBridges /\ PolygonsAreFaces
=============================================================================
