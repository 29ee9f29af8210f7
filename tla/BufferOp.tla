------------------------------ MODULE BufferOp --------------------------------
(***************************************************************************)
(* operation::buffer::BufferOp: the buffer is computed in the precision of *)
(* the input; when that ends in a TopologyException it is tried again, once *)
(* on the grid of the input's own fixed precision model, or with fewer and  *)
(* fewer digits.  What BufferBuilder makes of a try is not known: it may    *)
(* give a geometry, a TopologyException or another exception.               *)
(***************************************************************************)
EXTENDS Integers, Sequences, SequencesExt

CONSTANTS
  Distances,             \* the distances asked for
  MAX_PRECISION_DIGITS,
  MaxBuffers,            \* bound on the calls of getResultGeometry
  NoGeometry             \* the NULL of resultGeometry

ASSUME BufferAssumption ==
  /\ MAX_PRECISION_DIGITS \in Nat
  /\ NoGeometry \notin [distance : Distances, precision : Int]

VARIABLES
  object,          \* "none", or the kind of precision model of argGeom
  distance,
  trying,          \* "no", "original", "reduced" or "fixed"
  precDigits,      \* the loop variable of bufferReducedPrecision
  resultGeometry,  \* what it was computed for, and with how many digits
  tries,           \* the tries of the call under way, with their outcomes
  buffers          \* the calls that have come back

bufferVars ==
  <<object, distance, trying, precDigits, resultGeometry, tries, buffers>>

\* The two tries that are not made with a number of digits.
Original == -1
Fixed    == -2

Outcome == {"geometry", "topology", "other"}

BufferInit ==
  /\ object = "none"
  /\ distance \in Distances
  /\ trying = "no"
  /\ precDigits = 0
  /\ resultGeometry = NoGeometry
  /\ tries = <<>>
  /\ buffers = <<>>

CreateBufferOp(model) ==
  /\ object = "none"
  /\ object' = model
  /\ resultGeometry' = NoGeometry
  /\ UNCHANGED <<distance, trying, precDigits, tries, buffers>>

GetResultGeometry(d) ==
  /\ object # "none"
  /\ trying = "no"
  /\ Len(buffers) < MaxBuffers
  /\ distance' = d
  /\ trying' = "original"
  /\ tries' = <<>>
  /\ UNCHANGED <<object, precDigits, resultGeometry, buffers>>

Tried(precision, outcome) ==
  /\ tries' = Append(tries, [precision |-> precision, outcome |-> outcome])
  /\ resultGeometry' = IF outcome = "geometry"
                       THEN [distance |-> distance, precision |-> precision]
                       ELSE resultGeometry

(* The call comes back with resultGeometry, or with the exception of the    *)
(* last try.                                                                *)
Return ==
  /\ trying' = "no"
  /\ buffers' = Append(buffers, [distance |-> distance, tries |-> tries',
                                 returned |-> resultGeometry'])
Throw ==
  /\ trying' = "no"
  /\ buffers' = Append(buffers, [distance |-> distance, tries |-> tries',
                                 returned |-> NoGeometry])

BufferOriginalPrecision(outcome) ==
  /\ trying = "original"
  /\ Tried(Original, outcome)
  /\ \/ outcome # "other" /\ resultGeometry' # NoGeometry /\ Return
     \/ outcome = "other" /\ Throw
     \/ /\ outcome = "topology"
        /\ resultGeometry' = NoGeometry
        /\ trying' = IF object = "FIXED" THEN "fixed" ELSE "reduced"
        /\ UNCHANGED buffers
  /\ precDigits' = MAX_PRECISION_DIGITS
  /\ UNCHANGED <<object, distance>>

BufferFixedPrecision(outcome) ==
  /\ trying = "fixed"
  /\ Tried(Fixed, outcome)
  /\ IF outcome = "geometry" THEN Return ELSE Throw
  /\ UNCHANGED <<object, distance, precDigits>>

(* Fault: the loop ends before the try without digits.                      *)
BufferReducedDownToOne(outcome) ==
  /\ trying = "reduced"
  /\ Tried(precDigits, outcome)
  /\ precDigits' = precDigits - 1
  /\ \/ outcome = "geometry" /\ Return
     \/ outcome = "other" /\ Throw
     \/ outcome = "topology" /\ precDigits = 1 /\ Throw
     \/ outcome = "topology" /\ precDigits > 1 /\ UNCHANGED <<trying, buffers>>
  /\ UNCHANGED <<object, distance>>

BufferReducedPrecision(outcome) ==
  /\ trying = "reduced"
  /\ Tried(precDigits, outcome)
  /\ precDigits' = precDigits - 1
  /\ \/ outcome = "geometry" /\ Return
     \/ outcome = "other" /\ Throw
     \/ outcome = "topology" /\ precDigits = 0 /\ Throw
     \/ outcome = "topology" /\ precDigits > 0 /\ UNCHANGED <<trying, buffers>>
  /\ UNCHANGED <<object, distance>>

BufferNext ==
  \/ \E model \in {"FLOATING", "FIXED"} : CreateBufferOp(model)
  \/ \E d \in Distances : GetResultGeometry(d)
  \/ \E outcome \in Outcome :
       BufferOriginalPrecision(outcome) \/ BufferFixedPrecision(outcome)
         \/ BufferReducedPrecision(outcome)

BufferSpec == BufferInit /\ [][BufferNext]_bufferVars

-----------------------------------------------------------------------------
Precision == {Original, Fixed} \cup 0..MAX_PRECISION_DIGITS
Try       == [precision : Precision, outcome : Outcome]
Geom      == [distance : Distances, precision : Precision]
BufferCall == [distance : Distances, tries : Seq(Try), returned : Geom \cup {NoGeometry}]

BufferTypeOK ==
  /\ object \in {"none", "FLOATING", "FIXED"}
  /\ distance \in Distances
  /\ trying \in {"no", "original", "reduced", "fixed"}
  /\ precDigits \in Int
  /\ trying = "reduced" => precDigits \in 0..MAX_PRECISION_DIGITS
  /\ resultGeometry \in Geom \cup {NoGeometry}
  /\ tries \in Seq(Try)
  /\ buffers \in Seq(BufferCall)

Served(call) == call.returned # NoGeometry

(* A call that throws has failed at every precision the code knows, down to *)
(* no digits (or on the input's own grid), or has met an exception that is   *)
(* not about topology; in particular it does not throw when a try served.    *)
ThrowsAfterAllTries ==
  \A k \in DOMAIN buffers :
    ~Served(buffers[k]) =>
      LET ts == buffers[k].tries IN
        /\ \A t \in Range(ts) : t.outcome # "geometry"
        /\ \/ Last(ts).outcome = "other"
           \/ Last(ts).precision \in {0, Fixed}

(* BufferOp.h, of getResultGeometry: "Returns the buffer computed for a     *)
(* geometry for a given buffer distance".                                   *)
BufferIsForItsDistance ==
  \A k \in DOMAIN buffers :
    Served(buffers[k]) => buffers[k].returned.distance = buffers[k].distance

(* A geometry computed in this call has the finest precision that served:   *)
(* all finer ones were tried and failed.  One that this call did not compute *)
(* comes out, against BufferIsForItsDistance, only when the first try failed *)
(* and an earlier call left its result in the object.                       *)
FinestThatServes ==
  \A k \in DOMAIN buffers :
    LET c == buffers[k]  n == Len(c.tries) IN
      Served(c) =>
        \/ /\ c.returned = [distance |-> c.distance, precision |-> c.tries[n].precision]
           /\ c.tries[n].outcome = "geometry"
           /\ \A j \in 1..n - 1 : c.tries[j].outcome = "topology"
           /\ c.returned.precision >= 0 =>
                n = 2 + MAX_PRECISION_DIGITS - c.returned.precision
        \/ /\ n = 1 /\ c.tries[1].outcome = "topology"
           /\ \E j \in 1..k - 1 : Served(buffers[j]) /\ buffers[j].returned = c.returned

(* The search over precisions hands out the finest buffer it finds, or the   *)
(* one an earlier call left, and throws only when there is neither.         *)
BufferServes == BufferTypeOK /\ ThrowsAfterAllTries /\ FinestThatServes
=============================================================================
