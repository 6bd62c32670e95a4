--------------------------- MODULE MCBackpressure ---------------------------
(***************************************************************************)
(* Instances of Backpressure for TLC: two paths of one vessel, one of them *)
(* published by two sources, and one path of another vessel.               *)
(***************************************************************************)
EXTENDS Backpressure

CONSTANTS speedA, speedB, other

\* Two context:path:$source keys of the same path, and one in another context.
ThreeKeys == {speedA, speedB, other}
TwoKeys == {speedA, other}
MCContextOf == [k \in Keys |-> IF k = other THEN "other" ELSE "self"]
MCMetaOf == [k \in Keys |-> IF k = other THEN "other.speed" ELSE "self.speed"]

\* Every delta of one context, with and without the meta-only delta.
ValueDeltas ==
  {d \in SUBSET Keys : d # {} /\ Cardinality({MCContextOf[k] : k \in d}) = 1}
AllDeltas == ValueDeltas \cup {{}}
=============================================================================
