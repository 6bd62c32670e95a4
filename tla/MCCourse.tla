------------------------------ MODULE MCCourse ------------------------------
(***************************************************************************)
(* An instance of Course for TLC.  The external sources and the writers are *)
(* model values; there are enough writers for the two writes of a takeover. *)
(***************************************************************************)
EXTENDS Course

CONSTANTS plotter, chartApp, w1, w2

TwoSources == {plotter, chartApp}
TwoWriters == {w1, w2}
=============================================================================
