---------------------------- MODULE MCRrlHistory ----------------------------
(* One IPv4 prefix, so that the window can be long compared with the burst. *)
EXTENDS RrlHistory, TLC

\* The tasks are interchangeable; no property of the run is a liveness property.
TaskSymmetry == Permutations(Task)

SomeAddr == {[family |-> "V4", bits |-> 0], [family |-> "V4", bits |-> 1]}
=============================================================================
