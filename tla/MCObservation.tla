---------------------------- MODULE MCObservation ----------------------------
(***************************************************************************)
(* A small instance of Observation, with one run for the copy of qB's       *)
(* torrents and one, as long as two known intervals, for the traffic.       *)
(***************************************************************************)
EXTENDS Observation

CONSTANTS h1, seeding

MCBounds == {[seconds |-> 2, uploads |-> 1, changes |-> 2, faults |-> 2],
             [seconds |-> 6, uploads |-> 2, changes |-> 0, faults |-> 1]}
=============================================================================
