---------------------------- MODULE MCFeedPolling ----------------------------
(***************************************************************************)
(* A small instance of FeedPolling: the first feed has a release from the   *)
(* start and one to come, which the second feed lists although it is not    *)
(* its own.                                                                 *)
(***************************************************************************)
EXTENDS FeedPolling

CONSTANTS r1, r2

MCHome == [r \in Release |-> 1]
MCStage0 == [r \in Release |-> IF r = r1 THEN "fresh" ELSE "future"]
MCListed0 == [g \in Group |-> IF g = 1 THEN {r1} ELSE {r2}]
MCChanging == {<<1, r2>>}

=============================================================================
