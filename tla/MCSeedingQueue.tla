--------------------------- MODULE MCSeedingQueue ---------------------------
(***************************************************************************)
(* A small instance of SeedingQueue.  The specification treats all torrents *)
(* alike, so what is shown of t1 holds of each.                             *)
(***************************************************************************)
EXTENDS SeedingQueue

CONSTANTS t1, t2, t3

\* Fair rotation (README.md:13).
EveryoneRuns == Runs(t1)

=============================================================================
