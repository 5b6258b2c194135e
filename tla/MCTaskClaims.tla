---------------------------- MODULE MCTaskClaims ----------------------------
(***************************************************************************)
(* Small instances of TaskClaims.  One release and one torrent already give *)
(* three tasks that meet on one resource: the download once prepared, the   *)
(* archive and the media task.                                              *)
(***************************************************************************)
EXTENDS TaskClaims

MCTTL == [w \in Worker |-> IF w = "media" THEN 2 ELSE 1]

=============================================================================
