------------------------- MODULE MCDownloadPipeline -------------------------
(***************************************************************************)
(* Small instances of DownloadPipeline.  All releases lead to the same      *)
(* torrent at first (the same content published twice), and still do after  *)
(* a first correction; a second one leads to another torrent.               *)
(***************************************************************************)
EXTENDS DownloadPipeline

CONSTANTS h1, h2

MCResolve == [p \in Key \X Version |-> IF p[2] <= 2 THEN h1 ELSE h2]

=============================================================================
