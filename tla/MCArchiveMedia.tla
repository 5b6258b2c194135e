---------------------------- MODULE MCArchiveMedia ----------------------------
(***************************************************************************)
(* Small instances of ArchiveMedia: one torrent and two save paths.  Each   *)
(* torrent has rows and an owner of its own, so a second one adds nothing   *)
(* but the order in which a goroutine takes them.                           *)
(***************************************************************************)
EXTENDS ArchiveMedia

=============================================================================
