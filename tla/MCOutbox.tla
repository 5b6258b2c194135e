------------------------------ MODULE MCOutbox ------------------------------
(***************************************************************************)
(* A small instance of Outbox: two events, one of which Telegram refuses,   *)
(* and the summary of a day.                                                *)
(***************************************************************************)
EXTENDS Outbox

CONSTANTS e1, e2
=============================================================================
