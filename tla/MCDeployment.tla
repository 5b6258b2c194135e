---------------------------- MODULE MCDeployment ----------------------------
(***************************************************************************)
(* Small instances of Deployment: a release of schema 2 on the host and two *)
(* builds of schema 3, so that a deployment with an upgrade is followed by  *)
(* one without.                                                             *)
(***************************************************************************)
EXTENDS Deployment

CONSTANTS old, new, newer

MCSchema == [r \in Revision |-> IF r = old THEN 2 ELSE 3]

=============================================================================
