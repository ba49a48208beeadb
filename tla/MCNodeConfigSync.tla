-------------------------- MODULE MCNodeConfigSync --------------------------
(***************************************************************************)
(* NodeConfigSync on one inbound, edited by two requests while the sync    *)
(* job runs, the node fails or the panel restarts.                         *)
(***************************************************************************)
EXTENDS NodeConfigSync

=============================================================================
