-------------------------- MODULE MCTrafficAccounting --------------------------
(***************************************************************************)
(* A client of one inbound and a client of both.                           *)
(***************************************************************************)
EXTENDS TrafficAccounting, TLC

CONSTANTS one, both

MCAttached == (1 :> {one, both}) @@ (2 :> {both})
================================================================================
