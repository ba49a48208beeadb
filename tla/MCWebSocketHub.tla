---------------------------- MODULE MCWebSocketHub ----------------------------
(***************************************************************************)
(* WebSocketHub on two connections with queues of one or two places.       *)
(***************************************************************************)
EXTENDS WebSocketHub, TLC

\* The connections are interchangeable (no liveness in the run that uses it).
Symmetry == Permutations(Clients)

=============================================================================
