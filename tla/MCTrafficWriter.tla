--------------------------- MODULE MCTrafficWriter ---------------------------
(***************************************************************************)
(* TrafficWriter on three submissions, two controllers, two generations  *)
(* and a queue with room for one request.                                  *)
(***************************************************************************)
EXTENDS TrafficWriter

=============================================================================
