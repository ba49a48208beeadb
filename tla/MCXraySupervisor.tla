--------------------------- MODULE MCXraySupervisor ---------------------------
(***************************************************************************)
(* XraySupervisor on two inbounds and one client: an inbound that changes  *)
(* in the snapshot and one that does not, each with and without it.        *)
(***************************************************************************)
EXTENDS XraySupervisor, TLC

\* For the invariants only: no liveness property is checked with it.
Symmetry == Permutations(Inbounds) \cup Permutations(Callers)

=============================================================================
