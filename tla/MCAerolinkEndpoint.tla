------------------------ MODULE MCAerolinkEndpoint ------------------------
(***************************************************************************)
(* A small instance of the endpoint under an arbitrary peer: every frame   *)
(* can arrive at any time, in any order, any number of times.              *)
(***************************************************************************)
EXTENDS AerolinkEndpoint, TLC

Symmetry == Permutations(Nonces)
=============================================================================
