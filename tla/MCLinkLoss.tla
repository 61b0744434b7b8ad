----------------------------- MODULE MCLinkLoss -----------------------------
(***************************************************************************)
(* The link-loss instance: one session suffices, since silence starts from *)
(* any reachable endpoint state.                                           *)
(***************************************************************************)
EXTENDS LinkLoss
=============================================================================
