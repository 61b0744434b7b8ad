--------------------------- MODULE MCUartSession ---------------------------
(***************************************************************************)
(* Small instances of the UART session; the nonces are interchangeable.    *)
(***************************************************************************)
EXTENDS UartSession, TLC

Symmetry == Permutations(Nonces)
=============================================================================
