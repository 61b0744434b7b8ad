--------------------------- MODULE AuthoritySpec ---------------------------
(***************************************************************************)
(* What the flight-controller endpoint promises about control authority:   *)
(* the companion may ask for one rung more at a time, never while the      *)
(* pilot or the FC safety logic has asserted a line, and only inside the   *)
(* session that is bound.  Anything may take authority away.               *)
(*                                                                         *)
(* This is the abstract specification AerolinkEndpoint implements.         *)
(***************************************************************************)
EXTENDS Naturals

CONSTANTS
    Nonces,     \* session nonces a companion process can draw
    NoSession   \* no HELLO accepted since boot

VARIABLES state, peerSession, lines

vars == <<state, peerSession, lines>>

States == {"DISABLED", "STANDBY", "READY", "ACTIVE", "DEGRADED", "ABORTING", "FAULT"}

Lines == {"disarm", "rc", "safety"}

\* How much authority a state gives the companion.
Rung(s) ==
    CASE s = "ACTIVE" -> 3
      [] s \in {"READY", "DEGRADED"} -> 2
      [] s = "STANDBY" -> 1
      [] OTHER -> 0

Init ==
    /\ state = "DISABLED"
    /\ peerSession = NoSession
    /\ lines \in SUBSET Lines

\* A new companion process starts on the lowest rung, whatever came before.
Bind ==
    /\ peerSession' \in Nonces \ {peerSession}
    /\ state' = "STANDBY"
    /\ UNCHANGED lines

\* One rung up, or sideways, on request of the bound companion.
Grant ==
    /\ peerSession # NoSession
    /\ lines = {}
    /\ state' \in States
    /\ Rung(state') <= Rung(state) + 1
    /\ UNCHANGED <<peerSession, lines>>

\* Overrides and watchdogs only take authority away.
Withdraw ==
    /\ state' \in States
    /\ Rung(state') <= Rung(state)
    /\ state' = "DEGRADED" => Rung(state') < Rung(state)
    /\ UNCHANGED <<peerSession, lines>>

SetLines ==
    /\ lines' \in SUBSET Lines
    /\ UNCHANGED <<state, peerSession>>

Next == Bind \/ Grant \/ Withdraw \/ SetLines

Spec == Init /\ [][Next]_vars
=============================================================================
