----------------------------- MODULE MCSoftPins -----------------------------
(* An instance of SoftPins for TLC: one caller on two pins, in both setup   *)
(* modes.                                                                   *)
EXTENDS SoftPins

CONSTANTS a, b, p, q, t, u

MCBothModes == BOOLEAN
=============================================================================
