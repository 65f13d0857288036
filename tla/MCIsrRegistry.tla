--------------------------- MODULE MCIsrRegistry ---------------------------
(* An instance of IsrRegistry for TLC: three calls from two threads; one    *)
(* thread registers its pin twice.                                          *)
EXTENDS IsrRegistry, TLC

CONSTANTS c1, c2, c3, p1, p2, main, other

MCPinOf    == (c1 :> p1) @@ (c2 :> p1) @@ (c3 :> p2)
MCThreadOf == (c1 :> main) @@ (c2 :> main) @@ (c3 :> other)
=============================================================================
