----------------------------- MODULE MCCallout -----------------------------
(***************************************************************************)
(* An instance of Callout: two cpus and two callouts.                      *)
(***************************************************************************)
EXTENDS Callout, TLC

CONSTANTS p1, p2, c1, c2

Cpus == {p1, p2}
Callouts == {c1, c2}

(* Both callouts are reset on the same cpu.                                *)
SameCpu == c1 :> {p1} @@ c2 :> {p1}
=============================================================================
