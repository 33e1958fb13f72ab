----------------------------- MODULE MCAmiberry -----------------------------
(* One or two callers insert and remove one floppy or two.                 *)
EXTENDS Amiberry, TLC

CONSTANTS p1, p2, a1, a2

OneCaller == {p1}
TwoCallers == {p1, p2}
OneAdf == {a1}
TwoAdfs == {a1, a2}

Symmetry == Permutations(TwoCallers) \union Permutations(TwoAdfs)
=============================================================================
