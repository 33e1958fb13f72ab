--------------------------- MODULE MCFloppyCache ---------------------------
(* Two or three floppies of one or two blocks in one or two drives.        *)
EXTENDS FloppyCache, TLC

CONSTANTS d1, d2, f1, f2, f3, b1, b2

OneDrive == {d1}
TwoDrives == {d1, d2}
MCFloppies == {f1, f2}
ThreeFloppies == {f1, f2, f3}
OneBlock == {b1}
TwoBlocks == {b1, b2}
NoHost == {}
CachedHost == {"cached"}
RealHost == {"real"}

FloppySymmetry == Permutations(MCFloppies)
ThreeSymmetry == Permutations(ThreeFloppies)
=============================================================================
