--------------------------- MODULE MCAsyncFileOps ---------------------------
(* The queue of one drive with two data sectors.                           *)
EXTENDS AsyncFileOpsProofs

CONSTANTS b1, b2

MCBlocks == {b1, b2}
=============================================================================
