--------------------------- MODULE MCJsonlStorage ---------------------------
(* Instances of JsonlStorage for TLC.                                       *)
EXTENDS JsonlStorage

CONSTANTS x, y, z   \* model values for ids
=============================================================================
