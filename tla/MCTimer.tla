------------------------------ MODULE MCTimer ------------------------------
(***************************************************************************)
(* Small instances of Timer.  Time is scaled: four milliseconds per tick,  *)
(* as with 250 Hz, and products wrap at 16 instead of 2^32.                *)
(***************************************************************************)
EXTENDS Timer

=============================================================================
