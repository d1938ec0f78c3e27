------------------------------ MODULE MCCallout ------------------------------
(* Values of the constants of Callout for TLC: two ticks to a second; the
   clock is set by half a second, by ten seconds forward and by eight back. *)
EXTENDS Callout, TLC

CONSTANTS f, g  \* functions

MCJumps == {1, 20, -16}
=============================================================================
