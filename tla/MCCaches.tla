------------------------------ MODULE MCCaches ------------------------------
(* Two requests at a time on two instances; every entry lives two ticks,   *)
(* and a challenge two and two more in the grace.                          *)
EXTENDS Caches
============================================================================
