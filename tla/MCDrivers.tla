------------------------------ MODULE MCDrivers -----------------------------
(* Three threads.                                                          *)
EXTENDS Drivers
=============================================================================
