------------------------------- MODULE MCPanel ------------------------------
(* All commands; a peer that waits for replies and one that does not.      *)
EXTENDS Panel
=============================================================================
