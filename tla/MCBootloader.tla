---------------------------- MODULE MCBootloader ----------------------------
(* Three versions whose images have different sizes, in a flash of two     *)
(* sectors of two units.                                                   *)
EXTENDS Bootloader

MCImageSize == [v \in Version |-> IF v = 1 THEN 3 ELSE v \div 2 + 1]
=============================================================================
