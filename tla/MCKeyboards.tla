---------------------------- MODULE MCKeyboards ----------------------------
(* Two delivered messages, or one, of one sender.                          *)
EXTENDS Keyboards

CONSTANTS m1, m2
=============================================================================
