------------------------- MODULE MCReceptionWindow -------------------------
(* Small instances of ReceptionWindow for TLC: a 4-bit counter space without *)
(* its largest value (as 0xffffffff is left out of the 32-bit one) and a     *)
(* window a quarter of it.  A sender that starts at 9 rolls over after a few *)
(* messages, one that starts at 0 does not.                                  *)
EXTENDS ReceptionWindow

For(plain, rollover, unencrypted) ==
    [v \in Variants |-> CASE v = "EncryptedWithoutRollover" -> plain
                          [] v = "EncryptedWithRollover"    -> rollover
                          [] v = "UnencryptedWithRollover"  -> unencrypted]

EveryVariant == For({0}, {9}, {0})
Delays == For(9, 7, 4)
=============================================================================
