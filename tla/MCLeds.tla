------------------------------- MODULE MCLeds -------------------------------
(* Instances of Leds for TLC.                                              *)
EXTENDS Leds, TLC

CONSTANTS t1, t2

TwoThreads == {t1, t2}
SomePins == {3, 8}
OtherPins == {0, 8, 15}

ThreadSymmetry == Permutations(TwoThreads)
=============================================================================
