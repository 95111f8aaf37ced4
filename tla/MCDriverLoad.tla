---------------------------- MODULE MCDriverLoad ----------------------------
(* Instances of DriverLoad for TLC.                                        *)
EXTENDS DriverLoad, TLC

CONSTANTS n1, n2, n3, f1

AllDrivers == {"char_dev", "buttons_dev", "char_leds", "char_udev_leds", "leds_dev"}
UdevOnly == {"char_udev_leds"}

TwoNumbers == {n1, n2}
ThreeNumbers == {n1, n2, n3}
OneFile == {f1}

NumberSymmetry == Permutations(ThreeNumbers)
=============================================================================
