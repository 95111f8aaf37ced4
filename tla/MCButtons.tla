----------------------------- MODULE MCButtons -----------------------------
(* Instances of Buttons for TLC.                                           *)
EXTENDS Buttons, TLC

CONSTANTS f1, f2, r1, r2

OneFile == {f1}
TwoFiles == {f1, f2}
NoReader == {}
OneReader == {r1}
TwoReaders == {r1, r2}
NoSkip == {}
SkipMiddle == {1}
WholeTable == {N}
ShortAndLong == {0, 1, N + 1}

ReaderSymmetry == Permutations(TwoReaders)
FileSymmetry == Permutations(TwoFiles)
=============================================================================
