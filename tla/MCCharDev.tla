------------------------------ MODULE MCCharDev ------------------------------
(* Instances of CharDev for TLC.                                           *)
EXTENDS CharDev, TLC

CONSTANTS f1, f2, t1, t2, a, b

MCFiles == {f1, f2}
TwoThreads == {t1, t2}
MCTags == {a, b}
\* empty, one byte, the longest string, one and two bytes too many
MCSizes == {0, 1, BUFFER_SIZE - 1, BUFFER_SIZE, BUFFER_SIZE + 1}

MCSymmetry == Permutations(MCFiles) \cup Permutations(TwoThreads) \cup Permutations(MCTags)
=============================================================================
