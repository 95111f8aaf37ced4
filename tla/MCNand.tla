------------------------------- MODULE MCNand -------------------------------
(* Nand on a chip of eight pages of two bytes: three address cycles of one *)
(* bit each are needed to name them.                                       *)
EXTENDS Nand, TLC

(* Two used pages at the start and at the end, the others erased.          *)
UsedEnds ==
    [r \in 0 .. 7 |-> [k \in 0 .. 1 |->
        CASE r \in {0, 1, 7} -> {(r + k) % 2} [] OTHER -> {0, 1}]]

(* One page, two pages, the end of the chip, nothing, and not aligned.     *)
SomeCalls == {[start |-> 0, size |-> 4], [start |-> 2, size |-> 2],
              [start |-> 8, size |-> 4], [start |-> 14, size |-> 2],
              [start |-> 4, size |-> 0], [start |-> 3, size |-> 2]}

TwoFills == {[k \in 0 .. 3 |-> {k % 2}], [k \in 0 .. 3 |-> IF k = 3 THEN {} ELSE {0, 1}]}
=============================================================================
