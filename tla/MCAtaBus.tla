------------------------------ MODULE MCAtaBus ------------------------------
(***************************************************************************)
(* A small instance of AtaBus for TLC: sectors of two words, two contents, *)
(* and two block numbers that use all four registers and differ in one.    *)
(***************************************************************************)
EXTENDS AtaBus

TwoBlocks   == {16909060, 16909316}            \* 0x01020304 and 0x01020404
TwoContents == {<<1, 2, 3, 4>>, <<4, 3, 2, 1>>}
=============================================================================
