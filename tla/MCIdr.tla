------------------------------- MODULE MCIdr -------------------------------
(* Ranges and sets for TLC: an empty tree, one layer that is full, and two     *)
(* layers that are full but for their ends, so that the next ids fill them and *)
(* the search goes on in the layer beside or above.                            *)
EXTENDS Idr

CONSTANT ptr1
TwoPtrs == {ptr1, Null}

\* From the start, an interval across two layers, and up to the last id.
SomeRanges == {<<0, 0>>, <<5, 0>>, <<15, 17>>, <<31, 0>>}

\* A range that cur leaves behind, and one that it wraps in.
TwoCyclicRanges == {<<15, 17>>, <<30, 0>>}
SomeKept == {{}, 0 .. 3, 1 .. 14}
SomeStrangers == {5, 16, 20}
=============================================================================
