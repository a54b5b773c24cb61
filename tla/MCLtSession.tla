---------------------------- MODULE MCLtSession ----------------------------
(***************************************************************************)
(* Tables for TLC.  The small table keeps the shape of box_leve_max_vs (a  *)
(* tight box 0 without a push limit, larger boxes behind it); the real one *)
(* is the TEST_FULL_MOVE table the program is built with.                  *)
(***************************************************************************)
EXTENDS LtSession, TLC

SmallLimit == 0 :> 1 @@ 1 :> 3 @@ 2 :> 2
SmallMaxGo == [PUSH    |-> 0 :> 0 @@ 1 :> 2 @@ 2 :> 1,
               CLEAN   |-> 0 :> 0 @@ 1 :> 0 @@ 2 :> 0,
               MAKEWAY |-> 0 :> 1 @@ 1 :> 1 @@ 2 :> 2]

RealLimit == 0 :> 4 @@ 1 :> 12 @@ 2 :> 12 @@ 3 :> 20 @@ 4 :> 32
RealMaxGo == [PUSH    |-> 0 :> 0 @@ 1 :> 6 @@ 2 :> 8 @@ 3 :> 10 @@ 4 :> 16,
              CLEAN   |-> 0 :> 0 @@ 1 :> 0 @@ 2 :> 0 @@ 3 :> 0 @@ 4 :> 0,
              MAKEWAY |-> 0 :> 2 @@ 1 :> 4 @@ 2 :> 8 @@ 3 :> 10 @@ 4 :> 16]

NoNumber  == {0, -1}
AnyNumber == {0, -1, 1, 2, 3}
Four      == {4}
Loads     == {30, -1, 1}
AnyAnswer   == {-1, 1, 2, 3}
AlwaysRight == {-1}
=============================================================================
