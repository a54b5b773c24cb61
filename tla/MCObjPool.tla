----------------------------- MODULE MCObjPool -----------------------------
(* malloc may choose any place: permuting them changes nothing.             *)
EXTENDS ObjPool, TLC

PlaceSymmetry == Permutations(Places)
=============================================================================
