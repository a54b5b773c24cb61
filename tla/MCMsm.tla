-------------------------------- MODULE MCMsm --------------------------------
(* Msm with two sources that go by the book, one whose name is too long and two whose  *)
(* pools have no ids.                                                                  *)
EXTENDS Msm, TLC

CONSTANTS foo, bar, longname, noid, noid2

MCSources == {foo, bar, longname, noid, noid2}
MCLongNames == {longname}
MCWithoutId == {noid, noid2}
\* Nothing tells foo from bar, or noid from noid2.
MCSymmetry == Permutations({foo, bar}) \cup Permutations({noid, noid2})
==============================================================================
