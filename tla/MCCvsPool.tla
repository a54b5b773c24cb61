------------------------------ MODULE MCCvsPool ------------------------------
(* CvsPool with blocks of nine slots and trunks of two of them at most. *)
EXTENDS CvsPool

MCSlotsAsked == {6, 17}
MCCounts == {1, 4, 8, 9, 17}
MCPlaces == {0, 10}
==============================================================================
