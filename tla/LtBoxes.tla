------------------------------ MODULE LtBoxes ------------------------------
(***************************************************************************)
(* What the Leitner box promises: every VS ("vocabulary in a sentence") of *)
(* the vs file is drawn once, in file order, into box 0; from then on it   *)
(* is in exactly one box.  Only the VS at the head of a box is asked for,  *)
(* and it goes to the tail of the next box or back to the tail of box 0.   *)
(*                                                                         *)
(* LtSession (the go-session) and LtMeta (the stores into the mapped meta  *)
(* file) are shown to implement this specification.                        *)
(***************************************************************************)
EXTENDS Integers, Sequences

CONSTANTS MaxLevel,  \* the last box, 5 in the code (BOX_LEVEL_CNT - 1)
          Total      \* vs_total, the number of VSes in the index file

ASSUME BoxesAssumption == /\ MaxLevel \in Nat \ {0}
                          /\ Total \in Nat

Levels == 0 .. MaxLevel
Items  == 0 .. Total - 1      \* a VS is known by its vs_linenr

VARIABLES box,     \* box[l]: the i_list of lt_boxes[l], head first
          loaded   \* vs_cur_total: the VSes 0 .. loaded-1 have been drawn

boxVars == <<box, loaded>>

(***************************************************************************)
(* No VS is in two places, and the VSes in the boxes are the loaded ones.  *)
(***************************************************************************)
NoDuplicate ==
    \A l, m \in Levels : \A p \in 1 .. Len(box[l]), q \in 1 .. Len(box[m]) :
        box[l][p] = box[m][q] => l = m /\ p = q

OnlyLoaded == \A l \in Levels : \A p \in 1 .. Len(box[l]) : box[l][p] < loaded

AllLoaded == \A i \in 0 .. loaded - 1 :
                 \E l \in Levels : \E p \in 1 .. Len(box[l]) : box[l][p] = i

BoxesTypeOK == /\ box \in [Levels -> Seq(Items)]
               /\ loaded \in 0 .. Total

\* Every loaded VS is in exactly one box, once, and no other VS is in any:
\* the list surgery of move_to_lbox and cmd_load never loses or copies one.
EachOnce == NoDuplicate /\ OnlyLoaded /\ AllLoaded

-----------------------------------------------------------------------------
BoxesInit == box = [l \in Levels |-> <<>>] /\ loaded = 0

\* The VSes a load of n draws: itblk[bp + i], in file order.
Drawn(n) == [p \in 1 .. n |-> loaded + p - 1]

\* cmd_load draws n more VSes onto the tail of box 0.
Load(n) == /\ n \in 1 .. Total - loaded
           /\ box' = [box EXCEPT ![0] = @ \o Drawn(n)]
           /\ loaded' = loaded + n

\* Mutant: appends without taking the VS off its old list.
MovedCopying(from, to) == [box EXCEPT ![to] = Append(@, Head(box[from]))]

\* The boxes after the head of `from` went to the tail of `to`.
Moved(from, to) == [box EXCEPT ![from] = Tail(@),
                               ![to]   = Append(@, Head(box[from]))]

\* Where the answer to a question from box l can send its VS: one box up, or back to
\* box 0.
Targets(l) == {0, l + 1}

Move(from, to) == /\ from \in 0 .. MaxLevel - 1
                  /\ to \in Targets(from)
                  /\ box[from] # <<>>
                  /\ box' = Moved(from, to)
                  /\ UNCHANGED loaded

BoxesNext == \/ \E n \in 1 .. Total : Load(n)
             \/ \E from, to \in Levels : Move(from, to)

BoxesSpec == BoxesInit /\ [][BoxesNext]_boxVars

=============================================================================
