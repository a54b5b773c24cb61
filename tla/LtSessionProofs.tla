-------------------------- MODULE LtSessionProofs --------------------------
(***************************************************************************)
(* LtBoxes keeps every loaded VS in exactly one box, for every number of   *)
(* boxes and every vs file.                                                *)
(*                                                                         *)
(* For every table of limits and quotas and every vs file, the go-session  *)
(* keeps the counters of the boxes in step with the lists, and what it     *)
(* does to the boxes are loads and moves of LtBoxes; so every loaded VS is *)
(* in exactly one box, whatever was answered and wherever it was cut short. *)
(* Every question is accounted for once through all the nested calls, and  *)
(* no box above the first stays full behind them.                          *)
(*                                                                         *)
(* The invariant has two layers.  SessionInv is SessionTypeOK /\           *)
(* CountsAgree: the type of the stack belongs to it, since the box of a    *)
(* frame is one whose VSes are asked for, and that keeps Answer inside of  *)
(* the boxes.  Accounted adds what the whole stack says: the questions of  *)
(* its calls together are those of the session (a tally, since a sum over  *)
(* a sequence would need induction), and a call of move_to_lbox waits for  *)
(* every full box above the first.  A third layer, Learning, holds when    *)
(* the user knows the answers: it is what makes a session come back with   *)
(* its number reached or the whole vs file in the last box.                *)
(***************************************************************************)
EXTENDS LtSession, SequenceTheorems, FiniteSetTheorems, TLAPS

-----------------------------------------------------------------------------
(* The boxes: each place of a box is followed back to the place its VS had *)
(* before the step.                                                        *)

\* Tail and Append, read place by place.
LEMMA HeadTail ==
    ASSUME NEW S, NEW s \in Seq(S), s # <<>>
    PROVE  /\ Len(s) \in Nat \ {0}
           /\ Head(s) = s[1] /\ Head(s) \in S
           /\ Tail(s) \in Seq(S) /\ Len(Tail(s)) = Len(s) - 1
           /\ \A p \in 1 .. Len(s) - 1 : Tail(s)[p] = s[p + 1]
  OBVIOUS

LEMMA AppendAt ==
    ASSUME NEW S, NEW s \in Seq(S), NEW x \in S
    PROVE  /\ Append(s, x) \in Seq(S) /\ Len(Append(s, x)) = Len(s) + 1
           /\ \A p \in 1 .. Len(s) : Append(s, x)[p] = s[p]
           /\ Append(s, x)[Len(s) + 1] = x
  OBVIOUS

\* M is what is left of the boxes when the head of `from` goes to the tail of `to`.
Shifted(M, from, to) ==
    /\ M \in [Levels -> Seq(Items)]
    /\ \A l \in Levels : Len(box[l]) \in Nat /\ Len(M[l]) \in Nat
    /\ Len(box[from]) > 0
    /\ from # to =>
         /\ Len(M[from]) = Len(box[from]) - 1
         /\ \A p \in 1 .. Len(box[from]) - 1 : M[from][p] = box[from][p + 1]
         /\ Len(M[to]) = Len(box[to]) + 1
         /\ \A p \in 1 .. Len(box[to]) : M[to][p] = box[to][p]
         /\ M[to][Len(box[to]) + 1] = box[from][1]
    /\ from = to =>
         /\ Len(M[to]) = Len(box[to])
         /\ \A p \in 1 .. Len(box[to]) - 1 : M[to][p] = box[to][p + 1]
         /\ M[to][Len(box[to])] = box[to][1]
    /\ \A l \in Levels \ {from, to} : M[l] = box[l]

\* A move is a tail and an append.
LEMMA MovedShifts ==
    ASSUME BoxesTypeOK, NEW from \in Levels, NEW to \in Levels, box[from] # <<>>
    PROVE  Shifted(Moved(from, to), from, to)
<1> DEFINE x == Head(box[from])
           t == Tail(box[from])
<1>0. box \in [Levels -> Seq(Items)] /\ \A l \in Levels : Len(box[l]) \in Nat
  BY DEF BoxesTypeOK
<1>1. /\ x = box[from][1] /\ x \in Items /\ t \in Seq(Items)
      /\ Len(box[from]) \in Nat \ {0} /\ Len(t) = Len(box[from]) - 1
      /\ \A p \in 1 .. Len(box[from]) - 1 : t[p] = box[from][p + 1]
  BY <1>0, HeadTail
<1>2. CASE from = to
  <2>1. Moved(from, to) = [box EXCEPT ![from] = Append(t, x)]
    BY <1>2, <1>0 DEF Moved
  <2>2. Append(t, x) \in Seq(Items) /\ Len(Append(t, x)) = Len(t) + 1
        /\ (\A p \in 1 .. Len(t) : Append(t, x)[p] = t[p])
        /\ Append(t, x)[Len(t) + 1] = x
    BY <1>1, AppendAt
  <2> HIDE DEF x, t
  <2>3. QED BY <2>1, <2>2, <1>0, <1>1, <1>2 DEF Shifted
<1>3. CASE from # to
  <2>1. Moved(from, to) = [box EXCEPT ![from] = t, ![to] = Append(box[to], x)]
    BY <1>3, <1>0 DEF Moved
  <2>2. /\ Append(box[to], x) \in Seq(Items) /\ Len(Append(box[to], x)) = Len(box[to]) + 1
        /\ (\A p \in 1 .. Len(box[to]) : Append(box[to], x)[p] = box[to][p])
        /\ Append(box[to], x)[Len(box[to]) + 1] = x
    BY <1>0, <1>1, AppendAt
  <2> HIDE DEF x, t
  <2>3. /\ Moved(from, to) \in [Levels -> Seq(Items)]
        /\ Moved(from, to)[from] = t /\ Moved(from, to)[to] = Append(box[to], x)
        /\ \A l \in Levels \ {from, to} : Moved(from, to)[l] = box[l]
    BY <2>1, <2>2, <1>0, <1>1, <1>3
  <2>4. \A l \in Levels : Len(Moved(from, to)[l]) \in Nat
    BY <2>3
  <2>5. QED BY <2>2, <2>3, <2>4, <1>0, <1>1, <1>3 DEF Shifted
<1>4. QED BY <1>2, <1>3

\* Where the VS at place p of box l of M was before.
Newcomer(M, to, l, p) == l = to /\ p = Len(M[to])
BoxBefore(M, from, to, l, p) == IF Newcomer(M, to, l, p) THEN from ELSE l
PlaceBefore(M, from, to, l, p) == IF Newcomer(M, to, l, p) THEN 1
                                  ELSE IF l = from THEN p + 1 ELSE p

\* Every place after a move has a place before it, with the same VS.
LEMMA ShiftedPlaces ==
    ASSUME NEW M, NEW from \in Levels, NEW to \in Levels, Shifted(M, from, to),
           NEW l \in Levels, NEW p \in 1 .. Len(M[l])
    PROVE  /\ BoxBefore(M, from, to, l, p) \in Levels
           /\ PlaceBefore(M, from, to, l, p) \in 1 .. Len(box[BoxBefore(M, from, to, l, p)])
           /\ M[l][p] = box[BoxBefore(M, from, to, l, p)][PlaceBefore(M, from, to, l, p)]
<1> USE DEF Shifted, BoxBefore, PlaceBefore, Newcomer
<1>1. CASE from = to /\ l = to BY <1>1
<1>2. CASE from # to /\ l = to BY <1>2
<1>3. CASE from # to /\ l = from BY <1>3
<1>4. CASE l \notin {from, to} BY <1>4
<1>5. QED BY <1>1, <1>2, <1>3, <1>4

\* Two places after a move have two places before it.
LEMMA ShiftedInjective ==
    ASSUME NEW M, NEW from \in Levels, NEW to \in Levels, Shifted(M, from, to),
           NEW l \in Levels, NEW p \in 1 .. Len(M[l]),
           NEW m \in Levels, NEW q \in 1 .. Len(M[m]),
           BoxBefore(M, from, to, l, p) = BoxBefore(M, from, to, m, q),
           PlaceBefore(M, from, to, l, p) = PlaceBefore(M, from, to, m, q)
    PROVE  l = m /\ p = q
  BY DEF Shifted, BoxBefore, PlaceBefore, Newcomer

\* The VS x has a place in M.
Holds(M, x) == \E m \in Levels : \E q \in 1 .. Len(M[m]) : M[m][q] = x

\* Every VS before a move has a place after it.
LEMMA ShiftedCovers ==
    ASSUME NEW M, NEW from \in Levels, NEW to \in Levels, Shifted(M, from, to),
           NEW l \in Levels, NEW p \in 1 .. Len(box[l])
    PROVE  Holds(M, box[l][p])
<1> USE DEF Shifted
<1>1. CASE l = from /\ p = 1
  <2>1. Len(M[to]) \in 1 .. Len(M[to]) /\ M[to][Len(M[to])] = box[l][p]
    BY <1>1
  <2>2. QED BY <2>1 DEF Holds
<1>2. CASE l = from /\ p # 1
  <2>1. p - 1 \in 1 .. Len(M[l]) /\ M[l][p - 1] = box[l][p]
    BY <1>2
  <2>2. QED BY <2>1 DEF Holds
<1>3. CASE l # from
  <2>1. p \in 1 .. Len(M[l]) /\ M[l][p] = box[l][p]
    BY <1>3, SMTT(30)
  <2>2. QED BY <2>1 DEF Holds
<1>4. QED BY <1>1, <1>2, <1>3

-----------------------------------------------------------------------------
\* NoDuplicate for two given places.
LEMMA OnePlace ==
    ASSUME NoDuplicate, NEW l \in Levels, NEW m \in Levels,
           NEW p \in 1 .. Len(box[l]), NEW q \in 1 .. Len(box[m]),
           box[l][p] = box[m][q]
    PROVE  l = m /\ p = q
  BY DEF NoDuplicate

\* A move keeps every VS in exactly one place.
LEMMA MoveKeepsEachOnce ==
    ASSUME BoxesTypeOK, EachOnce, NEW from \in Levels, NEW to \in Levels,
           box[from] # <<>>, box' = Moved(from, to), loaded' = loaded
    PROVE  BoxesTypeOK' /\ EachOnce'
<1>1. Shifted(box', from, to)
  BY MovedShifts
<1>2. BoxesTypeOK'
  BY <1>1 DEF BoxesTypeOK, Shifted
<1>3. NoDuplicate'
  <2> SUFFICES ASSUME NEW l \in Levels, NEW m \in Levels,
                      NEW p \in 1 .. Len(box'[l]), NEW q \in 1 .. Len(box'[m]),
                      box'[l][p] = box'[m][q]
               PROVE  l = m /\ p = q
    BY DEF NoDuplicate
  <2> DEFINE lb == BoxBefore(box', from, to, l, p)
             pb == PlaceBefore(box', from, to, l, p)
             mb == BoxBefore(box', from, to, m, q)
             qb == PlaceBefore(box', from, to, m, q)
  <2>1. lb \in Levels /\ pb \in 1 .. Len(box[lb]) /\ box'[l][p] = box[lb][pb]
    BY <1>1, ShiftedPlaces
  <2>2. mb \in Levels /\ qb \in 1 .. Len(box[mb]) /\ box'[m][q] = box[mb][qb]
    BY <1>1, ShiftedPlaces
  <2> HIDE DEF lb, pb, mb, qb
  <2>3. box[lb][pb] = box[mb][qb]
    BY <2>1, <2>2
  <2>4. lb = mb /\ pb = qb
    BY <2>1, <2>2, <2>3, OnePlace DEF EachOnce
  <2>5. QED BY <1>1, <2>4, ShiftedInjective DEF lb, pb, mb, qb
<1>4. OnlyLoaded'
  <2> SUFFICES ASSUME NEW l \in Levels, NEW p \in 1 .. Len(box'[l])
               PROVE  box'[l][p] < loaded
    BY loaded' = loaded DEF OnlyLoaded
  <2> DEFINE lb == BoxBefore(box', from, to, l, p)
             pb == PlaceBefore(box', from, to, l, p)
  <2>1. lb \in Levels /\ pb \in 1 .. Len(box[lb]) /\ box'[l][p] = box[lb][pb]
    BY <1>1, ShiftedPlaces
  <2> HIDE DEF lb, pb
  <2>2. QED BY <2>1 DEF EachOnce, OnlyLoaded
<1>5. AllLoaded'
  <2> SUFFICES ASSUME NEW i \in 0 .. loaded' - 1
               PROVE  \E m \in Levels : \E q \in 1 .. Len(box'[m]) : box'[m][q] = i
    BY DEF AllLoaded
  <2>1. PICK l \in Levels : \E p \in 1 .. Len(box[l]) : box[l][p] = i
    BY loaded' = loaded DEF EachOnce, AllLoaded
  <2>2. PICK p \in 1 .. Len(box[l]) : box[l][p] = i
    BY <2>1
  <2>3. Holds(box', box[l][p])
    BY <1>1, ShiftedCovers
  <2>4. QED BY <2>2, <2>3 DEF Holds
<1>6. QED BY <1>2, <1>3, <1>4, <1>5 DEF EachOnce

-----------------------------------------------------------------------------
\* u is s followed by t.
Joined(s, t, u) == /\ Len(u) = Len(s) + Len(t)
                   /\ \A p \in 1 .. Len(s) : u[p] = s[p]
                   /\ \A p \in 1 .. Len(t) : u[Len(s) + p] = t[p]

\* Concatenation, read place by place.
LEMMA ConcatAt ==
    ASSUME NEW S, NEW s \in Seq(S), NEW t \in Seq(S)
    PROVE  s \o t \in Seq(S) /\ Joined(s, t, s \o t)
  BY DEF Joined

\* M is the boxes with the next n VSes at the tail of box 0.
Extended(M, n) ==
    /\ M \in [Levels -> Seq(Items)]
    /\ \A l \in Levels : Len(box[l]) \in Nat
    /\ Len(M[0]) = Len(box[0]) + n
    /\ \A p \in 1 .. Len(box[0]) : M[0][p] = box[0][p]
    /\ \A p \in 1 .. n : M[0][Len(box[0]) + p] = loaded + p - 1
    /\ \A l \in Levels \ {0} : M[l] = box[l]

\* What a load appends, place by place.
LEMMA LoadExtends ==
    ASSUME BoxesTypeOK, NEW n \in 1 .. Total - loaded
    PROVE  Extended([box EXCEPT ![0] = @ \o Drawn(n)], n)
<1>0. 0 \in Levels /\ box \in [Levels -> Seq(Items)] /\ loaded \in Nat /\ Total \in Nat
  BY BoxesAssumption DEF Levels, BoxesTypeOK
<1>1. Drawn(n) \in Seq(Items) /\ Len(Drawn(n)) = n /\ \A p \in 1 .. n : Drawn(n)[p] = loaded + p - 1
  <2>1. \A p \in 1 .. n : loaded + p - 1 \in Items BY <1>0 DEF Items
  <2>2. n \in Nat BY <1>0
  <2>3. QED BY <2>1, <2>2 DEF Drawn
<1>2. box[0] \in Seq(Items) BY <1>0
<1> DEFINE M == [box EXCEPT ![0] = box[0] \o Drawn(n)]
<1> HIDE DEF Drawn
<1>3. box[0] \o Drawn(n) \in Seq(Items) /\ Joined(box[0], Drawn(n), box[0] \o Drawn(n))
  BY <1>1, <1>2, ConcatAt
<1>4. M[0] = box[0] \o Drawn(n) /\ M \in [Levels -> Seq(Items)]
      /\ \A l \in Levels \ {0} : M[l] = box[l]
  BY <1>0, <1>3
<1>5. \A l \in Levels : Len(box[l]) \in Nat BY <1>0
<1> HIDE DEF M
<1>6. Extended(M, n) BY <1>1, <1>3, <1>4, <1>5 DEF Extended, Joined
<1>7. QED BY <1>6 DEF M

\* A load puts the next VSes of the vs file into box 0, each in one new place.
LEMMA LoadKeepsEachOnce ==
    ASSUME BoxesTypeOK, EachOnce, NEW n \in 1 .. Total - loaded,
           box' = [box EXCEPT ![0] = @ \o Drawn(n)], loaded' = loaded + n
    PROVE  BoxesTypeOK' /\ EachOnce'
<1>0. 0 \in Levels /\ loaded \in 0 .. Total /\ Total \in Nat /\ loaded' = loaded + n
  BY BoxesAssumption DEF Levels, BoxesTypeOK
<1>1. Extended(box', n)
  BY LoadExtends
<1>2. \A l \in Levels : Len(box[l]) \in Nat /\ \A p \in 1 .. Len(box[l]) : box[l][p] \in Int
  <2> SUFFICES ASSUME NEW l \in Levels
               PROVE  Len(box[l]) \in Nat /\ \A p \in 1 .. Len(box[l]) : box[l][p] \in Int
    OBVIOUS
  <2>1. box[l] \in Seq(Items) BY DEF BoxesTypeOK
  <2>2. \A p \in 1 .. Len(box[l]) : box[l][p] \in Items BY <2>1
  <2>3. Items \subseteq Int BY <1>0 DEF Items
  <2>4. Len(box[l]) \in Nat BY <2>1
  <2>5. \A p \in 1 .. Len(box[l]) : box[l][p] \in Int BY <2>2, <2>3, Zenon
  <2>6. QED BY <2>4, <2>5
<1>3. ASSUME NEW l \in Levels, NEW p \in 1 .. Len(box[l])
      PROVE  /\ p \in 1 .. Len(box'[l])
             /\ box'[l][p] = box[l][p]
             /\ box[l][p] \in Int /\ box[l][p] < loaded
  <2>1. p \in 1 .. Len(box'[l]) /\ box'[l][p] = box[l][p]
    BY <1>0, <1>1 DEF Extended
  <2>2. QED BY <2>1, <1>2 DEF EachOnce, OnlyLoaded
<1>4. ASSUME NEW l \in Levels, NEW p \in 1 .. Len(box'[l]), p \notin 1 .. Len(box[l])
      PROVE  /\ l = 0 /\ p \in Int
             /\ box'[l][p] = loaded + (p - Len(box[0])) - 1
             /\ box'[l][p] \in Int /\ box'[l][p] >= loaded /\ box'[l][p] < loaded + n
  <2>1. l = 0 BY <1>1, <1>4 DEF Extended
  <2>2. p \in 1 .. Len(box[0]) + n BY <2>1, <1>1 DEF Extended
  <2>3. p - Len(box[0]) \in 1 .. n BY <2>1, <2>2, <1>0, <1>2, <1>4
  <2>4. p = Len(box[0]) + (p - Len(box[0])) BY <2>2, <1>0, <1>2
  <2> DEFINE k == p - Len(box[0])
  <2> HIDE DEF k
  <2>5. k \in 1 .. n /\ p = Len(box[0]) + k BY <2>3, <2>4 DEF k
  <2>6. box'[0][Len(box[0]) + k] = loaded + k - 1 BY <2>5, <1>1 DEF Extended
  <2>7. box'[l][p] = loaded + k - 1 BY <2>1, <2>5, <2>6
  <2>8. k \in Int /\ k >= 1 /\ k <= n /\ n \in Int BY <2>5, <1>0
  <2>9. box'[l][p] = loaded + k - 1 /\ box'[l][p] \in Int
        /\ box'[l][p] >= loaded /\ box'[l][p] < loaded + n
    BY <2>7, <2>8, <1>0
  <2>10. p \in Int BY <2>5, <2>8, <1>0, <1>2
  <2>11. box'[l][p] = loaded + (p - Len(box[0])) - 1 BY <2>9 DEF k
  <2>12. QED BY <2>1, <2>9, <2>10, <2>11
<1>5. BoxesTypeOK'
  BY <1>0, <1>1 DEF BoxesTypeOK, Extended
<1>6. OnlyLoaded'
  <2> SUFFICES ASSUME NEW l \in Levels, NEW p \in 1 .. Len(box'[l])
               PROVE  box'[l][p] < loaded + n
    BY <1>0 DEF OnlyLoaded
  <2>1. CASE p \in 1 .. Len(box[l]) BY <2>1, <1>0, <1>3
  <2>2. CASE p \notin 1 .. Len(box[l]) BY <2>2, <1>4
  <2>3. QED BY <2>1, <2>2
<1>7. NoDuplicate'
  <2> SUFFICES ASSUME NEW l \in Levels, NEW m \in Levels,
                      NEW p \in 1 .. Len(box'[l]), NEW q \in 1 .. Len(box'[m]),
                      box'[l][p] = box'[m][q]
               PROVE  l = m /\ p = q
    BY DEF NoDuplicate
  <2>1. CASE p \in 1 .. Len(box[l]) /\ q \in 1 .. Len(box[m])
    <3>1. box[l][p] = box[m][q] BY <2>1, <1>3
    <3>2. QED BY <2>1, <3>1, OnePlace DEF EachOnce
  <2>2. CASE p \in 1 .. Len(box[l]) /\ q \notin 1 .. Len(box[m])
    <3>1. box'[l][p] \in Int /\ box'[l][p] < loaded BY <2>2, <1>3
    <3>2. box'[m][q] >= loaded BY <2>2, <1>4
    <3>3. QED BY <3>1, <3>2, <1>0, SMTT(30)
  <2>3. CASE p \notin 1 .. Len(box[l]) /\ q \in 1 .. Len(box[m])
    <3>1. box'[m][q] \in Int /\ box'[m][q] < loaded BY <2>3, <1>3
    <3>2. box'[l][p] >= loaded BY <2>3, <1>4
    <3>3. QED BY <3>1, <3>2, <1>0, SMTT(30)
  <2>4. CASE p \notin 1 .. Len(box[l]) /\ q \notin 1 .. Len(box[m])
    <3>1. l = 0 /\ p \in Int /\ box'[l][p] = loaded + (p - Len(box[0])) - 1 BY <2>4, <1>4
    <3>2. m = 0 /\ q \in Int /\ box'[m][q] = loaded + (q - Len(box[0])) - 1 BY <2>4, <1>4
    <3>3. loaded + (p - Len(box[0])) - 1 = loaded + (q - Len(box[0])) - 1 BY <3>1, <3>2
    <3>4. p = q BY <3>1, <3>2, <3>3, <1>0, <1>2
    <3>5. QED BY <3>1, <3>2, <3>4
  <2>5. QED BY <2>1, <2>2, <2>3, <2>4
<1>8. AllLoaded'
  <2> SUFFICES ASSUME NEW i \in 0 .. loaded' - 1
               PROVE  \E m \in Levels : \E q \in 1 .. Len(box'[m]) : box'[m][q] = i
    BY DEF AllLoaded
  <2>1. CASE i < loaded
    <3>1. i \in 0 .. loaded - 1 BY <2>1, <1>0
    <3>2. PICK l \in Levels : \E p \in 1 .. Len(box[l]) : box[l][p] = i
      BY <3>1 DEF EachOnce, AllLoaded
    <3>3. PICK p \in 1 .. Len(box[l]) : box[l][p] = i BY <3>2
    <3>4. p \in 1 .. Len(box'[l]) /\ box'[l][p] = i BY <3>3, <1>3
    <3>5. QED BY <3>4
  <2>2. CASE ~(i < loaded)
    <3> DEFINE k == i - loaded + 1
    <3>1. k \in 1 .. n /\ i = loaded + k - 1 BY <2>2, <1>0
    <3> HIDE DEF k
    <3>2. Len(box[0]) + k \in 1 .. Len(box'[0]) BY <3>1, <1>0, <1>1 DEF Extended
    <3>3. box'[0][Len(box[0]) + k] = i BY <3>1, <1>1 DEF Extended
    <3>4. QED BY <3>2, <3>3, <1>0
  <2>3. QED BY <2>1, <2>2
<1>9. QED BY <1>5, <1>6, <1>7, <1>8 DEF EachOnce

-----------------------------------------------------------------------------
\* The boxes of a new meta file.
LEMMA InitEachOnce == BoxesInit => BoxesTypeOK /\ EachOnce
  BY BoxesAssumption DEF BoxesInit, BoxesTypeOK, EachOnce, NoDuplicate, OnlyLoaded, AllLoaded

\* Every step keeps the boxes in order.
LEMMA StepEachOnce == BoxesTypeOK /\ EachOnce /\ [BoxesNext]_boxVars => (BoxesTypeOK /\ EachOnce)'
<1> SUFFICES ASSUME BoxesTypeOK, EachOnce, [BoxesNext]_boxVars
             PROVE  (BoxesTypeOK /\ EachOnce)'
  OBVIOUS
<1>1. ASSUME NEW n \in 1 .. Total, Load(n)
      PROVE  (BoxesTypeOK /\ EachOnce)'
  BY <1>1, LoadKeepsEachOnce DEF Load
<1>2. ASSUME NEW from \in Levels, NEW to \in Levels, Move(from, to)
      PROVE  (BoxesTypeOK /\ EachOnce)'
  BY <1>2, MoveKeepsEachOnce DEF Move
<1>3. CASE UNCHANGED boxVars
  BY <1>3 DEF boxVars, BoxesTypeOK, EachOnce, NoDuplicate, OnlyLoaded, AllLoaded
<1>4. QED BY <1>1, <1>2, <1>3 DEF BoxesNext

\* Whatever the user answers, every loaded VS is in exactly one box and no other
\* VS is in any: the moves and loads of vs.c and ltsys.c lose and copy nothing.
THEOREM BoxesHoldEachOnce == BoxesSpec => [](BoxesTypeOK /\ EachOnce)
<1>1. BoxesInit => BoxesTypeOK /\ EachOnce BY InitEachOnce
<1>2. BoxesTypeOK /\ EachOnce /\ [BoxesNext]_boxVars => (BoxesTypeOK /\ EachOnce)'
  BY StepEachOnce
<1>3. QED BY <1>1, <1>2, PTL DEF BoxesSpec

-----------------------------------------------------------------------------
(* The session *)

\* The three parts of the invariant.
DataOK == /\ BoxesTypeOK
          /\ cnt \in [Levels -> Nat] /\ busy \in [Levels -> Nat]
          /\ CountsAgree

StackOK == /\ stack \in Seq(Frames)
           /\ stack # <<>> <=> proc = "go"
           /\ proc \in {"idle", "go", "down"}

NumbersOK == /\ pug \in Int /\ ugc \in Int /\ firstwhile \in {0, 1}
             /\ asked \in Nat /\ report \in Int /\ cut \in BOOLEAN

SessionInv == DataOK /\ StackOK /\ NumbersOK

GoFrames == [fn : {"go_lbox"}, lv : Asked, type : GoTypes,
             at : {"enter", "box", "more", "load", "while", "for", "next", "return"},
             i : Asked, j : Asked, k : {0, 1}, ret : Int]
InternalFrames == [fn : {"internal"}, lv : Asked, at : {"loop", "break"},
                   cnt2go : Int, start : Int]
MoveFrames == [fn : {"move"}, lv : Asked, at : {"while", "done"}, ret : Int]

-----------------------------------------------------------------------------
(* Constants *)

LEMMA ConstantFacts ==
    /\ MaxLevel \in Nat /\ MaxLevel > 1 /\ Total \in Nat
    /\ 0 \in Asked /\ 1 \in Asked /\ Asked \subseteq Levels
    /\ \A l \in Asked : l \in Nat /\ l # MaxLevel /\ l + 1 \in Levels
    /\ \A l \in Levels : l # MaxLevel => l \in Asked
    /\ \A l \in Asked : Limit[l] \in Nat \ {0}
    /\ NumPerLoad \in Int /\ ReloadMin \in Int
    /\ \A t \in GoTypes, l \in Asked : MaxGo[t][l] \in Int
  BY BoxesAssumption, SessionAssumption DEF Asked, Levels

-----------------------------------------------------------------------------
(* Frames and the stack *)

LEMMA FrameKinds ==
    ASSUME NEW f \in Frames
    PROVE  /\ f.fn = "go_lbox" => f \in GoFrames
           /\ f.fn = "internal" => f \in InternalFrames
           /\ f.fn = "move" => f \in MoveFrames
           /\ f \in GoFrames \/ f \in InternalFrames \/ f \in MoveFrames
  BY DEF Frames, GoFrames, InternalFrames, MoveFrames

LEMMA KindsAreFrames ==
    GoFrames \subseteq Frames /\ InternalFrames \subseteq Frames /\ MoveFrames \subseteq Frames
  BY DEF Frames, GoFrames, InternalFrames, MoveFrames

LEMMA Pop ==
    ASSUME NEW S, NEW s \in Seq(S), s # <<>>
    PROVE  Head(s) \in S /\ Tail(s) \in Seq(S)
  OBVIOUS

LEMMA Push ==
    ASSUME NEW S, NEW s \in Seq(S), NEW f \in S
    PROVE  <<f>> \o s \in Seq(S) /\ <<f>> \o s # <<>>
  OBVIOUS

LEMMA PushTwo ==
    ASSUME NEW S, NEW s \in Seq(S), NEW f \in S, NEW g \in S
    PROVE  <<g, f>> \o s \in Seq(S) /\ <<g, f>> \o s # <<>>
  OBVIOUS

\* The active call is a frame, and its callers are a stack.
LEMMA TopTyped ==
    ASSUME StackOK, NEW fn, NEW a, In(fn, a)
    PROVE  /\ Top \in Frames /\ Callers \in Seq(Frames)
           /\ Top.fn = fn /\ Top.at = a /\ proc = "go"
<1>1. stack \in Seq(Frames) /\ stack # <<>> BY DEF StackOK, In
<1>2. Head(stack) \in Frames /\ Tail(stack) \in Seq(Frames) BY <1>1, Pop
<1>3. QED BY <1>2 DEF Top, Callers, In

\* What Goto and the returns of callees do to a frame keeps it one.
LEMMA GotoTyped ==
    ASSUME Top \in Frames, NEW a
    PROVE  /\ Top.fn = "go_lbox" /\ a \in {"enter", "box", "more", "load", "while", "for", "next", "return"}
                => Goto(a) \in Frames
           /\ Top.fn = "move" /\ a \in {"while", "done"} => Goto(a) \in Frames
<1>1. CASE Top.fn = "go_lbox"
  <2>1. Top \in GoFrames BY <1>1, FrameKinds
  <2>2. a \in {"enter", "box", "more", "load", "while", "for", "next", "return"} => Goto(a) \in GoFrames
    BY <2>1 DEF Goto, GoFrames
  <2>3. QED BY <1>1, <2>2, KindsAreFrames
<1>2. CASE Top.fn = "move"
  <2>1. Top \in MoveFrames BY <1>2, FrameKinds
  <2>2. a \in {"while", "done"} => Goto(a) \in MoveFrames BY <2>1 DEF Goto, MoveFrames
  <2>3. QED BY <1>2, <2>2, KindsAreFrames
<1>3. QED BY <1>1, <1>2

LEMMA ResumeTyped ==
    ASSUME NEW f \in Frames, NEW v \in Int
    PROVE  Resume(f, v) \in Frames
<1>1. CASE f \in GoFrames
  <2>1. Resume(f, v) \in GoFrames BY <1>1 DEF Resume, GoFrames
  <2>2. QED BY <2>1, KindsAreFrames
<1>2. CASE f \in InternalFrames
  <2>1. Resume(f, v) \in InternalFrames BY <1>2 DEF Resume, InternalFrames
  <2>2. QED BY <2>1, KindsAreFrames
<1>3. CASE f \in MoveFrames
  <2>1. Resume(f, v) \in MoveFrames BY <1>3 DEF Resume, MoveFrames
  <2>2. QED BY <2>1, KindsAreFrames
<1>4. QED BY <1>1, <1>2, <1>3, FrameKinds

LEMMA ReturnTyped ==
    ASSUME StackOK, proc = "go", report \in Int, NEW v \in Int, Return(v)
    PROVE  StackOK' /\ report' \in Int
<1>1. Callers \in Seq(Frames) BY Pop DEF StackOK, Callers
<1>2. CASE Callers = <<>>
  BY <1>2 DEF Return, StackOK
<1>3. CASE Callers # <<>>
  <2>1. Head(Callers) \in Frames /\ Tail(Callers) \in Seq(Frames) BY <1>1, <1>3, Pop
  <2>2. Resume(Head(Callers), v) \in Frames BY <2>1, ResumeTyped
  <2>3. stack' = <<Resume(Head(Callers), v)>> \o Tail(Callers) /\ UNCHANGED <<proc, report>>
    BY <1>3 DEF Return
  <2>4. stack' \in Seq(Frames) /\ stack' # <<>> BY <2>1, <2>2, <2>3, Push
  <2>5. QED BY <2>3, <2>4 DEF StackOK
<1>4. QED BY <1>2, <1>3

LEMMA ContinueTyped ==
    ASSUME StackOK, proc = "go", NEW f \in Frames, Continue(f), Calm, report \in Int
    PROVE  StackOK' /\ report' \in Int
<1>1. Callers \in Seq(Frames) BY Pop DEF StackOK, Callers
<1>2. stack' \in Seq(Frames) /\ stack' # <<>> BY <1>1, Push DEF Continue
<1>3. QED BY <1>2 DEF StackOK, Calm

LEMMA CallTyped ==
    ASSUME StackOK, proc = "go", NEW g \in Frames, NEW f \in Frames, Call(g, f), Calm,
           report \in Int
    PROVE  StackOK' /\ report' \in Int
<1>1. Callers \in Seq(Frames) BY Pop DEF StackOK, Callers
<1>2. stack' \in Seq(Frames) /\ stack' # <<>> BY <1>1, PushTwo DEF Call
<1>3. QED BY <1>2 DEF StackOK, Calm

\* The frames of new calls.
LEMMA NewFrames ==
    /\ \A l \in Asked, t \in GoTypes : GoFrame(l, t) \in Frames
    /\ \A l \in Asked, n \in Int : InternalFrame(l, n) \in Frames
    /\ \A l \in Asked : MoveFrame(l) \in Frames
<1>1. \A l \in Asked, t \in GoTypes : GoFrame(l, t) \in GoFrames
  BY ConstantFacts DEF GoFrame, GoFrames
<1>2. \A l \in Asked, n \in Int : InternalFrame(l, n) \in InternalFrames
  BY DEF InternalFrame, InternalFrames
<1>3. \A l \in Asked : MoveFrame(l) \in MoveFrames
  BY DEF MoveFrame, MoveFrames
<1>4. QED BY <1>1, <1>2, <1>3, KindsAreFrames

-----------------------------------------------------------------------------
(* The data: loads *)

\* However the number of "load" compares, no more is drawn than the vs file
\* has left and box 0 has room for.
LEMMA LoadCountBounds ==
    ASSUME DataOK, NEW arg \in Int
    PROVE  /\ LoadCount(arg) \in 0 .. Total - loaded
           /\ LoadCount(arg) <= Limit[0] - cnt[0]
<1>1. /\ 0 \in Levels /\ 0 # MaxLevel /\ Limit[0] \in Nat /\ Total \in Nat /\ NumPerLoad \in Int
  BY ConstantFacts
<1>2. loaded \in Int /\ Total - loaded >= 0 BY <1>1 DEF DataOK, BoxesTypeOK
<1>3. cnt[0] \in Nat BY <1>1 DEF DataOK
<1>4. cnt[0] <= Limit[0] BY <1>1 DEF DataOK, CountsAgree
<1>5. QED BY <1>1, <1>2, <1>3, <1>4 DEF LoadCount, SmallerOf

\* A load of nothing changes nothing.
LEMMA LoadOfNothing ==
    ASSUME DataOK, DoLoad(0)
    PROVE  UNCHANGED data
<1>0. 0 \in Levels /\ Total \in Nat BY ConstantFacts
<1>01. box \in [Levels -> Seq(Items)] /\ cnt \in [Levels -> Nat] BY DEF DataOK, BoxesTypeOK
<1>02. loaded \in 0 .. Total BY DEF DataOK, BoxesTypeOK
<1>03. loaded \in Int BY <1>0, <1>02
<1>1. box \in [Levels -> Seq(Items)] /\ cnt \in [Levels -> Nat] /\ 0 \in Levels /\ loaded \in Int
  BY <1>0, <1>01, <1>03
<1>2. Drawn(0) = <<>> BY DEF Drawn
<1>3. box[0] \o Drawn(0) = box[0] BY <1>1, <1>2
<1>4. box' = box BY <1>1, <1>3 DEF DoLoad
<1>5. cnt' = cnt BY <1>1 DEF DoLoad
<1>6. loaded' = loaded BY <1>1 DEF DoLoad
<1>7. QED BY <1>4, <1>5, <1>6 DEF DoLoad, data

\* A load is a load of LtBoxes and keeps the counters in step.
LEMMA LoadKeepsData ==
    ASSUME DataOK, NEW n \in 0 .. Total - loaded, n <= Limit[0] - cnt[0], DoLoad(n)
    PROVE  DataOK' /\ [BoxesNext]_boxVars
<1>1. CASE n = 0
  <2>1. UNCHANGED data BY <1>1, LoadOfNothing
  <2>2. QED BY <2>1 DEF data, boxVars, DataOK, BoxesTypeOK, CountsAgree, Full
<1>2. CASE n # 0
  <2> Total \in Nat /\ 0 \in Levels /\ 0 # MaxLevel /\ Limit[0] \in Nat
    BY ConstantFacts
  <2> loaded \in 0 .. Total BY DEF DataOK, BoxesTypeOK
  <2>0. /\ n \in 1 .. Total - loaded /\ BoxesTypeOK
        /\ cnt \in [Levels -> Nat] /\ busy \in [Levels -> Nat]
    BY <1>2 DEF DataOK
  <2>1. Extended(box', n) BY <2>0, LoadExtends DEF DoLoad
  <2>2. Load(n) BY <2>0 DEF Load, DoLoad
  <2>3. BoxesTypeOK' BY <2>0, <2>1 DEF BoxesTypeOK, Extended, DoLoad
  <2>4. /\ cnt' \in [Levels -> Nat] /\ busy' = busy /\ cnt'[0] = cnt[0] + n
        /\ \A l \in Levels \ {0} : cnt'[l] = cnt[l]
    BY <2>0 DEF DoLoad
  <2>5. busy[0] = 0
    <3>1. ~Full(cnt, 0) BY <2>0 DEF Full
    <3>2. QED BY <2>0, <3>1 DEF DataOK, CountsAgree
  <2>6. CountsAgree'
    <3> SUFFICES ASSUME NEW l \in Levels
                 PROVE  /\ Len(box'[l]) = cnt'[l] + busy'[l]
                        /\ l # MaxLevel => cnt'[l] <= Limit[l]
                        /\ busy'[l] > 0 => Full(cnt', l)
      BY DEF CountsAgree, Full
    <3>1. CASE l = 0 BY <3>1, <2>0, <2>1, <2>4, <2>5 DEF DataOK, CountsAgree, Extended
    <3>2. CASE l # 0 BY <3>2, <2>1, <2>4 DEF DataOK, CountsAgree, Extended, Full
    <3>3. QED BY <3>1, <3>2
  <2>7. n \in 1 .. Total BY <2>0
  <2>8. QED BY <2>0, <2>2, <2>3, <2>4, <2>6, <2>7 DEF DataOK, BoxesNext
<1>3. QED BY <1>1, <1>2

-----------------------------------------------------------------------------
(* The data: moves *)

\* The counters c and b fit the limits.
Fit(c, b) == /\ c \in [Levels -> Nat] /\ b \in [Levels -> Nat]
             /\ \A l \in Levels : /\ l # MaxLevel => c[l] <= Limit[l]
                                  /\ b[l] > 0 => Full(c, l)

LEMMA CountsLeftFit ==
    ASSUME DataOK, NEW from \in Asked, cnt[from] # 0
    PROVE  /\ Fit(CountsLeft(from).c, CountsLeft(from).b)
           /\ CountsLeft(from).c[from] + CountsLeft(from).b[from] = cnt[from] + busy[from] - 1
           /\ \A l \in Levels \ {from} : CountsLeft(from).c[l] = cnt[l] /\ CountsLeft(from).b[l] = busy[l]
<1>0. /\ cnt \in [Levels -> Nat] /\ busy \in [Levels -> Nat] /\ from \in Levels /\ from # MaxLevel
      /\ Limit[from] \in Nat /\ cnt[from] \in Nat \ {0} /\ busy[from] \in Nat
      /\ \A l \in Levels : /\ l # MaxLevel => cnt[l] <= Limit[l]
                           /\ busy[l] > 0 => Full(cnt, l)
  BY ConstantFacts DEF DataOK, CountsAgree
<1>1. CASE busy[from] # 0
  <2> DEFINE b == [busy EXCEPT ![from] = busy[from] - 1]
  <2>1. CountsLeft(from).c = cnt /\ CountsLeft(from).b = b BY <1>1 DEF CountsLeft
  <2>2. b \in [Levels -> Nat] /\ b[from] = busy[from] - 1 /\ \A l \in Levels \ {from} : b[l] = busy[l]
    BY <1>0, <1>1
  <2>3. Full(cnt, from) BY <1>0, <1>1
  <2> HIDE DEF b
  <2>4. Fit(cnt, b) BY <1>0, <2>2, <2>3 DEF Fit
  <2>5. cnt[from] + b[from] = cnt[from] + busy[from] - 1 BY <1>0, <2>2
  <2>6. QED BY <2>1, <2>2, <2>4, <2>5
<1>2. CASE busy[from] = 0
  <2> DEFINE c == [cnt EXCEPT ![from] = cnt[from] - 1]
  <2>1. CountsLeft(from).c = c /\ CountsLeft(from).b = busy BY <1>2 DEF CountsLeft
  <2>2. c \in [Levels -> Nat] /\ c[from] = cnt[from] - 1 /\ \A l \in Levels \ {from} : c[l] = cnt[l]
    BY <1>0
  <2> HIDE DEF c
  <2>3. ASSUME NEW l \in Levels
        PROVE  (l # MaxLevel => c[l] <= Limit[l]) /\ (busy[l] > 0 => Full(c, l))
    <3>1. CASE l = from
      <4>1. cnt[from] <= Limit[from] BY <1>0
      <4>2. QED BY <3>1, <4>1, <1>0, <1>2, <2>2
    <3>2. CASE l # from BY <3>2, <1>0, <2>2 DEF Full
    <3>3. QED BY <3>1, <3>2
  <2>4. Fit(c, busy) BY <1>0, <2>2, <2>3 DEF Fit
  <2>5. c[from] + busy[from] = cnt[from] + busy[from] - 1 BY <1>0, <2>2
  <2>6. QED BY <2>1, <2>2, <2>4, <2>5
<1>3. QED BY <1>1, <1>2

LEMMA CountsMovedFit ==
    ASSUME DataOK, NEW from \in Asked, cnt[from] # 0, NEW to \in Levels
    PROVE  LET now  == CountsMoved(from, to)
               left == CountsLeft(from)
           IN  /\ Fit(now.c, now.b)
               /\ now.c[to] + now.b[to] = left.c[to] + left.b[to] + 1
               /\ \A l \in Levels \ {to} : now.c[l] = left.c[l] /\ now.b[l] = left.b[l]
<1> DEFINE left == CountsLeft(from)
           c == left.c
           b == left.b
<1>0. left = [c |-> c, b |-> b] BY DEF CountsLeft
<1>1. Fit(c, b) BY CountsLeftFit
<1> HIDE DEF left, c, b
<1>2. c \in [Levels -> Nat] /\ b \in [Levels -> Nat] /\ c[to] \in Nat /\ b[to] \in Nat
  BY <1>1 DEF Fit
<1>3. CASE Full(c, to)
  <2> DEFINE d == [b EXCEPT ![to] = b[to] + 1]
  <2>1. CountsMoved(from, to) = [c |-> c, b |-> d] BY <1>0, <1>3 DEF CountsMoved, left
  <2>2. d \in [Levels -> Nat] /\ d[to] = b[to] + 1 /\ \A l \in Levels \ {to} : d[l] = b[l]
    BY <1>2
  <2> HIDE DEF d
  <2>3. Fit(c, d) BY <1>1, <1>3, <2>2 DEF Fit
  <2>4. c[to] + d[to] = c[to] + b[to] + 1 BY <1>2, <2>2
  <2>5. QED BY <2>1, <2>2, <2>3, <2>4 DEF left, c, b
<1>4. CASE ~Full(c, to)
  <2> DEFINE d == [c EXCEPT ![to] = c[to] + 1]
  <2>1. CountsMoved(from, to) = [c |-> d, b |-> b] BY <1>0, <1>4 DEF CountsMoved, left
  <2>2. d \in [Levels -> Nat] /\ d[to] = c[to] + 1 /\ \A l \in Levels \ {to} : d[l] = c[l]
    BY <1>2
  <2> HIDE DEF d
  <2>3. ASSUME NEW l \in Levels
        PROVE  (l # MaxLevel => d[l] <= Limit[l]) /\ (b[l] > 0 => Full(d, l))
    <3>1. CASE l = to
      <4>1. ~(b[to] > 0) BY <1>1, <1>4 DEF Fit
      <4>2. to # MaxLevel => c[to] < Limit[to] BY <1>4 DEF Full
      <4>3. to # MaxLevel => Limit[to] \in Nat BY ConstantFacts
      <4>4. QED BY <3>1, <4>1, <4>2, <4>3, <1>2, <2>2
    <3>2. CASE l # to BY <3>2, <1>1, <2>2 DEF Full, Fit
    <3>3. QED BY <3>1, <3>2
  <2>4. Fit(d, b) BY <1>2, <2>2, <2>3 DEF Fit
  <2>5. d[to] + b[to] = c[to] + b[to] + 1 BY <1>2, <2>2
  <2>6. QED BY <2>1, <2>2, <2>4, <2>5 DEF left, c, b
<1>5. QED BY <1>3, <1>4

\* A move is a move of LtBoxes and keeps the counters in step.
LEMMA MoveKeepsData ==
    ASSUME DataOK, NEW from \in Asked, cnt[from] # 0, NEW to \in Targets(from),
           box' = Moved(from, to), loaded' = loaded,
           cnt' = CountsMoved(from, to).c, busy' = CountsMoved(from, to).b
    PROVE  DataOK' /\ BoxesNext
<1>0. /\ from \in Levels /\ to \in Levels /\ from \in 0 .. MaxLevel - 1
      /\ BoxesTypeOK /\ cnt \in [Levels -> Nat] /\ busy \in [Levels -> Nat]
  BY ConstantFacts DEF DataOK, Targets, Asked
<1>1. box[from] # <<>>
  <2>1. Len(box[from]) = cnt[from] + busy[from] BY <1>0 DEF DataOK, CountsAgree
  <2>2. Len(box[from]) # 0 BY <2>1, <1>0
  <2>3. QED BY <2>2
<1>2. Move(from, to) BY <1>0, <1>1 DEF Move
<1>3. Shifted(box', from, to) BY <1>0, <1>1, MovedShifts
<1>4. BoxesTypeOK' BY <1>0, <1>3 DEF BoxesTypeOK, Shifted
<1>5. Fit(cnt', busy') BY CountsMovedFit, <1>0
<1>6. ASSUME NEW l \in Levels PROVE Len(box'[l]) = cnt'[l] + busy'[l]
  <2> DEFINE c == CountsLeft(from).c
             b == CountsLeft(from).b
  <2>1. /\ c \in [Levels -> Nat] /\ b \in [Levels -> Nat]
        /\ c[from] + b[from] = cnt[from] + busy[from] - 1
        /\ \A m \in Levels \ {from} : c[m] = cnt[m] /\ b[m] = busy[m]
    BY CountsLeftFit DEF Fit
  <2>2. /\ cnt'[to] + busy'[to] = c[to] + b[to] + 1
        /\ \A m \in Levels \ {to} : cnt'[m] = c[m] /\ busy'[m] = b[m]
    BY CountsMovedFit, <1>0
  <2> HIDE DEF c, b
  <2>3. \A m \in Levels : Len(box[m]) = cnt[m] + busy[m] BY DEF DataOK, CountsAgree
  <2>4. \A m \in Levels : cnt[m] \in Nat /\ busy[m] \in Nat /\ c[m] \in Nat /\ b[m] \in Nat
    BY <1>0, <2>1
  <2>5. /\ from # to => Len(box'[from]) = Len(box[from]) - 1 /\ Len(box'[to]) = Len(box[to]) + 1
        /\ from = to => Len(box'[to]) = Len(box[to])
        /\ l \notin {from, to} => box'[l] = box[l]
    BY <1>3 DEF Shifted
  <2>6. CASE l = from /\ l = to
    <3>1. Len(box'[l]) = cnt[l] + busy[l] BY <2>6, <1>0, <2>3, <2>5
    <3>2. c[l] + b[l] = cnt[l] + busy[l] - 1 BY <2>6, <2>1
    <3>3. cnt'[l] + busy'[l] = c[l] + b[l] + 1 BY <2>6, <2>2
    <3>4. QED BY <3>1, <3>2, <3>3, <2>4
  <2>7. CASE l = from /\ l # to
    <3>1. Len(box'[l]) = cnt[l] + busy[l] - 1 BY <2>7, <1>0, <2>3, <2>5, SMTT(30)
    <3>2. c[l] + b[l] = cnt[l] + busy[l] - 1 BY <2>7, <2>1
    <3>3. cnt'[l] + busy'[l] = c[l] + b[l] BY <2>7, <1>0, <2>2
    <3>4. QED BY <3>1, <3>2, <3>3
  <2>8. CASE l # from /\ l = to
    <3>1. Len(box'[l]) = cnt[l] + busy[l] + 1 BY <2>8, <1>0, <2>3, <2>5
    <3>2. c[l] = cnt[l] /\ b[l] = busy[l] BY <2>8, <1>0, <2>1
    <3>3. cnt'[l] + busy'[l] = c[l] + b[l] + 1 BY <2>8, <2>2
    <3>4. QED BY <3>1, <3>2, <3>3
  <2>9. CASE l # from /\ l # to
    <3>1. Len(box'[l]) = cnt[l] + busy[l] BY <2>9, <2>3, <2>5
    <3>2. c[l] = cnt[l] /\ b[l] = busy[l] BY <2>9, <2>1
    <3>3. cnt'[l] = c[l] /\ busy'[l] = b[l] BY <2>9, <2>2
    <3>4. QED BY <3>1, <3>2, <3>3
  <2>10. QED BY <2>6, <2>7, <2>8, <2>9
<1>7. CountsAgree' BY <1>5, <1>6 DEF CountsAgree, Fit, Full
<1>8. QED BY <1>0, <1>2, <1>4, <1>5, <1>7 DEF DataOK, Fit, BoxesNext

-----------------------------------------------------------------------------
(* The actions *)

\* What an action that leaves the boxes alone has to show.
LEMMA DataKept ==
    ASSUME DataOK, UNCHANGED data
    PROVE  DataOK' /\ [BoxesNext]_boxVars
  BY DEF data, boxVars, DataOK, BoxesTypeOK, CountsAgree, Full

LEMMA AtThePrompt ==
    ASSUME SessionInv, CmdLoad \/ CmdGo \/ CmdExit \/ Restart \/ Interrupt \/ Eof
    PROVE  SessionInv' /\ [BoxesNext]_boxVars
<1>1. CASE CmdLoad
  <2>1. PICK arg \in LoadArgs : DoLoad(LoadCount(arg)) BY <1>1 DEF CmdLoad
  <2>2. arg \in Int BY SessionAssumption
  <2>3. DataOK' /\ [BoxesNext]_boxVars
    BY <2>1, <2>2, LoadCountBounds, LoadKeepsData DEF SessionInv
  <2>4. StackOK' /\ NumbersOK'
    BY <1>1 DEF CmdLoad, control, SessionInv, StackOK, NumbersOK
  <2>5. QED BY <2>3, <2>4 DEF SessionInv
<1>2. CASE CmdGo
  <2>1. DataOK' /\ [BoxesNext]_boxVars BY <1>2, DataKept DEF CmdGo, SessionInv
  <2>2. GoFrame(0, "PUSH") \in Frames BY NewFrames, ConstantFacts DEF GoTypes
  <2>3. stack' \in Seq(Frames) /\ stack' # <<>> BY <1>2, <2>2 DEF CmdGo
  <2>4. StackOK' BY <1>2, <2>3 DEF CmdGo, StackOK
  <2>5. NumbersOK'
    BY <1>2, SessionAssumption DEF CmdGo, SessionInv, NumbersOK, FirstWhileAtStart, NoReport
  <2>6. QED BY <2>1, <2>4, <2>5 DEF SessionInv
<1>3. CASE CmdExit
  <2>1. DataOK' /\ [BoxesNext]_boxVars BY <1>3, DataKept DEF CmdExit, SessionInv
  <2>2. StackOK' /\ NumbersOK' BY <1>3 DEF CmdExit, SessionInv, StackOK, NumbersOK
  <2>3. QED BY <2>1, <2>2 DEF SessionInv
<1>4. CASE Restart
  <2>1. DataOK' /\ [BoxesNext]_boxVars BY <1>4, DataKept DEF Restart, SessionInv
  <2>2. StackOK' /\ NumbersOK' BY <1>4 DEF Restart, SessionInv, StackOK, NumbersOK, NoReport
  <2>3. QED BY <2>1, <2>2 DEF SessionInv
<1>5. CASE Interrupt
  <2>1. DataOK' /\ [BoxesNext]_boxVars BY <1>5, DataKept DEF Interrupt, SessionInv
  <2>2. StackOK' /\ NumbersOK' BY <1>5 DEF Interrupt, SessionInv, StackOK, NumbersOK
  <2>3. QED BY <2>1, <2>2 DEF SessionInv
<1>6. CASE Eof
  <2>1. DataOK' /\ [BoxesNext]_boxVars BY <1>6, DataKept DEF Eof, SessionInv
  <2>2. StackOK' /\ NumbersOK' BY <1>6 DEF Eof, SessionInv, StackOK, NumbersOK
  <2>3. QED BY <2>1, <2>2 DEF SessionInv
<1>7. QED BY <1>1, <1>2, <1>3, <1>4, <1>5, <1>6

LEMMA QuotaTyped ==
    ASSUME NumbersOK, NEW max \in Int
    PROVE  Quota(max) \in Int
  BY DEF NumbersOK, Quota, SmallerOf

\* A question accounted for in the loop.
LEMMA AccountTyped ==
    ASSUME Top \in InternalFrames
    PROVE  [Top EXCEPT !.cnt2go = @ - 1, !.at = IF pug = 1 THEN "break" ELSE @] \in InternalFrames
<1> DEFINE f == [Top EXCEPT !.cnt2go = @ - 1, !.at = IF pug = 1 THEN "break" ELSE @]
           a == IF pug = 1 THEN "break" ELSE Top.at
<1>1. a \in {"loop", "break"} /\ Top.cnt2go - 1 \in Int BY DEF InternalFrames
<1>2. f = [Top EXCEPT !.cnt2go = Top.cnt2go - 1, !.at = a] BY DEF InternalFrames
<1> HIDE DEF a, f
<1>3. [Top EXCEPT !.cnt2go = Top.cnt2go - 1, !.at = a] \in InternalFrames
  BY <1>1 DEF InternalFrames
<1>4. f \in InternalFrames BY <1>2, <1>3
<1>5. QED BY <1>4 DEF f

LEMMA Answered ==
    ASSUME SessionInv, NEW wrong_pos \in Answers, Answer(wrong_pos)
    PROVE  SessionInv' /\ [BoxesNext]_boxVars
<1> DEFINE lv == Top.lv
           new == NewLevel(lv, wrong_pos)
           now == CountsMoved(lv, new)
<1>0. Top \in InternalFrames /\ proc = "go" /\ cnt[lv] # 0
  BY TopTyped, FrameKinds DEF Answer, Asking, SessionInv
<1>1. lv \in Asked /\ Top.cnt2go \in Int BY <1>0 DEF InternalFrames
<1>2. new \in Targets(lv) BY DEF NewLevel, Targets
<1>3. new \in Levels BY <1>1, <1>2, ConstantFacts DEF Targets
<1>4. box' = Moved(lv, new) /\ loaded' = loaded /\ cnt' = now.c /\ busy' = now.b
  BY DEF Answer
<1>5. DataOK' /\ [BoxesNext]_boxVars
  BY <1>0, <1>1, <1>2, <1>4, MoveKeepsData DEF SessionInv
<1>6. Top \in Frames BY <1>0, KindsAreFrames
<1>7. /\ Full(now.c, new) => GoOnToMakeWay(new)
      /\ ~Full(now.c, new) => AccountHere
      /\ Calm /\ asked' = asked + 1 /\ UNCHANGED <<ugc, firstwhile, cut>>
  BY DEF Answer
<1> HIDE DEF now, new
<1>8. CASE Full(now.c, new)
  <2>1. new \in Asked BY <1>3, <1>8, ConstantFacts DEF Full
  <2>2. MoveFrame(new) \in Frames BY <2>1, NewFrames
  <2>3. Call(MoveFrame(new), Top) /\ pug' = pug - 1 BY <1>7, <1>8 DEF GoOnToMakeWay
  <2>4. StackOK' /\ report' \in Int
    BY <2>2, <2>3, <1>0, <1>6, <1>7, CallTyped DEF SessionInv, NumbersOK
  <2>5. NumbersOK' BY <2>3, <2>4, <1>7 DEF SessionInv, NumbersOK
  <2>6. QED BY <1>5, <2>4, <2>5 DEF SessionInv
<1>9. CASE ~Full(now.c, new)
  <2> DEFINE f == [Top EXCEPT !.cnt2go = @ - 1, !.at = IF pug = 1 THEN "break" ELSE @]
  <2>1. f \in InternalFrames BY <1>0, AccountTyped
  <2>2. f \in Frames BY <2>1, KindsAreFrames
  <2>3. Continue(f) /\ pug' = pug - 1 BY <1>7, <1>9 DEF AccountHere
  <2> HIDE DEF f
  <2>4. StackOK' /\ report' \in Int
    BY <2>2, <2>3, <1>0, <1>7, ContinueTyped DEF SessionInv, NumbersOK
  <2>5. NumbersOK' BY <2>3, <2>4, <1>7 DEF SessionInv, NumbersOK
  <2>6. QED BY <1>5, <2>4, <2>5 DEF SessionInv
<1>10. QED BY <1>8, <1>9

\* What a step of the program's own has to show beyond the stack.
LEMMA RestKept ==
    ASSUME SessionInv, StackOK', report' \in Int, firstwhile' \in {0, 1},
           UNCHANGED <<pug, ugc, asked, cut>>, DataOK', [BoxesNext]_boxVars
    PROVE  SessionInv' /\ [BoxesNext]_boxVars
  BY DEF SessionInv, NumbersOK

LEMMA Returns ==
    ASSUME SessionInv, InternalReturn \/ MoveReturn \/ GoStop \/ GoReturn
    PROVE  SessionInv' /\ [BoxesNext]_boxVars
<1>0. StackOK /\ report \in Int BY DEF SessionInv, NumbersOK
<1>1. DataOK' /\ [BoxesNext]_boxVars /\ UNCHANGED <<pug, ugc, firstwhile, asked, cut>>
  BY DataKept DEF SessionInv, InternalReturn, MoveReturn, GoStop, GoReturn
<1>2. CASE InternalReturn
  <2>1. Top \in InternalFrames /\ proc = "go"
    BY <1>0, <1>2, TopTyped, FrameKinds DEF InternalReturn
  <2>2. Top.start - Top.cnt2go \in Int BY <2>1 DEF InternalFrames
  <2>3. StackOK' /\ report' \in Int BY <1>0, <1>2, <2>1, <2>2, ReturnTyped DEF InternalReturn
  <2>4. QED BY <1>1, <2>3, RestKept DEF SessionInv, NumbersOK
<1>3. CASE MoveReturn
  <2>1. Top \in MoveFrames /\ proc = "go"
    BY <1>0, <1>3, TopTyped, FrameKinds DEF MoveReturn
  <2>2. Top.ret \in Int BY <2>1 DEF MoveFrames
  <2>3. StackOK' /\ report' \in Int BY <1>0, <1>3, <2>1, <2>2, ReturnTyped DEF MoveReturn
  <2>4. QED BY <1>1, <2>3, RestKept DEF SessionInv, NumbersOK
<1>4. CASE GoStop \/ GoReturn
  <2>1. Top \in GoFrames /\ proc = "go"
    BY <1>0, <1>4, TopTyped, FrameKinds DEF GoStop, GoReturn
  <2>2. Top.ret \in Int BY <2>1 DEF GoFrames
  <2>3. StackOK' /\ report' \in Int BY <1>0, <1>4, <2>1, <2>2, ReturnTyped DEF GoStop, GoReturn
  <2>4. QED BY <1>1, <2>3, RestKept DEF SessionInv, NumbersOK
<1>5. QED BY <1>2, <1>3, <1>4

LEMMA MakesWay ==
    ASSUME SessionInv, MakeWay
    PROVE  SessionInv' /\ [BoxesNext]_boxVars
<1>0. StackOK /\ report \in Int BY DEF SessionInv, NumbersOK
<1>1. DataOK' /\ [BoxesNext]_boxVars BY DataKept DEF SessionInv, MakeWay
<1>2. Top \in MoveFrames /\ Top \in Frames /\ proc = "go" /\ Top.fn = "move"
  BY <1>0, TopTyped, FrameKinds DEF MakeWay
<1>3. Goto(MakeWayAt(Top.lv)) \in Frames BY <1>2, GotoTyped DEF MakeWayAt
<1>4. GoFrame(Top.lv, "MAKEWAY") \in Frames BY <1>2, NewFrames DEF MoveFrames, GoTypes
<1>5. StackOK' /\ report' \in Int BY <1>0, <1>2, <1>3, <1>4, CallTyped DEF MakeWay
<1>6. QED BY <1>1, <1>5, RestKept DEF MakeWay, SessionInv, NumbersOK

\* The counting of the circles stays with boxes whose VSes are asked for.
LEMMA NextInCircleTyped ==
    ASSUME Top \in GoFrames
    PROVE  NextInCircle(Top) \in GoFrames
<1>01. Top.i \in Asked /\ Top.j \in Asked BY DEF GoFrames
<1>0. /\ MaxLevel \in Nat /\ Top.i \in Nat /\ Top.j \in Nat /\ 0 \in Asked
      /\ Top.i \in Asked /\ Top.j \in Asked /\ Asked = 0 .. MaxLevel - 1
  BY <1>01, ConstantFacts DEF Asked
<1>1. CASE Top.j < Top.i
  <2>1. Top.j + 1 \in Asked BY <1>0, <1>1
  <2>2. NextInCircle(Top) = [Top EXCEPT !.j = Top.j + 1, !.at = "for"]
    BY <1>1 DEF NextInCircle, GoFrames
  <2>3. [Top EXCEPT !.j = Top.j + 1, !.at = "for"] \in GoFrames BY <2>1 DEF GoFrames
  <2>4. QED BY <2>2, <2>3
<1>2. CASE ~(Top.j < Top.i) /\ Top.i < MaxLevel - 1
  <2>1. Top.i + 1 \in Asked BY <1>0, <1>2
  <2>2. NextInCircle(Top) = [Top EXCEPT !.i = Top.i + 1, !.j = 0, !.at = "for"]
    BY <1>2 DEF NextInCircle, GoFrames
  <2>3. [Top EXCEPT !.i = Top.i + 1, !.j = 0, !.at = "for"] \in GoFrames
    BY <1>0, <2>1 DEF GoFrames
  <2>4. QED BY <2>2, <2>3
<1>3. CASE ~(Top.j < Top.i) /\ ~(Top.i < MaxLevel - 1)
  <2>1. NextInCircle(Top) = [Top EXCEPT !.at = "while"] BY <1>3 DEF NextInCircle
  <2>2. [Top EXCEPT !.at = "while"] \in GoFrames BY DEF GoFrames
  <2>3. QED BY <2>1, <2>2
<1>4. QED BY <1>1, <1>2, <1>3

LEMMA GoesOn ==
    ASSUME SessionInv, GoEnter \/ GoBox \/ GoMore \/ GoWhile \/ GoCircle \/ GoNext
    PROVE  SessionInv' /\ [BoxesNext]_boxVars
<1>0. StackOK /\ report \in Int /\ NumbersOK BY DEF SessionInv, NumbersOK
<1>1. /\ DataOK' /\ [BoxesNext]_boxVars
      /\ UNCHANGED <<pug, ugc, asked, cut>> /\ Calm
  BY DataKept DEF SessionInv, GoEnter, GoBox, GoMore, GoWhile, GoCircle, GoNext, Internal
<1>2. Top \in GoFrames /\ Top \in Frames /\ proc = "go" /\ Top.fn = "go_lbox"
  BY <1>0, TopTyped, FrameKinds DEF GoEnter, GoBox, GoMore, GoWhile, GoCircle, GoNext
<1>3. /\ Top.lv \in Asked /\ Top.type \in GoTypes /\ Top.i \in Asked /\ Top.j \in Asked
  BY <1>2 DEF GoFrames
<1>4. SUFFICES StackOK' /\ report' \in Int /\ firstwhile' \in {0, 1}
  BY <1>1, RestKept
<1>5. CASE GoEnter
  <2>1. Goto("box") \in Frames BY <1>2, GotoTyped
  <2>2. CASE Full(cnt, Top.lv + 1)
    <3>1. Top.lv + 1 \in Asked BY <2>2, <1>3, ConstantFacts DEF Full
    <3>2. GoFrame(Top.lv + 1, Top.type) \in Frames BY <3>1, <1>3, NewFrames
    <3>3. QED BY <1>0, <1>1, <1>2, <1>5, <2>1, <2>2, <3>2, CallTyped
              DEF GoEnter, Internal, NumbersOK
  <2>3. CASE ~Full(cnt, Top.lv + 1)
    BY <1>0, <1>1, <1>2, <1>5, <2>1, <2>3, ContinueTyped DEF GoEnter, Internal, NumbersOK
  <2>4. QED BY <2>2, <2>3
<1>6. CASE GoBox
  <2>1. Goto("more") \in Frames BY <1>2, GotoTyped
  <2>2. MaxGo[Top.type][Top.lv] \in Int BY <1>3, ConstantFacts
  <2>3. InternalFrame(Top.lv, Quota(MaxGo[Top.type][Top.lv])) \in Frames
    BY <1>0, <1>3, <2>2, QuotaTyped, NewFrames
  <2>4. QED BY <1>0, <1>1, <1>2, <1>6, <2>1, <2>3, CallTyped DEF GoBox, Internal, NumbersOK
<1>7. CASE GoMore
  <2>1. Goto("load") \in Frames BY <1>2, GotoTyped
  <2>2. CASE cnt[1] > ReloadMin
    <3>1. 1 \in Asked /\ 1 \in Levels /\ ReloadMin \in Int BY ConstantFacts
    <3>2. cnt[1] - ReloadMin \in Int BY <3>1 DEF SessionInv, DataOK
    <3>3. InternalFrame(1, Quota(cnt[1] - ReloadMin)) \in Frames
      BY <1>0, <3>1, <3>2, QuotaTyped, NewFrames
    <3>4. QED BY <1>0, <1>1, <1>2, <1>7, <2>1, <2>2, <3>3, CallTyped
              DEF GoMore, Internal, NumbersOK
  <2>3. CASE ~(cnt[1] > ReloadMin)
    BY <1>0, <1>1, <1>2, <1>7, <2>1, <2>3, ContinueTyped DEF GoMore, Internal, NumbersOK
  <2>4. QED BY <2>2, <2>3
<1>8. CASE GoWhile
  <2>1. [Top EXCEPT !.at = "for", !.i = 1, !.j = 0] \in GoFrames
    BY <1>2, ConstantFacts DEF GoFrames
  <2>2. [Top EXCEPT !.at = "for", !.i = 1, !.j = 0] \in Frames BY <2>1, KindsAreFrames
  <2>3. StackOK' /\ report' \in Int
    BY <1>0, <1>1, <1>2, <1>8, <2>2, ContinueTyped DEF GoWhile
  <2>4. QED BY <1>8, <2>3 DEF GoWhile
<1>9. CASE GoCircle
  <2>1. CASE Top.k = 0
    <3>1. [Top EXCEPT !.k = 1, !.at = "next"] \in GoFrames BY <1>2 DEF GoFrames
    <3>2. [Top EXCEPT !.k = 1, !.at = "next"] \in Frames BY <3>1, KindsAreFrames
    <3>3. QED BY <1>0, <1>1, <1>2, <1>9, <2>1, <3>2, ContinueTyped
              DEF GoCircle, Internal, NumbersOK
  <2>2. CASE Top.k # 0
    <3>1. GoFrame(Top.j, "CLEAN") \in Frames BY <1>3, NewFrames DEF GoTypes
    <3>2. Goto("next") \in Frames BY <1>2, GotoTyped
    <3>3. QED BY <1>0, <1>1, <1>2, <1>9, <2>2, <3>1, <3>2, CallTyped
              DEF GoCircle, Internal, NumbersOK
  <2>3. QED BY <2>1, <2>2
<1>10. CASE GoNext
  <2>1. NextInCircle(Top) \in GoFrames BY <1>2, NextInCircleTyped
  <2>2. NextInCircle(Top) \in Frames BY <2>1, KindsAreFrames
  <2>3. StackOK' /\ report' \in Int
    BY <1>0, <1>1, <1>2, <1>10, <2>2, ContinueTyped DEF GoNext
  <2>4. firstwhile' \in {0, 1} BY <1>0, <1>10 DEF GoNext, FirstWhileAfter, NumbersOK
  <2>5. QED BY <2>3, <2>4
<1>11. QED BY <1>5, <1>6, <1>7, <1>8, <1>9, <1>10

LEMMA Loads ==
    ASSUME SessionInv, GoLoad
    PROVE  SessionInv' /\ [BoxesNext]_boxVars
<1> DEFINE n == LoadCount(NumPerLoad)
<1>0. StackOK /\ report \in Int BY DEF SessionInv, NumbersOK
<1>1. Top \in Frames /\ proc = "go" /\ Top.fn = "go_lbox" BY <1>0, TopTyped DEF GoLoad
<1>2. NumPerLoad \in Int /\ DoLoad(n) BY ConstantFacts DEF GoLoad
<1>3. DataOK' /\ [BoxesNext]_boxVars
  BY <1>2, LoadCountBounds, LoadKeepsData DEF SessionInv
<1>4. Goto("return") \in Frames /\ Goto("while") \in Frames BY <1>1, GotoTyped
<1>5. GoFrame(0, "PUSH") \in Frames BY NewFrames, ConstantFacts DEF GoTypes
<1>6. Calm /\ UNCHANGED <<pug, ugc, firstwhile, asked, cut>>
      /\ (n > 0 => Call(GoFrame(0, "PUSH"), Goto("return")))
      /\ (~(n > 0) => Continue(Goto("while")))
  BY DEF GoLoad
<1> HIDE DEF n
<1>7. StackOK' /\ report' \in Int
  <2>1. CASE n > 0 BY <2>1, <1>0, <1>1, <1>4, <1>5, <1>6, CallTyped
  <2>2. CASE ~(n > 0) BY <2>2, <1>0, <1>1, <1>4, <1>6, ContinueTyped
  <2>3. QED BY <2>1, <2>2
<1>8. QED BY <1>3, <1>6, <1>7, RestKept DEF SessionInv, NumbersOK

-----------------------------------------------------------------------------
\* A new meta file and a process at its prompt.
LEMMA InitInv == SessionInit => SessionInv /\ BoxesInit
<1> SUFFICES ASSUME SessionInit PROVE SessionInv /\ BoxesInit
  OBVIOUS
<1>1. BoxesInit /\ BoxesTypeOK BY InitEachOnce DEF SessionInit
<1>2. /\ cnt = [l \in Levels |-> 0] /\ busy = [l \in Levels |-> 0]
      /\ box = [l \in Levels |-> <<>>]
  BY DEF SessionInit, BoxesInit
<1>3. \A l \in Levels : l # MaxLevel => Limit[l] \in Nat \ {0} BY ConstantFacts
<1>4. CountsAgree BY <1>2, <1>3 DEF CountsAgree
<1>5. DataOK BY <1>1, <1>2, <1>4 DEF DataOK
<1>6. StackOK BY DEF SessionInit, StackOK
<1>7. NumbersOK
  <2>1. pug = 0 /\ ugc = 0 /\ firstwhile = 0 /\ asked = 0 /\ report = NoReport
    BY DEF SessionInit
  <2>2. pug \in Int /\ ugc \in Int /\ firstwhile \in {0, 1} /\ asked \in Nat
        /\ report \in Int
    BY <2>1, SMT DEF NoReport
  <2>3. cut \in BOOLEAN BY DEF SessionInit
  <2>4. QED BY <2>2, <2>3 DEF NumbersOK
<1>8. QED BY <1>1, <1>5, <1>6, <1>7 DEF SessionInv

\* Every step keeps the invariant and is a step of LtBoxes or none.
LEMMA StepInv ==
    SessionInv /\ [SessionNext]_vars => SessionInv' /\ [BoxesNext]_boxVars
<1> SUFFICES ASSUME SessionInv, [SessionNext]_vars
             PROVE  SessionInv' /\ [BoxesNext]_boxVars
  OBVIOUS
<1>1. CASE CmdLoad \/ CmdGo \/ CmdExit \/ Restart \/ Interrupt \/ Eof
  BY <1>1, AtThePrompt
<1>2. CASE \E wrong_pos \in Answers : Answer(wrong_pos)
  BY <1>2, Answered
<1>3. CASE InternalReturn \/ MoveReturn \/ GoStop \/ GoReturn
  BY <1>3, Returns
<1>4. CASE MakeWay BY <1>4, MakesWay
<1>5. CASE GoEnter \/ GoBox \/ GoMore \/ GoWhile \/ GoCircle \/ GoNext
  BY <1>5, GoesOn
<1>6. CASE GoLoad BY <1>6, Loads
<1>7. CASE UNCHANGED vars
  <2>1. DataOK' /\ [BoxesNext]_boxVars BY <1>7, DataKept DEF vars, SessionInv
  <2>2. StackOK' /\ NumbersOK'
    BY <1>7 DEF vars, control, SessionInv, StackOK, NumbersOK
  <2>3. QED BY <2>1, <2>2 DEF SessionInv
<1>8. QED BY <1>1, <1>2, <1>3, <1>4, <1>5, <1>6, <1>7 DEF SessionNext, Run

-----------------------------------------------------------------------------
(* The questions of the active calls, and the boxes they make way in *)

\* How many questions a call has asked: what it will return.
Count(f) == IF f.fn = "internal" THEN f.start - f.cnt2go ELSE f.ret

\* t[p] is what the p-th call of s and its callers have asked together.
Tally(t, s) == /\ t \in Seq(Int) /\ Len(t) = Len(s) + 1 /\ t[Len(t)] = 0
               /\ \A p \in 1 .. Len(s) : t[p] = Count(s[p]) + t[p + 1]
Tallies(s, n) == \E t : Tally(t, s) /\ t[1] = n

TalliesOK == /\ proc = "go" => pug = ugc - asked /\ report = NoReport /\ Tallies(stack, asked)
             /\ proc = "idle" /\ report # NoReport => report = asked

Makes(f, l) == f.fn = "move" /\ f.lv = l
Making(s, l) == \E p \in 1 .. Len(s) : Makes(s[p], l)

\* Every call for another box than the first makes way until there is room.
Patient(f) == f.fn = "move" /\ f.lv # 0 => f.at = "while"
RelievesOK == /\ \A p \in 1 .. Len(stack) : Patient(stack[p])
              /\ ~cut => \A l \in Asked \ {0} : Full(cnt, l) => Making(stack, l)

LEMMA CountTyped ==
    ASSUME NEW f \in Frames
    PROVE  /\ Count(f) \in Int
           /\ \A v \in Int : /\ Count(Resume(f, v)) = Count(f) + v
                             /\ \A l : Makes(f, l) <=> Makes(Resume(f, v), l)
                             /\ Patient(f) => Patient(Resume(f, v))
<1>1. CASE f \in GoFrames
  BY <1>1 DEF Count, GoFrames, Resume, Makes, Patient
<1>2. CASE f \in InternalFrames
  <2>1. f.start \in Int /\ f.cnt2go \in Int /\ f.fn = "internal" BY <1>2 DEF InternalFrames
  <2>2. ASSUME NEW v \in Int
        PROVE  Resume(f, v).fn = "internal" /\ Resume(f, v).start = f.start
               /\ Resume(f, v).cnt2go = f.cnt2go - v
    BY <1>2 DEF InternalFrames, Resume
  <2>3. QED BY <2>1, <2>2 DEF Count, Makes, Patient
<1>3. CASE f \in MoveFrames
  BY <1>3 DEF Count, MoveFrames, Resume, Makes, Patient
<1>4. QED BY <1>1, <1>2, <1>3, FrameKinds

LEMMA Pushed ==
    ASSUME NEW S, NEW s \in Seq(S), NEW f \in S
    PROVE  /\ <<f>> \o s \in Seq(S) /\ Len(<<f>> \o s) = Len(s) + 1 /\ Len(s) \in Nat
           /\ (<<f>> \o s)[1] = f
           /\ \A p \in 1 .. Len(s) : (<<f>> \o s)[p + 1] = s[p]
           /\ \A p \in 2 .. Len(s) + 1 : (<<f>> \o s)[p] = s[p - 1]
  OBVIOUS

LEMMA Popped ==
    ASSUME NEW S, NEW s \in Seq(S), s # <<>>
    PROVE  /\ Len(s) \in Nat \ {0} /\ Head(s) = s[1] /\ Head(s) \in S
           /\ Tail(s) \in Seq(S) /\ Len(Tail(s)) = Len(s) - 1
           /\ \A p \in 1 .. Len(s) - 1 : Tail(s)[p] = s[p + 1]
           /\ s = <<Head(s)>> \o Tail(s)
  OBVIOUS

\* What calls and returns do to the tally.
LEMMA TalliesOfNone == Tallies(<<>>, 0) /\ \A n : Tallies(<<>>, n) => n = 0
<1>1. Tally(<<0>>, <<>>) BY DEF Tally
<1>2. \A t : Tally(t, <<>>) => t[1] = 0 BY DEF Tally
<1>3. QED BY <1>1, <1>2 DEF Tallies

LEMMA TalliesPushed ==
    ASSUME NEW s \in Seq(Frames), NEW f \in Frames, NEW n \in Int, Tallies(s, n)
    PROVE  Tallies(<<f>> \o s, n + Count(f))
<1>1. PICK u : Tally(u, s) /\ u[1] = n BY DEF Tallies
<1> DEFINE m == n + Count(f)
           t == <<m>> \o u
           r == <<f>> \o s
<1>2. m \in Int BY CountTyped
<1>3. u \in Seq(Int) /\ Len(u) = Len(s) + 1 /\ u[Len(u)] = 0 BY <1>1 DEF Tally
<1> HIDE DEF m
<1>4. /\ t \in Seq(Int) /\ Len(t) = Len(u) + 1 /\ t[1] = m
      /\ \A p \in 1 .. Len(u) : t[p + 1] = u[p]
      /\ \A p \in 2 .. Len(u) + 1 : t[p] = u[p - 1]
  BY <1>2, <1>3, Pushed
<1>5. /\ Len(r) = Len(s) + 1 /\ Len(s) \in Nat /\ r[1] = f
      /\ \A p \in 2 .. Len(s) + 1 : r[p] = s[p - 1]
  BY Pushed
<1> HIDE DEF t, r
<1>6. t[Len(t)] = 0 BY <1>3, <1>4, <1>5
<1>7. ASSUME NEW p \in 1 .. Len(r) PROVE t[p] = Count(r[p]) + t[p + 1]
  <2>1. CASE p = 1
    <3>1. t[2] = u[1] BY <1>3, <1>4, <1>5
    <3>2. m = n + Count(f) /\ Count(f) \in Int BY CountTyped DEF m
    <3>3. QED BY <2>1, <3>1, <3>2, <1>1, <1>4, <1>5
  <2>2. CASE p # 1
    <3>1. p - 1 \in 1 .. Len(s) /\ p \in 2 .. Len(s) + 1 /\ p \in 1 .. Len(u) /\ p \in 2 .. Len(u) + 1
      BY <2>2, <1>3, <1>5
    <3>2. r[p] = s[p - 1] /\ t[p] = u[p - 1] /\ t[p + 1] = u[p] BY <3>1, <1>4, <1>5
    <3>3. u[p - 1] = Count(s[p - 1]) + u[(p - 1) + 1] BY <3>1, <1>1 DEF Tally
    <3>4. (p - 1) + 1 = p BY <3>1
    <3>5. QED BY <3>2, <3>3, <3>4
  <2>3. QED BY <2>1, <2>2
<1>8. Tally(t, r) BY <1>3, <1>4, <1>5, <1>6, <1>7 DEF Tally
<1>9. QED BY <1>4, <1>8 DEF Tallies, m, r

LEMMA TalliesPopped ==
    ASSUME NEW s \in Seq(Frames), s # <<>>, NEW n \in Int, Tallies(s, n)
    PROVE  Tallies(Tail(s), n - Count(Head(s)))
<1>1. PICK t : Tally(t, s) /\ t[1] = n BY DEF Tallies
<1> DEFINE u == Tail(t)
           r == Tail(s)
<1>2. t \in Seq(Int) /\ Len(t) = Len(s) + 1 /\ t[Len(t)] = 0 BY <1>1 DEF Tally
<1>3. /\ Len(s) \in Nat \ {0} /\ Head(s) = s[1] /\ Head(s) \in Frames /\ Len(r) = Len(s) - 1
      /\ \A p \in 1 .. Len(s) - 1 : r[p] = s[p + 1]
  BY Popped
<1>4. t # <<>> BY <1>2, <1>3
<1>5. u \in Seq(Int) /\ Len(u) = Len(t) - 1 /\ \A p \in 1 .. Len(t) - 1 : u[p] = t[p + 1]
  BY <1>2, <1>4, Popped
<1> HIDE DEF u, r
<1>6. u[Len(u)] = 0 BY <1>2, <1>3, <1>5
<1>7. ASSUME NEW p \in 1 .. Len(r) PROVE u[p] = Count(r[p]) + u[p + 1]
  <2>1. p + 1 \in 1 .. Len(s) /\ p \in 1 .. Len(s) - 1 /\ p \in 1 .. Len(t) - 1
        /\ p + 1 \in 1 .. Len(t) - 1
    BY <1>2, <1>3
  <2>2. t[p + 1] = Count(s[p + 1]) + t[(p + 1) + 1] BY <2>1, <1>1 DEF Tally
  <2>3. QED BY <2>1, <2>2, <1>3, <1>5
<1>8. u[1] = n - Count(Head(s))
  <2>1. t[1] = Count(s[1]) + t[1 + 1] BY <1>1, <1>3 DEF Tally
  <2>2. u[1] = t[1 + 1] /\ t[1 + 1] \in Int BY <1>2, <1>3, <1>5
  <2>3. Count(s[1]) \in Int BY <1>3, CountTyped
  <2>4. QED BY <2>1, <2>2, <2>3, <1>1, <1>3
<1>9. Tally(u, r) BY <1>2, <1>3, <1>5, <1>6, <1>7 DEF Tally
<1>10. QED BY <1>8, <1>9 DEF Tallies, r

\* What they do to the calls that make way.
LEMMA MakingPushed ==
    ASSUME NEW s \in Seq(Frames), NEW f \in Frames
    PROVE  /\ \A l : Making(<<f>> \o s, l) <=> Makes(f, l) \/ Making(s, l)
           /\ (\A p \in 1 .. Len(<<f>> \o s) : Patient((<<f>> \o s)[p]))
                 <=> Patient(f) /\ \A p \in 1 .. Len(s) : Patient(s[p])
<1> DEFINE r == <<f>> \o s
<1>1. /\ Len(r) = Len(s) + 1 /\ Len(s) \in Nat /\ r[1] = f
      /\ \A p \in 1 .. Len(s) : r[p + 1] = s[p]
      /\ \A p \in 2 .. Len(s) + 1 : r[p] = s[p - 1]
  BY Pushed
<1> HIDE DEF r
<1>2. 1 \in 1 .. Len(r) /\ \A p \in 1 .. Len(s) : p + 1 \in 1 .. Len(r) BY <1>1
<1>3. \A p \in 1 .. Len(r) : p = 1 \/ (p \in 2 .. Len(s) + 1 /\ p - 1 \in 1 .. Len(s)) BY <1>1
<1>4. \A l : Making(r, l) <=> Makes(f, l) \/ Making(s, l) BY <1>1, <1>2, <1>3 DEF Making
<1>5. (\A p \in 1 .. Len(r) : Patient(r[p])) <=> Patient(f) /\ \A p \in 1 .. Len(s) : Patient(s[p])
  BY <1>1, <1>2, <1>3
<1>6. QED BY <1>4, <1>5 DEF r

-----------------------------------------------------------------------------
(* Calls and returns keep the tally and the calls that make way *)

\* f stands in for the call g: as many questions asked, the same way made.
Alike(f, g) == /\ Count(f) = Count(g)
               /\ Patient(g) => Patient(f)
               /\ \A l : Makes(g, l) => Makes(f, l)

FullKept == \A l \in Asked \ {0} : Full(cnt', l) => Full(cnt, l)

LEMMA StackSplit ==
    ASSUME StackOK, proc = "go"
    PROVE  /\ stack \in Seq(Frames) /\ stack # <<>> /\ stack = <<Top>> \o Callers
           /\ Top \in Frames /\ Callers \in Seq(Frames)
<1>1. stack \in Seq(Frames) /\ stack # <<>> BY DEF StackOK
<1>2. QED BY <1>1, Popped DEF Top, Callers

LEMMA TwoPushed ==
    ASSUME NEW S, NEW s \in Seq(S), NEW f \in S, NEW g \in S
    PROVE  <<g, f>> \o s = <<g>> \o (<<f>> \o s) /\ <<f>> \o s \in Seq(S)
  OBVIOUS

LEMMA TallyOfContinue ==
    ASSUME StackOK, proc = "go", NEW n \in Int, Tallies(stack, n), NEW f \in Frames,
           Continue(f)
    PROVE  Tallies(stack', n - Count(Top) + Count(f))
<1>1. stack \in Seq(Frames) /\ stack # <<>> /\ Top \in Frames /\ Callers \in Seq(Frames)
  BY StackSplit
<1>2. Tallies(Callers, n - Count(Top)) BY <1>1, TalliesPopped DEF Top, Callers
<1>3. n - Count(Top) \in Int BY <1>1, CountTyped
<1>4. QED BY <1>1, <1>2, <1>3, TalliesPushed DEF Continue

LEMMA TallyOfCall ==
    ASSUME StackOK, proc = "go", NEW n \in Int, Tallies(stack, n), NEW g \in Frames,
           NEW f \in Frames, Call(g, f)
    PROVE  Tallies(stack', n - Count(Top) + Count(f) + Count(g))
<1>1. stack \in Seq(Frames) /\ stack # <<>> /\ Top \in Frames /\ Callers \in Seq(Frames)
  BY StackSplit
<1>2. Tallies(Callers, n - Count(Top)) BY <1>1, TalliesPopped DEF Top, Callers
<1>03. Count(Top) \in Int /\ Count(f) \in Int BY <1>1, CountTyped
<1>3. n - Count(Top) \in Int /\ n - Count(Top) + Count(f) \in Int BY <1>03
<1>4. stack' = <<g>> \o (<<f>> \o Callers) /\ <<f>> \o Callers \in Seq(Frames)
  BY <1>1, TwoPushed DEF Call
<1>5. Tallies(<<f>> \o Callers, n - Count(Top) + Count(f)) BY <1>1, <1>2, <1>3, TalliesPushed
<1>6. QED BY <1>3, <1>4, <1>5, TalliesPushed

LEMMA TallyOfReturn ==
    ASSUME StackOK, proc = "go", NEW n \in Int, Tallies(stack, n), Return(Count(Top))
    PROVE  IF Callers = <<>> THEN report' = n /\ proc' = "idle"
                             ELSE Tallies(stack', n) /\ UNCHANGED <<proc, report>>
<1>1. stack \in Seq(Frames) /\ stack # <<>> /\ Top \in Frames /\ Callers \in Seq(Frames)
  BY StackSplit
<1>2. Tallies(Callers, n - Count(Top)) BY <1>1, TalliesPopped DEF Top, Callers
<1>3. Count(Top) \in Int /\ n - Count(Top) \in Int BY <1>1, CountTyped
<1>4. CASE Callers = <<>>
  <2>1. n - Count(Top) = 0 BY <1>2, <1>4, TalliesOfNone
  <2>2. QED BY <2>1, <1>3, <1>4 DEF Return
<1>5. CASE Callers # <<>>
  <2> DEFINE h == Head(Callers)
             r == Tail(Callers)
             m == n - Count(Top) - Count(h)
  <2>1. h \in Frames /\ r \in Seq(Frames) BY <1>1, <1>5, Pop
  <2>2. Tallies(r, m) BY <1>1, <1>2, <1>3, <1>5, TalliesPopped
  <2>3. /\ Count(h) \in Int /\ Resume(h, Count(Top)) \in Frames
        /\ Count(Resume(h, Count(Top))) = Count(h) + Count(Top)
    BY <2>1, <1>3, CountTyped, ResumeTyped
  <2>4. stack' = <<Resume(h, Count(Top))>> \o r /\ UNCHANGED <<proc, report>>
    BY <1>5 DEF Return
  <2>5. m \in Int /\ m + (Count(h) + Count(Top)) = n BY <1>3, <2>3
  <2> HIDE DEF h, r, m
  <2>6. Tallies(stack', m + Count(Resume(h, Count(Top)))) BY <2>1, <2>2, <2>3, <2>4, <2>5, TalliesPushed
  <2>7. QED BY <2>3, <2>4, <2>5, <2>6, <1>5
<1>6. QED BY <1>4, <1>5

\* The active call goes on.
LEMMA Continues ==
    ASSUME StackOK, NumbersOK, TalliesOK, RelievesOK, proc = "go",
           NEW f \in Frames, Continue(f), Alike(f, Top),
           Calm, UNCHANGED <<pug, ugc, asked, cut>>, FullKept
    PROVE  TalliesOK' /\ RelievesOK'
<1>1. /\ stack = <<Top>> \o Callers /\ Top \in Frames /\ Callers \in Seq(Frames)
      /\ stack' = <<f>> \o Callers
  BY StackSplit DEF Continue
<1>2. TalliesOK'
  <2>1. asked \in Int /\ Tallies(stack, asked) /\ pug = ugc - asked BY DEF TalliesOK, NumbersOK
  <2>2. Tallies(stack', asked - Count(Top) + Count(f)) BY <2>1, TallyOfContinue
  <2>3. Count(Top) \in Int /\ Count(f) = Count(Top) BY <1>1, CountTyped DEF Alike
  <2>4. asked - Count(Top) + Count(f) = asked BY <2>1, <2>3
  <2>5. QED BY <2>1, <2>2, <2>4 DEF TalliesOK, Calm
<1>3. RelievesOK'
  <2>1. \A l : Making(stack, l) => Making(stack', l) BY <1>1, MakingPushed DEF Alike
  <2>2. \A p \in 1 .. Len(stack') : Patient(stack'[p])
    BY <1>1, MakingPushed DEF RelievesOK, Alike
  <2>3. QED BY <2>1, <2>2 DEF RelievesOK, FullKept
<1>4. QED BY <1>2, <1>3

\* The active call, gone on to f, calls g.
LEMMA Calls ==
    ASSUME StackOK, NumbersOK, TalliesOK, RelievesOK, proc = "go",
           NEW g \in Frames, NEW f \in Frames, Call(g, f), Alike(f, Top),
           Count(g) = 0, Patient(g),
           Calm, UNCHANGED <<pug, ugc, asked, cut>>, FullKept
    PROVE  TalliesOK' /\ RelievesOK'
<1>1. /\ stack = <<Top>> \o Callers /\ Top \in Frames /\ Callers \in Seq(Frames)
      /\ stack' = <<g>> \o (<<f>> \o Callers) /\ <<f>> \o Callers \in Seq(Frames)
  BY StackSplit, TwoPushed DEF Call
<1>2. TalliesOK'
  <2>1. asked \in Int /\ Tallies(stack, asked) /\ pug = ugc - asked BY DEF TalliesOK, NumbersOK
  <2>2. Tallies(stack', asked - Count(Top) + Count(f) + Count(g)) BY <2>1, TallyOfCall
  <2>3. Count(Top) \in Int /\ Count(f) = Count(Top) BY <1>1, CountTyped DEF Alike
  <2>4. asked - Count(Top) + Count(f) + Count(g) = asked BY <2>1, <2>3
  <2>5. QED BY <2>1, <2>2, <2>4 DEF TalliesOK, Calm
<1>3. RelievesOK'
  <2>1. \A l : Making(stack, l) => Making(stack', l) BY <1>1, MakingPushed DEF Alike
  <2>2. \A p \in 1 .. Len(stack') : Patient(stack'[p])
    <3>1. PICK c, r : c = Callers /\ r = <<f>> \o c OBVIOUS
    <3>2. c \in Seq(Frames) /\ Top \in Frames /\ stack = <<Top>> \o c BY <1>1, <3>1
    <3>3. Patient(Top) /\ \A p \in 1 .. Len(c) : Patient(c[p])
      <4>1. \A p \in 1 .. Len(<<Top>> \o c) : Patient((<<Top>> \o c)[p])
        BY <3>2 DEF RelievesOK
      <4>2. QED BY <3>2, <4>1, MakingPushed
    <3>4. Patient(f) BY <3>3 DEF Alike
    <3>5. \A p \in 1 .. Len(r) : Patient(r[p]) BY <3>1, <3>2, <3>3, <3>4, MakingPushed
    <3>6. r \in Seq(Frames) /\ stack' = <<g>> \o r BY <1>1, <3>1
    <3>7. QED BY <3>5, <3>6, MakingPushed
  <2>3. QED BY <2>1, <2>2 DEF RelievesOK, FullKept
<1>4. QED BY <1>2, <1>3

\* The active call returns what it has asked; if it was making way in a box
\* above the first, there is room.
LEMMA ReturnsWell ==
    ASSUME StackOK, NumbersOK, TalliesOK, RelievesOK, proc = "go",
           Return(Count(Top)), UNCHANGED <<cnt, pug, ugc, asked, cut>>,
           \A l \in Asked \ {0} : Makes(Top, l) => ~Full(cnt, l)
    PROVE  TalliesOK' /\ RelievesOK'
<1>1. /\ stack = <<Top>> \o Callers /\ Top \in Frames /\ Callers \in Seq(Frames)
      /\ asked \in Int /\ Tallies(stack, asked) /\ pug = ugc - asked
  BY StackSplit DEF TalliesOK, NumbersOK
<1>2. Count(Top) \in Int BY <1>1, CountTyped
<1>3. TalliesOK' BY <1>1, TallyOfReturn DEF TalliesOK, NoReport
<1>4. /\ \A p \in 1 .. Len(Callers) : Patient(Callers[p])
      /\ \A l : Making(stack, l) <=> Makes(Top, l) \/ Making(Callers, l)
  BY <1>1, MakingPushed DEF RelievesOK
<1>5. /\ \A p \in 1 .. Len(stack') : Patient(stack'[p])
      /\ \A l : Making(Callers, l) => Making(stack', l)
  <2>1. CASE Callers = <<>>
    <3>1. stack' = Callers BY <2>1 DEF Return
    <3>2. QED BY <3>1, <1>4
  <2>2. CASE Callers # <<>>
    <3> DEFINE h == Head(Callers)
               r == Tail(Callers)
               k == Resume(h, Count(Top))
    <3>1. h \in Frames /\ r \in Seq(Frames) /\ Callers = <<h>> \o r BY <1>1, <2>2, Popped
    <3>2. stack' = <<k>> \o r BY <2>2 DEF Return
    <3>3. k \in Frames /\ (Patient(h) => Patient(k)) /\ \A l : Makes(h, l) <=> Makes(k, l)
      BY <3>1, <1>2, CountTyped, ResumeTyped
    <3> HIDE DEF h, r, k
    <3>4. Patient(h) /\ \A p \in 1 .. Len(r) : Patient(r[p]) BY <3>1, <1>4, MakingPushed
    <3>5. \A p \in 1 .. Len(stack') : Patient(stack'[p]) BY <3>1, <3>2, <3>3, <3>4, MakingPushed
    <3>6. \A l : Making(Callers, l) <=> Makes(h, l) \/ Making(r, l) BY <3>1, MakingPushed
    <3>7. \A l : Making(stack', l) <=> Makes(k, l) \/ Making(r, l) BY <3>1, <3>2, <3>3, MakingPushed
    <3>8. QED BY <3>3, <3>5, <3>6, <3>7
  <2>3. QED BY <2>1, <2>2
<1>6. QED BY <1>3, <1>4, <1>5 DEF RelievesOK

-----------------------------------------------------------------------------
(* The actions keep the tally and the calls that make way *)

LEMMA LoadKeepsFull ==
    ASSUME DataOK, NEW n, DoLoad(n)
    PROVE  FullKept
<1>1. cnt \in [Levels -> Nat] /\ Asked \subseteq Levels BY ConstantFacts DEF DataOK
<1>2. \A l \in Asked \ {0} : cnt'[l] = cnt[l] BY <1>1 DEF DoLoad
<1>3. QED BY <1>2 DEF FullKept, Full

LEMMA MoveKeepsFull ==
    ASSUME DataOK, NEW from \in Asked, cnt[from] # 0, NEW to \in Levels
    PROVE  \A l \in Asked \ {0} : l # to /\ Full(CountsMoved(from, to).c, l) => Full(cnt, l)
<1> SUFFICES ASSUME NEW l \in Asked \ {0}, l # to, Full(CountsMoved(from, to).c, l)
             PROVE  Full(cnt, l)
  OBVIOUS
<1> DEFINE c == CountsLeft(from).c
<1>1. l \in Levels /\ from \in Levels /\ l # MaxLevel /\ Limit[l] \in Nat BY ConstantFacts
<1>2. CountsMoved(from, to).c[l] = c[l] BY <1>1, CountsMovedFit
<1>3. cnt \in [Levels -> Nat] BY DEF DataOK
<1>4. c[l] \in Nat /\ c[l] <= cnt[l]
  <2>1. CASE busy[from] # 0
    <3>1. c = cnt BY <2>1 DEF CountsLeft
    <3>2. QED BY <3>1, <1>1, <1>3
  <2>2. CASE busy[from] = 0
    <3>1. c = [cnt EXCEPT ![from] = cnt[from] - 1] BY <2>2 DEF CountsLeft
    <3>2. QED BY <3>1, <1>1, <1>3
  <2>3. QED BY <2>1, <2>2
<1> HIDE DEF c
<1>5. ~(c[l] < Limit[l]) BY <1>2 DEF Full
<1>6. cnt[l] \in Nat BY <1>1, <1>3
<1>7. QED BY <1>1, <1>4, <1>5, <1>6 DEF Full

LEMMA AlikeGo ==
    ASSUME NEW f \in GoFrames, NEW g \in GoFrames, f.ret = g.ret
    PROVE  Alike(f, g)
  BY DEF Alike, GoFrames, Count, Patient, Makes

LEMMA NewCounts ==
    /\ \A l, t : Count(GoFrame(l, t)) = 0 /\ Patient(GoFrame(l, t))
    /\ \A l : \A n \in Int : Count(InternalFrame(l, n)) = 0 /\ Patient(InternalFrame(l, n))
    /\ \A l : Count(MoveFrame(l)) = 1 /\ Patient(MoveFrame(l)) /\ Makes(MoveFrame(l), l)
<1>1. \A l, t : Count(GoFrame(l, t)) = 0 /\ Patient(GoFrame(l, t))
  BY DEF GoFrame, Count, Patient
<1>2. ASSUME NEW l, NEW n \in Int
      PROVE  Count(InternalFrame(l, n)) = 0 /\ Patient(InternalFrame(l, n))
  <2>1. Count(InternalFrame(l, n)) = n - n BY DEF InternalFrame, Count
  <2>2. QED BY <2>1 DEF InternalFrame, Patient
<1>3. \A l : Count(MoveFrame(l)) = 1 /\ Patient(MoveFrame(l)) /\ Makes(MoveFrame(l), l)
  BY DEF MoveFrame, Count, Patient, Makes
<1>4. QED BY <1>1, <1>2, <1>3

\* The tally and the calls that make way, together.
Accounted == TalliesOK /\ RelievesOK

LEMMA ReturnsAccounted ==
    ASSUME SessionInv, Accounted, InternalReturn \/ MoveReturn \/ GoStop \/ GoReturn
    PROVE  Accounted'
<1>0. StackOK /\ NumbersOK /\ TalliesOK /\ RelievesOK /\ UNCHANGED <<cnt, pug, ugc, asked, cut>>
  BY DEF SessionInv, Accounted, InternalReturn, MoveReturn, GoStop, GoReturn, data
<1>1. CASE InternalReturn
  <2>1. Top.fn = "internal" /\ proc = "go" BY <1>0, <1>1, TopTyped DEF InternalReturn
  <2>2. Return(Count(Top)) BY <1>1, <2>1 DEF InternalReturn, Count
  <2>3. \A l : ~Makes(Top, l) BY <2>1 DEF Makes
  <2>4. QED BY <1>0, <2>1, <2>2, <2>3, ReturnsWell DEF Accounted
<1>2. CASE MoveReturn
  <2>1. Top.fn = "move" /\ proc = "go" /\ Top.at \in {"while", "done"}
    BY <1>0, <1>2, TopTyped DEF MoveReturn
  <2>2. Return(Count(Top)) BY <1>2, <2>1 DEF MoveReturn, Count
  <2>3. Patient(Top)
    BY <1>0, <2>1, StackSplit, MakingPushed DEF RelievesOK
  <2>4. ASSUME NEW l \in Asked \ {0}, Makes(Top, l) PROVE ~Full(cnt, l)
    <3>1. Top.lv = l /\ l # 0 BY <2>4 DEF Makes
    <3>2. Top.at = "while" BY <2>1, <2>3, <3>1 DEF Patient
    <3>3. ~In("move", "done") BY <3>2 DEF In
    <3>4. QED BY <1>2, <3>1, <3>3 DEF MoveReturn
  <2>5. QED BY <1>0, <2>1, <2>2, <2>4, ReturnsWell DEF Accounted
<1>3. CASE GoStop \/ GoReturn
  <2>1. Top.fn = "go_lbox" /\ proc = "go" BY <1>0, <1>3, TopTyped DEF GoStop, GoReturn
  <2>2. Return(Count(Top)) BY <1>3, <2>1 DEF GoStop, GoReturn, Count
  <2>3. \A l : ~Makes(Top, l) BY <2>1 DEF Makes
  <2>4. QED BY <1>0, <2>1, <2>2, <2>3, ReturnsWell DEF Accounted
<1>4. QED BY <1>1, <1>2, <1>3

LEMMA MakesWayAccounted ==
    ASSUME SessionInv, Accounted, MakeWay
    PROVE  Accounted'
<1>0. /\ StackOK /\ NumbersOK /\ TalliesOK /\ RelievesOK /\ Calm
      /\ UNCHANGED <<pug, ugc, asked, cut>> /\ FullKept
  BY DEF SessionInv, Accounted, MakeWay, data, FullKept
<1>1. Top \in MoveFrames /\ Top \in Frames /\ proc = "go" /\ Top.fn = "move" /\ Top.at = "while"
  BY <1>0, TopTyped, FrameKinds DEF MakeWay
<1> DEFINE f == Goto(MakeWayAt(Top.lv))
           g == GoFrame(Top.lv, "MAKEWAY")
<1>2. f \in Frames BY <1>1, GotoTyped DEF MakeWayAt
<1>3. g \in Frames BY <1>1, NewFrames DEF MoveFrames, GoTypes
<1>4. f.fn = "move" /\ f.lv = Top.lv /\ f.ret = Top.ret /\ (Top.lv # 0 => f.at = "while")
  BY <1>1 DEF MoveFrames, Goto, MakeWayAt
<1>5. Call(g, f) BY DEF MakeWay
<1>6. Count(g) = 0 /\ Patient(g) BY NewCounts
<1> HIDE DEF f, g
<1>7. Alike(f, Top) BY <1>1, <1>4 DEF Alike, Count, Patient, Makes
<1>8. QED BY <1>0, <1>1, <1>2, <1>3, <1>5, <1>6, <1>7, Calls DEF Accounted

LEMMA GoesOnAccounted ==
    ASSUME SessionInv, Accounted, GoEnter \/ GoBox \/ GoMore \/ GoWhile \/ GoCircle \/ GoNext
    PROVE  Accounted'
<1>0. /\ StackOK /\ NumbersOK /\ TalliesOK /\ RelievesOK /\ Calm
      /\ UNCHANGED <<pug, ugc, asked, cut>> /\ FullKept
  BY DEF SessionInv, Accounted, GoEnter, GoBox, GoMore, GoWhile, GoCircle, GoNext, Internal,
         data, FullKept
<1>1. Top \in GoFrames /\ Top \in Frames /\ proc = "go" /\ Top.fn = "go_lbox"
  BY <1>0, TopTyped, FrameKinds DEF GoEnter, GoBox, GoMore, GoWhile, GoCircle, GoNext
<1>2. Top.lv \in Asked /\ Top.type \in GoTypes /\ Top.i \in Asked /\ Top.j \in Asked
  BY <1>1 DEF GoFrames
<1>3. ASSUME NEW f \in GoFrames, f.ret = Top.ret, Continue(f) PROVE Accounted'
  BY <1>0, <1>1, <1>3, AlikeGo, KindsAreFrames, Continues DEF Accounted
<1>4. ASSUME NEW f \in GoFrames, f.ret = Top.ret, NEW g \in Frames, Count(g) = 0, Patient(g),
             Call(g, f)
      PROVE  Accounted'
  BY <1>0, <1>1, <1>4, AlikeGo, KindsAreFrames, Calls DEF Accounted
<1>5. \A a \in {"box", "more", "load", "next"} : Goto(a) \in GoFrames /\ Goto(a).ret = Top.ret
  BY <1>1 DEF Goto, GoFrames
<1>6. CASE GoEnter
  <2>1. CASE Full(cnt, Top.lv + 1)
    <3>1. Top.lv + 1 \in Asked BY <2>1, <1>2, ConstantFacts DEF Full
    <3>2. GoFrame(Top.lv + 1, Top.type) \in Frames BY <3>1, <1>2, NewFrames
    <3>3. Call(GoFrame(Top.lv + 1, Top.type), Goto("box")) BY <1>6, <2>1 DEF GoEnter
    <3>4. QED BY <1>4, <1>5, <3>2, <3>3, NewCounts
  <2>2. CASE ~Full(cnt, Top.lv + 1)
    <3>1. Continue(Goto("box")) BY <1>6, <2>2 DEF GoEnter
    <3>2. QED BY <1>3, <1>5, <3>1
  <2>3. QED BY <2>1, <2>2
<1>7. CASE GoBox
  <2>1. MaxGo[Top.type][Top.lv] \in Int BY <1>2, ConstantFacts
  <2>2. Quota(MaxGo[Top.type][Top.lv]) \in Int BY <1>0, <2>1, QuotaTyped
  <2>3. InternalFrame(Top.lv, Quota(MaxGo[Top.type][Top.lv])) \in Frames
    BY <1>2, <2>2, NewFrames
  <2>4. Call(InternalFrame(Top.lv, Quota(MaxGo[Top.type][Top.lv])), Goto("more"))
    BY <1>7 DEF GoBox
  <2>5. QED BY <1>4, <1>5, <2>2, <2>3, <2>4, NewCounts
<1>8. CASE GoMore
  <2>1. CASE cnt[1] > ReloadMin
    <3>1. 1 \in Asked /\ 1 \in Levels /\ ReloadMin \in Int BY ConstantFacts
    <3>2. cnt[1] - ReloadMin \in Int BY <3>1 DEF SessionInv, DataOK
    <3>3. Quota(cnt[1] - ReloadMin) \in Int BY <1>0, <3>2, QuotaTyped
    <3>4. InternalFrame(1, Quota(cnt[1] - ReloadMin)) \in Frames BY <3>1, <3>3, NewFrames
    <3>5. Call(InternalFrame(1, Quota(cnt[1] - ReloadMin)), Goto("load")) BY <1>8, <2>1 DEF GoMore
    <3>6. QED BY <1>4, <1>5, <3>3, <3>4, <3>5, NewCounts
  <2>2. CASE ~(cnt[1] > ReloadMin)
    <3>1. Continue(Goto("load")) BY <1>8, <2>2 DEF GoMore
    <3>2. QED BY <1>3, <1>5, <3>1
  <2>3. QED BY <2>1, <2>2
<1>9. CASE GoWhile
  <2>1. [Top EXCEPT !.at = "for", !.i = 1, !.j = 0] \in GoFrames
    BY <1>1, ConstantFacts DEF GoFrames
  <2>2. [Top EXCEPT !.at = "for", !.i = 1, !.j = 0].ret = Top.ret BY <1>1 DEF GoFrames
  <2>3. Continue([Top EXCEPT !.at = "for", !.i = 1, !.j = 0]) BY <1>9 DEF GoWhile
  <2>4. QED BY <1>3, <2>1, <2>2, <2>3
<1>10. CASE GoCircle
  <2>1. CASE Top.k = 0
    <3>1. [Top EXCEPT !.k = 1, !.at = "next"] \in GoFrames BY <1>1 DEF GoFrames
    <3>2. [Top EXCEPT !.k = 1, !.at = "next"].ret = Top.ret BY <1>1 DEF GoFrames
    <3>3. Continue([Top EXCEPT !.k = 1, !.at = "next"]) BY <1>10, <2>1 DEF GoCircle
    <3>4. QED BY <1>3, <3>1, <3>2, <3>3
  <2>2. CASE Top.k # 0
    <3>1. GoFrame(Top.j, "CLEAN") \in Frames BY <1>2, NewFrames DEF GoTypes
    <3>2. Call(GoFrame(Top.j, "CLEAN"), Goto("next")) BY <1>10, <2>2 DEF GoCircle
    <3>3. QED BY <1>4, <1>5, <3>1, <3>2, NewCounts
  <2>3. QED BY <2>1, <2>2
<1>11. CASE GoNext
  <2>1. NextInCircle(Top) \in GoFrames BY <1>1, NextInCircleTyped
  <2>2. NextInCircle(Top).ret = Top.ret BY <1>1 DEF NextInCircle, GoFrames
  <2>3. Continue(NextInCircle(Top)) BY <1>11 DEF GoNext
  <2>4. QED BY <1>3, <2>1, <2>2, <2>3
<1>12. QED BY <1>6, <1>7, <1>8, <1>9, <1>10, <1>11

LEMMA LoadsAccounted ==
    ASSUME SessionInv, Accounted, GoLoad
    PROVE  Accounted'
<1> DEFINE n == LoadCount(NumPerLoad)
<1>0. /\ StackOK /\ NumbersOK /\ TalliesOK /\ RelievesOK /\ Calm
      /\ UNCHANGED <<pug, ugc, asked, cut>>
  BY DEF SessionInv, Accounted, GoLoad
<1>1. Top \in GoFrames /\ Top \in Frames /\ proc = "go" /\ Top.fn = "go_lbox"
  BY <1>0, TopTyped, FrameKinds DEF GoLoad
<1>2. DoLoad(n) /\ (n > 0 => Call(GoFrame(0, "PUSH"), Goto("return")))
      /\ (~(n > 0) => Continue(Goto("while")))
  BY DEF GoLoad
<1>3. FullKept BY <1>2, LoadKeepsFull DEF SessionInv
<1>4. \A a \in {"return", "while"} : Goto(a) \in GoFrames /\ Goto(a).ret = Top.ret
  BY <1>1 DEF Goto, GoFrames
<1>5. GoFrame(0, "PUSH") \in Frames BY NewFrames, ConstantFacts DEF GoTypes
<1> HIDE DEF n
<1>6. Alike(Goto("return"), Top) /\ Alike(Goto("while"), Top) BY <1>1, <1>4, AlikeGo
<1>7. Goto("return") \in Frames /\ Goto("while") \in Frames BY <1>4, KindsAreFrames
<1>8. CASE n > 0
  <2>1. Call(GoFrame(0, "PUSH"), Goto("return")) BY <1>2, <1>8
  <2>2. QED BY <1>0, <1>1, <1>3, <1>5, <1>6, <1>7, <2>1, NewCounts, Calls DEF Accounted
<1>9. CASE ~(n > 0)
  <2>1. Continue(Goto("while")) BY <1>2, <1>9
  <2>2. QED BY <1>0, <1>1, <1>3, <1>6, <1>7, <2>1, Continues DEF Accounted
<1>10. QED BY <1>8, <1>9

\* The answered VS may fill the box it moves to, and then move_to_lbox makes
\* way there.
LEMMA AnsweredAccounted ==
    ASSUME SessionInv, Accounted, NEW wrong_pos \in Answers, Answer(wrong_pos)
    PROVE  Accounted'
<1> DEFINE lv == Top.lv
           new == NewLevel(lv, wrong_pos)
           now == CountsMoved(lv, new)
<1>0. /\ StackOK /\ NumbersOK /\ TalliesOK /\ RelievesOK
      /\ Calm /\ asked' = asked + 1 /\ UNCHANGED <<ugc, cut>>
  BY DEF SessionInv, Accounted, Answer
<1>1. Top \in InternalFrames /\ Top \in Frames /\ proc = "go" /\ cnt[lv] # 0
  BY <1>0, TopTyped, FrameKinds DEF Answer, Asking
<1>2. lv \in Asked /\ Top.cnt2go \in Int /\ Top.start \in Int /\ Top.fn = "internal"
  BY <1>1 DEF InternalFrames
<1>3. new \in Targets(lv) BY DEF NewLevel, Targets
<1>4. new \in Levels BY <1>2, <1>3, ConstantFacts DEF Targets
<1>5. \A l \in Asked \ {0} : l # new /\ Full(cnt', l) => Full(cnt, l)
  <2>1. cnt' = now.c BY DEF Answer
  <2>2. QED BY <1>1, <1>2, <1>4, <2>1, MoveKeepsFull DEF SessionInv
<1>6. /\ Full(cnt', new) => Call(MoveFrame(new), Top) /\ pug' = pug - 1
      /\ ~Full(cnt', new) => AccountHere
  BY DEF Answer, GoOnToMakeWay
<1>7. /\ asked \in Int /\ Tallies(stack, asked) /\ pug = ugc - asked /\ ugc \in Int
      /\ Count(Top) \in Int
  BY <1>0, <1>1, CountTyped DEF TalliesOK, NumbersOK
<1>8. /\ stack = <<Top>> \o Callers /\ Callers \in Seq(Frames)
  BY <1>0, <1>1, StackSplit
<1> HIDE DEF new, now
<1>9. CASE Full(cnt', new)
  <2>1. new \in Asked BY <1>4, <1>9, ConstantFacts DEF Full
  <2>2. /\ MoveFrame(new) \in Frames /\ Count(MoveFrame(new)) = 1 /\ Patient(MoveFrame(new))
        /\ Makes(MoveFrame(new), new)
    BY <2>1, NewFrames, NewCounts
  <2>3. Call(MoveFrame(new), Top) /\ pug' = pug - 1 BY <1>6, <1>9
  <2>4. Tallies(stack', asked - Count(Top) + Count(Top) + 1)
    BY <1>0, <1>1, <1>7, <2>2, <2>3, TallyOfCall
  <2>5. asked - Count(Top) + Count(Top) + 1 = asked + 1 BY <1>7
  <2>6. TalliesOK' BY <1>0, <1>1, <1>7, <2>3, <2>4, <2>5 DEF TalliesOK, Calm
  <2>7. stack' = <<MoveFrame(new)>> \o stack /\ stack \in Seq(Frames)
    BY <1>1, <1>8, <2>2, <2>3, TwoPushed DEF Call, StackOK
  <2>8. /\ \A l : Making(stack', l) <=> Makes(MoveFrame(new), l) \/ Making(stack, l)
        /\ \A p \in 1 .. Len(stack') : Patient(stack'[p])
    BY <1>0, <2>2, <2>7, MakingPushed DEF RelievesOK
  <2>9. RelievesOK' BY <1>0, <1>5, <2>2, <2>8 DEF RelievesOK
  <2>10. QED BY <2>6, <2>9 DEF Accounted
<1>10. CASE ~Full(cnt', new)
  <2> DEFINE f == [Top EXCEPT !.cnt2go = @ - 1, !.at = IF pug = 1 THEN "break" ELSE @]
  <2>1. Continue(f) /\ pug' = pug - 1 BY <1>6, <1>10 DEF AccountHere
  <2>2. f \in InternalFrames BY <1>1, AccountTyped
  <2>3. f.fn = "internal" /\ f.start = Top.start /\ f.cnt2go = Top.cnt2go - 1
    BY <1>1 DEF InternalFrames
  <2> HIDE DEF f
  <2>4. f \in Frames /\ Count(f) = Count(Top) + 1 /\ Patient(f) /\ \A l : ~Makes(Top, l)
    BY <1>2, <2>2, <2>3, KindsAreFrames DEF Count, Patient, Makes
  <2>5. Tallies(stack', asked - Count(Top) + Count(f)) BY <1>0, <1>1, <1>7, <2>1, <2>4, TallyOfContinue
  <2>6. asked - Count(Top) + Count(f) = asked + 1 BY <1>7, <2>4
  <2>7. TalliesOK' BY <1>0, <1>1, <1>7, <2>1, <2>5, <2>6 DEF TalliesOK, Calm
  <2>8. stack' = <<f>> \o Callers BY <2>1 DEF Continue
  <2>9. /\ \A l : Making(stack', l) <=> Makes(f, l) \/ Making(Callers, l)
        /\ (\A p \in 1 .. Len(stack') : Patient(stack'[p]))
              <=> Patient(f) /\ \A p \in 1 .. Len(Callers) : Patient(Callers[p])
    BY <1>8, <2>4, <2>8, MakingPushed
  <2>10. /\ \A l : Making(stack, l) <=> Makes(Top, l) \/ Making(Callers, l)
         /\ \A p \in 1 .. Len(Callers) : Patient(Callers[p])
    BY <1>0, <1>1, <1>8, MakingPushed DEF RelievesOK
  <2>11. RelievesOK'
    <3>1. \A p \in 1 .. Len(stack') : Patient(stack'[p]) BY <2>4, <2>9, <2>10
    <3>2. \A l : Making(stack, l) => Making(stack', l) BY <2>4, <2>9, <2>10
    <3>3. QED BY <1>0, <1>5, <1>10, <3>1, <3>2 DEF RelievesOK
  <2>12. QED BY <2>7, <2>11 DEF Accounted
<1>11. QED BY <1>9, <1>10

LEMMA PromptAccounted ==
    ASSUME SessionInv, Accounted, CmdLoad \/ CmdGo \/ CmdExit \/ Restart \/ Interrupt \/ Eof
    PROVE  Accounted'
<1>0. StackOK /\ NumbersOK /\ TalliesOK /\ RelievesOK BY DEF SessionInv, Accounted
<1>1. CASE CmdLoad
  <2>1. UNCHANGED control BY <1>1 DEF CmdLoad
  <2>2. FullKept
    <3>1. PICK arg \in LoadArgs : DoLoad(LoadCount(arg)) BY <1>1 DEF CmdLoad
    <3>2. QED BY <3>1, LoadKeepsFull DEF SessionInv
  <2>3. TalliesOK' BY <1>0, <2>1 DEF control, TalliesOK
  <2>4. RelievesOK' BY <1>0, <2>1, <2>2 DEF control, RelievesOK, FullKept
  <2>5. QED BY <2>3, <2>4 DEF Accounted
<1>2. CASE CmdGo
  <2>1. /\ stack = <<>> /\ asked' = 0 /\ pug' = ugc' /\ ugc' \in Int /\ proc' = "go"
        /\ stack' = <<GoFrame(0, "PUSH")>> /\ UNCHANGED <<cnt, cut>>
    BY <1>0, <1>2, SessionAssumption DEF CmdGo, StackOK, data
  <2>2. GoFrame(0, "PUSH") \in Frames BY NewFrames, ConstantFacts DEF GoTypes
  <2>3. stack' = <<GoFrame(0, "PUSH")>> \o <<>> /\ <<>> \in Seq(Frames) BY <2>1, <2>2
  <2>4. Count(GoFrame(0, "PUSH")) = 0 /\ Patient(GoFrame(0, "PUSH")) BY NewCounts
  <2>5. Tallies(stack', 0)
    <3> DEFINE g == GoFrame(0, "PUSH")
    <3>1. Tallies(<<>>, 0) BY TalliesOfNone
    <3>2. g \in Frames /\ Count(g) = 0 /\ <<>> \in Seq(Frames) /\ 0 \in Int BY <2>2, <2>3, <2>4
    <3> HIDE DEF g
    <3>3. Tallies(<<g>> \o <<>>, 0 + Count(g)) BY <3>1, <3>2, TalliesPushed
    <3>4. 0 + Count(g) = 0 BY <3>2
    <3>5. QED BY <2>3, <3>3, <3>4 DEF g
  <2>6. TalliesOK'
    <3>1. report' = NoReport BY <1>2 DEF CmdGo
    <3>2. pug' = ugc' - asked'
      <4>1. PICK n \in GoArgs : pug' = n /\ ugc' = n BY <1>2 DEF CmdGo
      <4>2. n \in Int /\ n - 0 = n BY SessionAssumption
      <4>3. QED BY <2>1, <4>1, <4>2
    <3>3. QED BY <2>1, <2>5, <3>1, <3>2 DEF TalliesOK
  <2>7. /\ \A p \in 1 .. Len(stack') : Patient(stack'[p])
        /\ \A l : ~Making(stack, l)
    BY <2>1, <2>4 DEF Making
  <2>8. RelievesOK' BY <1>0, <2>1, <2>7 DEF RelievesOK
  <2>9. QED BY <2>6, <2>8 DEF Accounted
<1>3. CASE CmdExit \/ Restart
  <2>1. stack' = stack /\ cnt' = cnt /\ cut' = cut /\ proc' # "go"
        /\ (proc' = "idle" => report' = NoReport)
    BY <1>3 DEF CmdExit, Restart, data
  <2>2. QED BY <1>0, <2>1 DEF Accounted, TalliesOK, RelievesOK
<1>4. CASE Interrupt \/ Eof
  <2>1. stack' = <<>> /\ cut' = TRUE /\ proc = "go" /\ proc' \in {"idle", "down"}
        /\ report' = report
    BY <1>4 DEF Interrupt, Eof, Asking, In
  <2>2. report = NoReport BY <1>0, <2>1 DEF TalliesOK
  <2>3. \A p \in 1 .. Len(stack') : Patient(stack'[p]) BY <2>1
  <2>4. QED BY <1>0, <2>1, <2>2, <2>3 DEF Accounted, TalliesOK, RelievesOK
<1>5. QED BY <1>1, <1>2, <1>3, <1>4

\* Initially and by every step.
LEMMA InitAccounted == SessionInit => Accounted
  BY ConstantFacts DEF SessionInit, Accounted, TalliesOK, RelievesOK, Full, NoReport

LEMMA StepAccounted ==
    SessionInv /\ Accounted /\ [SessionNext]_vars => Accounted'
<1> SUFFICES ASSUME SessionInv, Accounted, [SessionNext]_vars PROVE Accounted'
  OBVIOUS
<1>1. CASE CmdLoad \/ CmdGo \/ CmdExit \/ Restart \/ Interrupt \/ Eof
  BY <1>1, PromptAccounted
<1>2. CASE \E wrong_pos \in Answers : Answer(wrong_pos)
  BY <1>2, AnsweredAccounted
<1>3. CASE InternalReturn \/ MoveReturn \/ GoStop \/ GoReturn
  BY <1>3, ReturnsAccounted
<1>4. CASE MakeWay BY <1>4, MakesWayAccounted
<1>5. CASE GoEnter \/ GoBox \/ GoMore \/ GoWhile \/ GoCircle \/ GoNext
  BY <1>5, GoesOnAccounted
<1>6. CASE GoLoad BY <1>6, LoadsAccounted
<1>7. CASE UNCHANGED vars
  BY <1>7 DEF vars, control, data, Accounted, TalliesOK, RelievesOK
<1>8. QED BY <1>1, <1>2, <1>3, <1>4, <1>5, <1>6, <1>7 DEF SessionNext, Run

-----------------------------------------------------------------------------
(* What a session comes back with when every answer sends its VS one box    *)
(* up.  The stack then has layers: the calls of go_lbox for box 0, of which *)
(* only the topmost is not waiting for another one, and above it the calls  *)
(* for other boxes, which load nothing.                                     *)

\* The user answers right, at the last of the three tries at least, and
\* num_per_load is a number of VSes to load.
KnowsAll == Answers \subseteq {-1, 3} /\ NumPerLoad > 0

\* go_lbox for box 0 does not make way.
ForBoxZero(f) == f.fn = "go_lbox" /\ f.lv = 0 /\ f.type # "MAKEWAY"

\* It waits for another call for box 0: after a load, or in the circles.
Waits(f) == ForBoxZero(f) /\ f.at \in {"return", "next"}

\* A call that loads nothing.
Aside(f) == /\ f.fn = "go_lbox" => f.lv # 0 /\ f.at \in {"enter", "box", "more"}
            /\ f.fn = "move" => f.lv # 0

\* s[k] is the topmost call for box 0.
Layered(s, k) == /\ k \in 1 .. Len(s) /\ ForBoxZero(s[k])
                 /\ k # 1 => s[k].at # "return"
                 /\ \A p \in 1 .. Len(s) : /\ p < k => Aside(s[p])
                                           /\ p > k => Waits(s[p])

\* A call that has found nothing left to load, and one that is in the circles.
LoadedAll(f) == f.fn = "go_lbox" /\ f.at \in {"while", "for", "next"}
InCircles(f) == f.fn = "go_lbox" /\ f.at \in {"for", "next"}
HasLoadedAll(s) == \E p \in 1 .. Len(s) : LoadedAll(s[p])
HasCircles(s)   == \E p \in 1 .. Len(s) : InCircles(s[p])

\* The user's number is reached and the calls for box 0 come back one by one.
Unwinds(k) == NumberReached /\ k = 1 /\ Waits(stack[1])

CirclesOK(k) == /\ HasLoadedAll(stack) => loaded = Total
                /\ firstwhile = 1 => HasCircles(stack) \/ Unwinds(k)

\* The question loop of box 0, which is about to ask for its first VS, and one
\* to which the user's number leaves nothing.
Fresh(f) == f.fn = "internal" /\ f.lv = 0 /\ f.at = "loop" /\ f.cnt2go # 0
Spent(f) == f.fn = "internal" /\ f.cnt2go = 0

\* Before it loads, a call for box 0 has made room there.
RoomOK(k) == stack[k].at \in {"more", "load"} =>
                 \/ cnt[0] < Limit[0]
                 \/ k = 2 /\ Fresh(stack[1])
                 \/ NumberReached /\ (k = 1 \/ (k = 2 /\ Spent(stack[1])))

\* With nothing more to load, the circles end when all is in the last box.
LearntOK(k) == k = 1 /\ stack[1].at = "return" /\ firstwhile = 0 /\ ~NumberReached
                  => cnt[MaxLevel] >= Total

\* What holds of the stack while the user learns, and of the boxes with it.
Lesson(k) == Layered(stack, k) /\ CirclesOK(k) /\ RoomOK(k) /\ LearntOK(k)

Learning == /\ busy[0] = 0
            /\ proc = "go" => \E k \in Nat : Lesson(k)
            /\ proc = "idle" /\ report # NoReport =>
                   (ugc > 0 /\ asked = ugc) \/ cnt[MaxLevel] >= Total

\* The layers under calls and returns.
LEMMA LayersPushed ==
    ASSUME NEW s \in Seq(Frames), NEW g \in Frames, NEW k \in Nat, Layered(s, k),
           Aside(g), s[k].at # "return"
    PROVE  Layered(<<g>> \o s, k + 1) /\ (<<g>> \o s)[k + 1] = s[k]
<1> DEFINE r == <<g>> \o s
<1>1. /\ Len(r) = Len(s) + 1 /\ Len(s) \in Nat /\ r[1] = g
      /\ \A p \in 1 .. Len(s) : r[p + 1] = s[p]
      /\ \A p \in 2 .. Len(s) + 1 : r[p] = s[p - 1]
  BY Pushed
<1> HIDE DEF r
<1>2. k \in 1 .. Len(s) /\ ForBoxZero(s[k]) BY DEF Layered
<1>3. k + 1 \in 1 .. Len(r) /\ r[k + 1] = s[k] /\ k + 1 # 1 BY <1>1, <1>2
<1>4. ASSUME NEW p \in 1 .. Len(r)
      PROVE  (p < k + 1 => Aside(r[p])) /\ (p > k + 1 => Waits(r[p]))
  <2>1. CASE p = 1 BY <2>1, <1>1, <1>2
  <2>2. CASE p # 1
    <3>1. p - 1 \in 1 .. Len(s) /\ p \in 2 .. Len(s) + 1 BY <2>2, <1>1
    <3>2. r[p] = s[p - 1] BY <3>1, <1>1
    <3>3. (p - 1 < k => Aside(s[p - 1])) /\ (p - 1 > k => Waits(s[p - 1]))
      BY <3>1 DEF Layered
    <3>4. QED BY <3>1, <3>2, <3>3, <1>2
  <2>3. QED BY <2>1, <2>2
<1>5. Layered(r, k + 1) BY <1>2, <1>3, <1>4 DEF Layered
<1>6. QED BY <1>3, <1>5 DEF r

\* Below the top the layers are those of a stack of their own.
LEMMA LayersPopped ==
    ASSUME NEW s \in Seq(Frames), NEW g \in Frames, NEW k \in Nat, Layered(<<g>> \o s, k)
    PROVE  /\ k # 1 => /\ s # <<>> /\ k - 1 \in Nat /\ Layered(s, k - 1)
                       /\ s[k - 1] = (<<g>> \o s)[k] /\ s[k - 1].at # "return" /\ Aside(g)
           /\ k = 1 => /\ ForBoxZero(g)
                       /\ s # <<>> => Layered(s, 1) /\ Waits(Head(s))
<1> DEFINE r == <<g>> \o s
<1>1. /\ Len(r) = Len(s) + 1 /\ Len(s) \in Nat /\ r[1] = g
      /\ \A p \in 1 .. Len(s) : r[p + 1] = s[p]
      /\ \A p \in 2 .. Len(s) + 1 : r[p] = s[p - 1]
  BY Pushed
<1>2. Layered(r, k) OBVIOUS
<1> HIDE DEF r
<1>3. k \in 1 .. Len(r) /\ ForBoxZero(r[k]) /\ (k # 1 => r[k].at # "return")
  BY <1>2 DEF Layered
<1>4. \A p \in 1 .. Len(r) : (p < k => Aside(r[p])) /\ (p > k => Waits(r[p]))
  BY <1>2 DEF Layered
<1>5. CASE k # 1
  <2>1. k - 1 \in 1 .. Len(s) /\ s[k - 1] = r[k] /\ 1 \in 1 .. Len(r) /\ 1 < k
    BY <1>1, <1>3, <1>5
  <2>2. s # <<>> BY <2>1
  <2>3. ASSUME NEW p \in 1 .. Len(s)
        PROVE  (p < k - 1 => Aside(s[p])) /\ (p > k - 1 => Waits(s[p]))
    <3>1. p + 1 \in 1 .. Len(r) /\ r[p + 1] = s[p] BY <1>1
    <3>2. (p + 1 < k => Aside(r[p + 1])) /\ (p + 1 > k => Waits(r[p + 1])) BY <3>1, <1>4
    <3>3. QED BY <3>1, <3>2
  <2>4. s[k - 1].at # "return" /\ ForBoxZero(s[k - 1]) BY <1>3, <1>5, <2>1
  <2>5. Layered(s, k - 1) BY <2>1, <2>3, <2>4 DEF Layered
  <2>6. Aside(g) BY <2>1, <1>1, <1>4
  <2>7. QED BY <1>5, <2>1, <2>2, <2>4, <2>5, <2>6 DEF r
<1>6. CASE k = 1
  <2>1. ForBoxZero(g) BY <1>1, <1>3, <1>6
  <2>2. ASSUME NEW p \in 1 .. Len(s) PROVE Waits(s[p])
    <3>1. p + 1 \in 1 .. Len(r) /\ r[p + 1] = s[p] /\ p + 1 > 1 BY <1>1
    <3>2. QED BY <3>1, <1>4, <1>6
  <2>3. ASSUME s # <<>> PROVE Layered(s, 1) /\ Waits(Head(s))
    <3>1. 1 \in 1 .. Len(s) /\ Head(s) = s[1] BY <2>3
    <3>2. Waits(s[1]) BY <3>1, <2>2
    <3>3. QED BY <3>1, <3>2, <2>2 DEF Layered, Waits
  <2>4. QED BY <1>6, <2>1, <2>3
<1>7. QED BY <1>5, <1>6

\* The top of the stack goes on in its layer.
LEMMA LayersKept ==
    ASSUME NEW s \in Seq(Frames), NEW g \in Frames, NEW f \in Frames, NEW k \in Nat,
           Layered(<<g>> \o s, k), IF k = 1 THEN ForBoxZero(f) ELSE Aside(f)
    PROVE  /\ Layered(<<f>> \o s, k)
           /\ k # 1 => (<<f>> \o s)[k] = (<<g>> \o s)[k]
<1>1. CASE k # 1
  <2>1. /\ k - 1 \in Nat /\ Layered(s, k - 1)
        /\ s[k - 1] = (<<g>> \o s)[k] /\ s[k - 1].at # "return"
    BY <1>1, LayersPopped
  <2>2. Aside(f) /\ (k - 1) + 1 = k BY <1>1, <2>1
  <2>3. PICK m \in Nat : m = k - 1 BY <2>1
  <2>4. Layered(<<f>> \o s, m + 1) /\ (<<f>> \o s)[m + 1] = s[m]
    BY <2>1, <2>2, <2>3, LayersPushed
  <2>5. QED BY <1>1, <2>1, <2>2, <2>3, <2>4
<1>2. CASE k = 1
  <2> DEFINE r == <<f>> \o s
             q == <<g>> \o s
  <2>1. /\ Len(r) = Len(s) + 1 /\ Len(s) \in Nat /\ r[1] = f
        /\ \A p \in 2 .. Len(s) + 1 : r[p] = s[p - 1]
    BY Pushed
  <2>2. /\ Len(q) = Len(s) + 1
        /\ \A p \in 2 .. Len(s) + 1 : q[p] = s[p - 1]
    BY Pushed
  <2>3. Layered(q, 1) BY <1>2
  <2> HIDE DEF r, q
  <2>4. ASSUME NEW p \in 1 .. Len(r), p > 1 PROVE Waits(r[p])
    <3>1. p \in 2 .. Len(s) + 1 /\ p \in 1 .. Len(q) BY <2>1, <2>2, <2>4
    <3>2. r[p] = q[p] BY <3>1, <2>1, <2>2
    <3>3. QED BY <3>1, <3>2, <2>3, <2>4 DEF Layered
  <2>5. 1 \in 1 .. Len(r) /\ ForBoxZero(r[1]) BY <1>2, <2>1
  <2>6. \A p \in 1 .. Len(r) : ~(p < 1) BY <2>1
  <2>7. Layered(r, 1) BY <2>4, <2>5, <2>6 DEF Layered
  <2>8. QED BY <1>2, <2>7 DEF r
<1>3. QED BY <1>1, <1>2

\* A call for box 0 that waits for another one.
LEMMA LayersSunk ==
    ASSUME NEW s \in Seq(Frames), NEW g \in Frames, Layered(s, 1), Waits(s[1]), ForBoxZero(g)
    PROVE  Layered(<<g>> \o s, 1)
<1> DEFINE r == <<g>> \o s
<1>1. /\ Len(r) = Len(s) + 1 /\ Len(s) \in Nat /\ r[1] = g
      /\ \A p \in 2 .. Len(s) + 1 : r[p] = s[p - 1]
  BY Pushed
<1> HIDE DEF r
<1>2. ASSUME NEW p \in 1 .. Len(r), p > 1 PROVE Waits(r[p])
  <2>1. p \in 2 .. Len(s) + 1 /\ p - 1 \in 1 .. Len(s) BY <1>1, <1>2
  <2>2. r[p] = s[p - 1] BY <2>1, <1>1
  <2>3. p - 1 = 1 \/ p - 1 > 1 BY <2>1
  <2>4. Waits(s[p - 1]) BY <2>1, <2>3 DEF Layered
  <2>5. QED BY <2>2, <2>4
<1>3. 1 \in 1 .. Len(r) /\ \A p \in 1 .. Len(r) : ~(p < 1) BY <1>1
<1>4. Layered(r, 1) BY <1>1, <1>2, <1>3 DEF Layered
<1>5. QED BY <1>4 DEF r

\* What a call adds to what the stack knows of the load and the circles.
LEMMA CirclesPushed ==
    ASSUME NEW s \in Seq(Frames), NEW f \in Frames
    PROVE  /\ HasLoadedAll(<<f>> \o s) <=> LoadedAll(f) \/ HasLoadedAll(s)
           /\ HasCircles(<<f>> \o s) <=> InCircles(f) \/ HasCircles(s)
<1> DEFINE r == <<f>> \o s
<1>1. /\ Len(r) = Len(s) + 1 /\ Len(s) \in Nat /\ r[1] = f
      /\ \A p \in 1 .. Len(s) : r[p + 1] = s[p]
      /\ \A p \in 2 .. Len(s) + 1 : r[p] = s[p - 1]
  BY Pushed
<1> HIDE DEF r
<1>2. 1 \in 1 .. Len(r) /\ \A p \in 1 .. Len(s) : p + 1 \in 1 .. Len(r) BY <1>1
<1>3. \A p \in 1 .. Len(r) : p = 1 \/ (p \in 2 .. Len(s) + 1 /\ p - 1 \in 1 .. Len(s)) BY <1>1
<1>4. HasLoadedAll(r) <=> LoadedAll(f) \/ HasLoadedAll(s) BY <1>1, <1>2, <1>3 DEF HasLoadedAll
<1>5. HasCircles(r) <=> InCircles(f) \/ HasCircles(s) BY <1>1, <1>2, <1>3 DEF HasCircles
<1>6. QED BY <1>4, <1>5 DEF r

\* The return value does not move a frame.
LEMMA ResumeInPlace ==
    ASSUME NEW f \in Frames, NEW v \in Int
    PROVE  /\ Resume(f, v).at = f.at
           /\ Aside(f) => Aside(Resume(f, v))
           /\ ForBoxZero(f) => ForBoxZero(Resume(f, v))
           /\ Waits(f) => Waits(Resume(f, v))
           /\ LoadedAll(f) <=> LoadedAll(Resume(f, v))
           /\ InCircles(f) <=> InCircles(Resume(f, v))
<1> DEFINE r == Resume(f, v)
<1>1. /\ r.fn = f.fn /\ r.at = f.at /\ r.lv = f.lv
      /\ f.fn = "go_lbox" => r.type = f.type
  <2>1. CASE f \in GoFrames BY <2>1 DEF GoFrames, Resume
  <2>2. CASE f \in InternalFrames BY <2>2 DEF InternalFrames, Resume
  <2>3. CASE f \in MoveFrames BY <2>3 DEF MoveFrames, Resume
  <2>4. QED BY <2>1, <2>2, <2>3, FrameKinds
<1> HIDE DEF r
<1>2. QED BY <1>1 DEF Aside, ForBoxZero, Waits, LoadedAll, InCircles, r

-----------------------------------------------------------------------------
(* What calls and returns do to the lesson *)

\* A call that loads nothing has a caller, in the layer below or in its own.
LEMMA TopPopped ==
    ASSUME NEW c \in Seq(Frames), NEW f \in Frames, NEW k \in Nat, k # 1,
           stack = <<f>> \o c, Layered(stack, k)
    PROVE  /\ c # <<>> /\ k - 1 \in Nat /\ Layered(c, k - 1) /\ Aside(f)
           /\ c[k - 1] = stack[k] /\ stack[k].at # "return"
<1>1. Layered(<<f>> \o c, k) OBVIOUS
<1>2. c # <<>> /\ k - 1 \in Nat /\ Layered(c, k - 1) BY <1>1, LayersPopped
<1>3. c[k - 1] = (<<f>> \o c)[k] /\ Aside(f) BY <1>1, LayersPopped
<1>4. c[k - 1].at # "return" BY <1>1, LayersPopped
<1>5. QED BY <1>2, <1>3, <1>4

\* A call that loads nothing goes on.
LEMMA AsideContinues ==
    ASSUME StackOK, proc = "go", NEW k \in Nat, Lesson(k), k # 1,
           NEW f \in Frames, Aside(f), Continue(f), UNCHANGED <<loaded, firstwhile>>,
           stack[k].at \in {"more", "load"} => cnt'[0] < Limit[0]
    PROVE  Lesson(k)' /\ stack'[k] = stack[k]
<1>1. /\ stack = <<Top>> \o Callers /\ Top \in Frames /\ Callers \in Seq(Frames)
      /\ stack' = <<f>> \o Callers
  BY StackSplit DEF Continue
<1>2. Layered(stack, k) /\ CirclesOK(k) BY DEF Lesson
<1>3. Layered(stack', k) /\ stack'[k] = stack[k] BY <1>1, <1>2, LayersKept
<1>4. Aside(Top) BY <1>1, <1>2, LayersPopped
<1>5. ~LoadedAll(f) /\ ~InCircles(f) /\ ~LoadedAll(Top) /\ ~InCircles(Top)
  BY <1>4 DEF Aside, LoadedAll, InCircles
<1>6. CirclesOK(k)' BY <1>1, <1>2, <1>5, CirclesPushed DEF CirclesOK, Unwinds
<1>7. QED BY <1>3, <1>6 DEF Lesson, RoomOK, LearntOK

\* A call that loads nothing calls another such.
LEMMA AsideCalls ==
    ASSUME StackOK, proc = "go", NEW k \in Nat, Lesson(k), k # 1,
           NEW f \in Frames, Aside(f), NEW g \in Frames, Aside(g), Call(g, f),
           UNCHANGED <<loaded, firstwhile>>,
           stack[k].at \in {"more", "load"} => cnt'[0] < Limit[0]
    PROVE  Lesson(k + 1)'
<1> DEFINE s == <<f>> \o Callers
<1>1. /\ stack = <<Top>> \o Callers /\ Top \in Frames /\ Callers \in Seq(Frames)
      /\ stack' = <<g>> \o s /\ s \in Seq(Frames)
  BY StackSplit, TwoPushed DEF Call
<1>2. Layered(stack, k) /\ CirclesOK(k) BY DEF Lesson
<1>3. Layered(s, k) /\ s[k] = stack[k] BY <1>1, <1>2, LayersKept
<1>4. Aside(Top) /\ stack[k].at # "return" BY <1>1, <1>2, LayersPopped DEF Layered
<1>5. /\ ~LoadedAll(f) /\ ~InCircles(f) /\ ~LoadedAll(Top) /\ ~InCircles(Top)
      /\ ~LoadedAll(g) /\ ~InCircles(g)
  BY <1>4 DEF Aside, LoadedAll, InCircles
<1>6. /\ HasLoadedAll(s) <=> HasLoadedAll(stack)
      /\ HasCircles(s) <=> HasCircles(stack)
  BY <1>1, <1>5, CirclesPushed
<1> HIDE DEF s
<1>7. Layered(stack', k + 1) /\ stack'[k + 1] = stack[k] BY <1>1, <1>3, <1>4, LayersPushed
<1>8. CirclesOK(k + 1)' BY <1>1, <1>2, <1>5, <1>6, CirclesPushed DEF CirclesOK, Unwinds
<1>9. k + 1 # 1 BY <1>2 DEF Layered
<1>10. QED BY <1>7, <1>8, <1>9 DEF Lesson, RoomOK, LearntOK

\* It returns: there is a call below it.
LEMMA AsideReturns ==
    ASSUME StackOK, proc = "go", NEW k \in Nat, Lesson(k), k # 1,
           NEW v \in Int, Return(v), UNCHANGED <<loaded, firstwhile>>,
           stack[k].at \in {"more", "load"} =>
               cnt'[0] < Limit[0] \/ (NumberReached' /\ k = 2)
    PROVE  Lesson(k - 1)' /\ UNCHANGED <<proc, report>> /\ k - 1 \in Nat
<1> DEFINE h == Head(Callers)
           t == Tail(Callers)
           r == Resume(h, v)
<1>1. /\ stack = <<Top>> \o Callers /\ Top \in Frames /\ Callers \in Seq(Frames)
  BY StackSplit
<1>2. Layered(stack, k) /\ CirclesOK(k) BY DEF Lesson
<1>3. /\ Callers # <<>> /\ k - 1 \in Nat /\ Layered(Callers, k - 1) /\ Aside(Top)
      /\ Callers[k - 1] = stack[k] /\ stack[k].at # "return"
  BY <1>1, <1>2, TopPopped
<1>4. h \in Frames /\ t \in Seq(Frames) /\ Callers = <<h>> \o t /\ h = Callers[1]
  BY <1>1, <1>3, Popped
<1>5. /\ r \in Frames /\ r.at = h.at /\ (Aside(h) => Aside(r)) /\ (ForBoxZero(h) => ForBoxZero(r))
      /\ (LoadedAll(h) <=> LoadedAll(r)) /\ (InCircles(h) <=> InCircles(r))
  BY <1>4, ResumeInPlace, ResumeTyped
<1>6. stack' = <<r>> \o t /\ UNCHANGED <<proc, report>> BY <1>3 DEF Return
<1>7. ~LoadedAll(Top) /\ ~InCircles(Top) BY <1>3 DEF Aside, LoadedAll, InCircles
<1>8. (<<r>> \o t)[1] = r BY <1>4, <1>5, Pushed
<1> HIDE DEF h, t, r
<1>9. CirclesOK(k - 1)'
  BY <1>1, <1>2, <1>4, <1>5, <1>6, <1>7, CirclesPushed DEF CirclesOK, Unwinds
<1>10. IF k - 1 = 1 THEN ForBoxZero(r) ELSE Aside(r) BY <1>3, <1>4, <1>5, LayersPopped
<1>11. Layered(stack', k - 1) /\ (k - 1 # 1 => stack'[k - 1] = stack[k])
  BY <1>3, <1>4, <1>5, <1>6, <1>10, LayersKept
<1>12. stack'[k - 1].at = stack[k].at BY <1>3, <1>4, <1>5, <1>6, <1>8, <1>11
<1>13. RoomOK(k - 1)'
  <2>1. k = 2 => k - 1 = 1 OBVIOUS
  <2>2. QED BY <2>1, <1>12 DEF RoomOK
<1>14. LearntOK(k - 1)' BY <1>3, <1>12 DEF LearntOK
<1>15. QED BY <1>3, <1>6, <1>9, <1>11, <1>13, <1>14 DEF Lesson

\* A call for box 0 goes on.
LEMMA ZeroContinues ==
    ASSUME StackOK, proc = "go", Lesson(1), ~Unwinds(1),
           NEW f \in Frames, ForBoxZero(f), Continue(f), loaded = Total => loaded' = Total,
           LoadedAll(f) => loaded' = Total,
           firstwhile' = 1 => InCircles(f) \/ (firstwhile = 1 /\ ~InCircles(Top)),
           f.at \in {"more", "load"} => cnt'[0] < Limit[0], f.at # "return"
    PROVE  Lesson(1)'
<1>1. /\ stack = <<Top>> \o Callers /\ Top \in Frames /\ Callers \in Seq(Frames)
      /\ stack' = <<f>> \o Callers /\ stack'[1] = f
  BY StackSplit, Pushed DEF Continue
<1>2. Layered(stack, 1) /\ CirclesOK(1) BY DEF Lesson
<1>3. Layered(stack', 1) BY <1>1, <1>2, LayersKept
<1>4. CirclesOK(1)' BY <1>1, <1>2, CirclesPushed DEF CirclesOK
<1>5. QED BY <1>1, <1>3, <1>4 DEF Lesson, RoomOK, LearntOK

\* It calls one that loads nothing.
LEMMA ZeroCallsAside ==
    ASSUME StackOK, proc = "go", Lesson(1), ~Unwinds(1),
           NEW f \in Frames, ForBoxZero(f), NEW g \in Frames, Aside(g), Call(g, f),
           UNCHANGED <<loaded, firstwhile>>,
           LoadedAll(f) => LoadedAll(Top), InCircles(Top) => InCircles(f),
           f.at # "return", f.at \in {"more", "load"} =>
               cnt'[0] < Limit[0] \/ Fresh(g) \/ (NumberReached' /\ Spent(g))
    PROVE  Lesson(2)'
<1> DEFINE s == <<f>> \o Callers
<1>1. /\ stack = <<Top>> \o Callers /\ Top \in Frames /\ Callers \in Seq(Frames)
      /\ stack' = <<g>> \o s /\ s \in Seq(Frames)
  BY StackSplit, TwoPushed DEF Call
<1>2. Layered(stack, 1) /\ CirclesOK(1) BY DEF Lesson
<1>3. Layered(s, 1) /\ s[1] = f BY <1>1, <1>2, LayersKept, Pushed
<1>4. ~LoadedAll(g) /\ ~InCircles(g) BY DEF Aside, LoadedAll, InCircles
<1>5. /\ HasLoadedAll(s) => HasLoadedAll(stack)
      /\ HasCircles(stack) => HasCircles(s)
  BY <1>1, CirclesPushed
<1> HIDE DEF s
<1>6. /\ Layered(<<g>> \o s, 1 + 1) /\ (<<g>> \o s)[1 + 1] = f
      /\ (<<g>> \o s)[1] = g
  <2>1. 1 \in Nat /\ s[1].at # "return" BY <1>3
  <2>2. Layered(<<g>> \o s, 1 + 1) /\ (<<g>> \o s)[1 + 1] = s[1] BY <1>1, <1>3, <2>1, LayersPushed
  <2>3. (<<g>> \o s)[1] = g BY <1>1, Pushed
  <2>4. QED BY <1>3, <2>2, <2>3
<1>7. CirclesOK(2)' BY <1>1, <1>2, <1>4, <1>5, CirclesPushed DEF CirclesOK
<1>8. 1 + 1 = 2 OBVIOUS
<1>9. QED BY <1>1, <1>6, <1>7, <1>8 DEF Lesson, RoomOK, LearntOK

\* It calls go_lbox for box 0 again.
LEMMA ZeroCallsZero ==
    ASSUME StackOK, proc = "go", Lesson(1), ~Unwinds(1),
           NEW f \in Frames, Waits(f), NEW g \in Frames, ForBoxZero(g), g.at = "enter",
           Call(g, f), UNCHANGED firstwhile, loaded = Total => loaded' = Total,
           LoadedAll(f) => LoadedAll(Top), InCircles(Top) => InCircles(f)
    PROVE  Lesson(1)'
<1> DEFINE s == <<f>> \o Callers
<1>1. /\ stack = <<Top>> \o Callers /\ Top \in Frames /\ Callers \in Seq(Frames)
      /\ stack' = <<g>> \o s /\ s \in Seq(Frames)
  BY StackSplit, TwoPushed DEF Call
<1>2. Layered(stack, 1) /\ CirclesOK(1) BY DEF Lesson
<1>3. Layered(s, 1) /\ s[1] = f BY <1>1, <1>2, LayersKept, Pushed DEF Waits
<1>4. ~LoadedAll(g) /\ ~InCircles(g) BY DEF LoadedAll, InCircles
<1>5. /\ HasLoadedAll(s) => HasLoadedAll(stack)
      /\ HasCircles(stack) => HasCircles(s)
  BY <1>1, CirclesPushed
<1> HIDE DEF s
<1>6. Layered(stack', 1) /\ stack'[1] = g BY <1>1, <1>3, LayersSunk, Pushed
<1>7. CirclesOK(1)' BY <1>1, <1>2, <1>4, <1>5, CirclesPushed DEF CirclesOK
<1>8. QED BY <1>6, <1>7 DEF Lesson, RoomOK, LearntOK

\* It returns, to another call for box 0 or from the session.
LEMMA ZeroReturns ==
    ASSUME StackOK, NumbersOK, proc = "go", Lesson(1), NEW v \in Int, Return(v),
           UNCHANGED <<loaded, cnt, firstwhile, pug, ugc>>,
           NumberReached \/ (~InCircles(Top) /\ (firstwhile = 0 => cnt[MaxLevel] >= Total))
    PROVE  IF Callers = <<>> THEN proc' = "idle" /\ (NumberReached \/ cnt'[MaxLevel] >= Total)
                             ELSE UNCHANGED <<proc, report>> /\ Lesson(1)'
<1> DEFINE h == Head(Callers)
           t == Tail(Callers)
           r == Resume(h, v)
<1>1. /\ stack = <<Top>> \o Callers /\ Top \in Frames /\ Callers \in Seq(Frames)
  BY StackSplit
<1>2. Layered(stack, 1) /\ CirclesOK(1) BY DEF Lesson
<1>3. CASE Callers = <<>>
  <2>1. ASSUME ~NumberReached PROVE cnt[MaxLevel] >= Total
    <3>1. ~HasCircles(stack) BY <1>1, <1>3, <2>1, CirclesPushed DEF HasCircles
    <3>2. firstwhile = 0 BY <3>1, <2>1, <1>2 DEF CirclesOK, NumbersOK, Unwinds
    <3>3. QED BY <2>1, <3>2
  <2>2. QED BY <1>3, <2>1 DEF Return
<1>4. CASE Callers # <<>>
  <2>1. Layered(Callers, 1) /\ Waits(h) BY <1>1, <1>2, <1>4, LayersPopped
  <2>2. h \in Frames /\ t \in Seq(Frames) /\ Callers = <<h>> \o t BY <1>1, <1>4, Popped
  <2>3. /\ r \in Frames /\ Waits(r)
        /\ (LoadedAll(h) <=> LoadedAll(r)) /\ (InCircles(h) <=> InCircles(r))
    BY <2>1, <2>2, ResumeInPlace, ResumeTyped
  <2>4. stack' = <<r>> \o t /\ UNCHANGED <<proc, report>> BY <1>4 DEF Return
  <2>5. (<<r>> \o t)[1] = r BY <2>2, <2>3, Pushed
  <2>6. NumberReached' <=> NumberReached BY DEF NumberReached
  <2> HIDE DEF h, t, r
  <2>7. HasLoadedAll(stack') => loaded' = Total
    BY <1>1, <1>2, <2>2, <2>3, <2>4, CirclesPushed DEF CirclesOK
  <2>8. firstwhile' = 1 => HasCircles(stack') \/ Unwinds(1)'
    <3>1. CASE NumberReached BY <3>1, <2>3, <2>4, <2>5, <2>6 DEF Unwinds
    <3>2. CASE ~NumberReached
      BY <3>2, <1>1, <1>2, <2>2, <2>3, <2>4, CirclesPushed DEF CirclesOK, Unwinds
    <3>3. QED BY <3>1, <3>2
  <2>9. Layered(stack', 1) BY <2>1, <2>2, <2>3, <2>4, LayersKept DEF Waits
  <2>10. RoomOK(1)' BY <2>3, <2>4, <2>5 DEF RoomOK, Waits
  <2>11. LearntOK(1)'
    <3>1. CASE NumberReached BY <3>1, <2>6 DEF LearntOK
    <3>2. CASE ~NumberReached BY <3>2 DEF LearntOK
    <3>3. QED BY <3>1, <3>2
  <2>12. QED BY <1>4, <2>4, <2>7, <2>8, <2>9, <2>10, <2>11 DEF Lesson, CirclesOK
<1>5. QED BY <1>3, <1>4

-----------------------------------------------------------------------------
(* The actions keep the lesson *)

Learned == KnowsAll /\ SessionInv /\ Accounted /\ Learning

\* A question loop that does not ask has the user's number reached.
LEMMA LessonFacts ==
    ASSUME Learned, proc = "go"
    PROVE  /\ StackOK /\ NumbersOK /\ DataOK /\ report = NoReport
           /\ \A max \in Nat : Quota(max) = 0 => NumberReached
           /\ NumberReached => ugc > 0 /\ asked = ugc
           /\ Limit[0] \in Nat \ {0} /\ cnt[0] \in Nat /\ cnt[0] <= Limit[0] /\ busy[0] = 0
           /\ \E k \in Nat : Lesson(k)
<1>1. StackOK /\ NumbersOK /\ DataOK /\ report = NoReport /\ pug = ugc - asked
  BY DEF Learned, SessionInv, Accounted, TalliesOK
<1>2. ugc \in Int /\ asked \in Nat /\ pug \in Int /\ busy[0] = 0
      /\ \E k \in Nat : Lesson(k)
  BY <1>1 DEF Learned, Learning, NumbersOK
<1>3. NumberReached => ugc > 0 /\ asked = ugc BY <1>1, <1>2 DEF NumberReached
<1>4. \A max \in Nat : Quota(max) = 0 => NumberReached
  BY <1>1, <1>2 DEF Quota, SmallerOf, NumberReached
<1>5. Limit[0] \in Nat \ {0} /\ cnt[0] \in Nat /\ cnt[0] <= Limit[0]
  <2>1. 0 \in Asked /\ 0 \in Levels /\ 0 # MaxLevel /\ Limit[0] \in Nat \ {0} BY ConstantFacts
  <2>2. QED BY <1>1, <2>1 DEF DataOK, CountsAgree
<1>6. QED BY <1>1, <1>2, <1>3, <1>4, <1>5

\* What a step within the session has to show.
LEMMA LessonGoesOn ==
    ASSUME Learned, proc = "go", UNCHANGED <<proc, report, busy>>,
           NEW m \in Nat, Lesson(m)'
    PROVE  Learning'
  BY LessonFacts DEF Learned, Learning

\* The layer of the active call.
LEMMA TopLayer ==
    ASSUME StackOK, proc = "go", NEW k \in Nat, Lesson(k)
    PROVE  /\ k = 1 => ForBoxZero(Top)
           /\ k # 1 => Aside(Top)
           /\ ~Fresh(Top) /\ stack[k].at \in {"more", "load"} =>
                  \/ cnt[0] < Limit[0]
                  \/ NumberReached /\ (k = 1 \/ (k = 2 /\ Spent(Top)))
           /\ stack[1] = Top
<1>1. /\ stack = <<Top>> \o Callers /\ Top \in Frames /\ Callers \in Seq(Frames)
      /\ stack[1] = Top
  BY StackSplit, Pushed
<1>2. Layered(stack, k) /\ RoomOK(k) BY DEF Lesson
<1>3. Layered(<<Top>> \o Callers, k) BY <1>1, <1>2
<1>4. (k = 1 => ForBoxZero(Top)) /\ (k # 1 => Aside(Top)) BY <1>1, <1>3, LayersPopped
<1>5. QED BY <1>1, <1>2, <1>4 DEF RoomOK

\* Where an answer takes box 0.
LEMMA AnsweredCounts ==
    ASSUME DataOK, busy[0] = 0, NEW from \in Asked, cnt[from] # 0
    PROVE  LET now == CountsMoved(from, from + 1)
           IN  now.b[0] = 0 /\ now.c[0] = IF from = 0 THEN cnt[0] - 1 ELSE cnt[0]
<1>1. /\ from \in Nat /\ from + 1 \in Levels /\ 0 \in Levels /\ 0 \in Levels \ {from + 1}
      /\ cnt \in [Levels -> Nat]
  BY ConstantFacts DEF DataOK
<1>2. /\ CountsMoved(from, from + 1).c[0] = CountsLeft(from).c[0]
      /\ CountsMoved(from, from + 1).b[0] = CountsLeft(from).b[0]
  BY <1>1, CountsMovedFit
<1>3. CASE from = 0
  <2>1. CountsLeft(from) = [c |-> [cnt EXCEPT ![0] = cnt[0] - 1], b |-> busy]
    BY <1>3 DEF CountsLeft
  <2>2. QED BY <1>1, <1>2, <1>3, <2>1
<1>4. CASE from # 0
  <2>1. CountsLeft(from).c[0] = cnt[0] /\ CountsLeft(from).b[0] = busy[0]
    BY <1>1, <1>4, CountsLeftFit
  <2>2. QED BY <1>2, <1>4, <2>1
<1>5. QED BY <1>3, <1>4

LEMMA AnsweredLearning ==
    ASSUME Learned, NEW wrong_pos \in Answers, Answer(wrong_pos)
    PROVE  Learning'
<1> DEFINE lv == Top.lv
           new == NewLevel(lv, wrong_pos)
           now == CountsMoved(lv, new)
<1>1. StackOK /\ proc = "go" /\ Top \in InternalFrames /\ Top \in Frames /\ cnt[lv] # 0
  BY TopTyped, FrameKinds DEF Answer, Asking, Learned, SessionInv
<1>2. DataOK /\ busy[0] = 0 /\ \E k \in Nat : Lesson(k) BY <1>1, LessonFacts
<1>3. Limit[0] \in Nat \ {0} /\ cnt[0] \in Nat /\ cnt[0] <= Limit[0] BY <1>1, LessonFacts
<1>4. lv \in Asked /\ Top.fn = "internal" /\ ~Spent(Top)
  BY <1>1 DEF InternalFrames, Answer, Asking, Spent
<1>5. new = lv + 1
  <2>1. wrong_pos \notin {1, 2} BY DEF Learned, KnowsAll
  <2>2. QED BY <2>1 DEF NewLevel
<1>6. new # 0 /\ new \in Levels BY <1>4, <1>5, ConstantFacts
<1>7. cnt' = now.c /\ busy' = now.b BY DEF Answer
<1>8. busy'[0] = 0 /\ cnt'[0] = IF lv = 0 THEN cnt[0] - 1 ELSE cnt[0]
  BY <1>1, <1>2, <1>4, <1>5, <1>7, AnsweredCounts
<1>9. PICK k \in Nat : Lesson(k) BY <1>2
<1>10. k # 1 /\ Aside(Top) BY <1>1, <1>4, <1>9, TopLayer DEF ForBoxZero
<1>11. stack[k].at \in {"more", "load"} => cnt'[0] < Limit[0]
  <2>1. CASE lv = 0 BY <2>1, <1>1, <1>3, <1>8
  <2>2. CASE lv # 0 BY <2>2, <1>1, <1>4, <1>8, <1>9, <1>10, TopLayer DEF Fresh
  <2>3. QED BY <2>1, <2>2
<1>12. /\ Full(now.c, new) => Call(MoveFrame(new), Top)
       /\ ~Full(now.c, new) => AccountHere
       /\ UNCHANGED <<proc, report, loaded, firstwhile, ugc>>
  BY DEF Answer, GoOnToMakeWay, Calm
<1> HIDE DEF now, new
<1>13. \E m \in Nat : Lesson(m)'
  <2>1. CASE Full(now.c, new)
    <3>1. new \in Asked BY <2>1, <1>6, ConstantFacts DEF Full
    <3>2. MoveFrame(new) \in Frames BY <3>1, NewFrames
    <3>3. Aside(MoveFrame(new)) BY <1>6 DEF Aside, MoveFrame
    <3>4. Lesson(k + 1)' BY <2>1, <3>2, <3>3, <1>1, <1>9, <1>10, <1>11, <1>12, AsideCalls
    <3>5. QED BY <3>4
  <2>2. CASE ~Full(now.c, new)
    <3> DEFINE f == [Top EXCEPT !.cnt2go = @ - 1, !.at = IF pug = 1 THEN "break" ELSE @]
    <3>1. f \in InternalFrames BY <1>1, AccountTyped
    <3>2. Continue(f) BY <2>2, <1>12 DEF AccountHere
    <3> HIDE DEF f
    <3>3. f \in Frames /\ Aside(f) BY <3>1, KindsAreFrames DEF Aside, InternalFrames
    <3>4. Lesson(k)' BY <3>2, <3>3, <1>1, <1>9, <1>10, <1>11, <1>12, AsideContinues
    <3>5. QED BY <3>4
  <2>3. QED BY <2>1, <2>2
<1>14. PICK m \in Nat : Lesson(m)' BY <1>13
<1>15. QED BY <1>1, <1>8, <1>12, <1>14 DEF Learning

\* go_lbox_internal and move_to_lbox come back, and move_to_lbox makes way.
LEMMA AsideStepsLearning ==
    ASSUME Learned, InternalReturn \/ MoveReturn \/ MakeWay
    PROVE  Learning'
<1>1. /\ StackOK /\ proc = "go" /\ Top \in Frames /\ Top.fn \in {"internal", "move"}
      /\ (InternalReturn => Top.fn = "internal")
  BY TopTyped DEF InternalReturn, MoveReturn, MakeWay, Learned, SessionInv
<1>2. /\ Limit[0] \in Nat \ {0} /\ cnt[0] \in Nat /\ \E k \in Nat : Lesson(k)
  BY <1>1, LessonFacts
<1>3. PICK k \in Nat : Lesson(k) BY <1>2
<1>4. k # 1 /\ Aside(Top) BY <1>1, <1>3, TopLayer DEF ForBoxZero
<1>5. UNCHANGED <<box, loaded, cnt, busy, pug, ugc, firstwhile, asked, cut>>
  BY DEF InternalReturn, MoveReturn, MakeWay, data
<1>06. NumberReached' <=> NumberReached BY <1>5 DEF NumberReached
<1>6. stack[k].at \in {"more", "load"} =>
         cnt'[0] < Limit[0] \/ (InternalReturn /\ NumberReached' /\ k = 2)
  <2>1. CASE ~Fresh(Top)
    <3>1. Spent(Top) => InternalReturn BY <1>1 DEF Spent, MoveReturn, MakeWay, In
    <3>2. QED BY <2>1, <3>1, <1>06, <1>1, <1>3, <1>4, <1>5, TopLayer
  <2>2. CASE Fresh(Top)
    <3>1. InternalReturn BY <2>2, <1>1 DEF Fresh, MoveReturn, MakeWay, In
    <3>2. cnt[0] = 0 BY <2>2, <3>1 DEF Fresh, InternalReturn, Asking, In
    <3>3. QED BY <3>2, <1>2, <1>5
  <2>3. QED BY <2>1, <2>2
<1>7. CASE InternalReturn \/ MoveReturn
  <2>1. PICK v \in Int : Return(v)
    <3>1. CASE InternalReturn
      <4>1. Top \in InternalFrames BY <3>1, <1>1, FrameKinds
      <4>2. Top.start - Top.cnt2go \in Int BY <4>1 DEF InternalFrames
      <4>3. QED BY <3>1, <4>2 DEF InternalReturn
    <3>2. CASE MoveReturn
      <4>1. Top \in MoveFrames BY <3>2, <1>1, FrameKinds DEF MoveReturn, In
      <4>2. Top.ret \in Int BY <4>1 DEF MoveFrames
      <4>3. QED BY <3>2, <4>2 DEF MoveReturn
    <3>3. QED BY <1>7, <3>1, <3>2
  <2>2. Lesson(k - 1)' /\ UNCHANGED <<proc, report>> /\ k - 1 \in Nat
    BY <2>1, <1>1, <1>3, <1>4, <1>5, <1>6, AsideReturns
  <2>3. QED BY <2>2, <1>1, <1>5, LessonGoesOn
<1>8. CASE MakeWay
  <2> DEFINE f == Goto(MakeWayAt(Top.lv))
             g == GoFrame(Top.lv, "MAKEWAY")
  <2>1. Top \in MoveFrames /\ Top.fn = "move" BY <1>1, <1>8, FrameKinds DEF MakeWay, In
  <2>2. Top.lv # 0 /\ Top.lv \in Asked BY <1>4, <2>1 DEF Aside, MoveFrames
  <2>3. f \in Frames /\ Aside(f)
    <3>1. f \in Frames BY <1>1, <2>1, GotoTyped DEF MakeWayAt
    <3>2. f.fn = "move" /\ f.lv = Top.lv BY <2>1 DEF Goto, MoveFrames
    <3>3. QED BY <3>1, <3>2, <2>2 DEF Aside
  <2>4. g \in Frames BY <2>2, NewFrames DEF GoTypes
  <2>5. Aside(g) BY <2>2 DEF Aside, GoFrame
  <2>6. Call(g, f) /\ UNCHANGED <<proc, report>> BY <1>8 DEF MakeWay, Calm
  <2> HIDE DEF f, g
  <2>07. ~InternalReturn BY <2>1 DEF InternalReturn, In
  <2>7. Lesson(k + 1)' BY <2>07, <2>3, <2>4, <2>5, <2>6, <1>1, <1>3, <1>4, <1>5, <1>6, AsideCalls
  <2>8. QED BY <2>6, <2>7, <1>1, <1>5, LessonGoesOn
<1>9. QED BY <1>7, <1>8

\* A call for box 0 returns: the user's number is reached or all is learnt.
LEMMA ReturnedLearning ==
    ASSUME Learned, StackOK, NumbersOK, proc = "go", Lesson(1), NEW v \in Int, Return(v),
           UNCHANGED <<loaded, cnt, busy, firstwhile, pug, ugc, asked>>,
           NumberReached \/ (~InCircles(Top) /\ (firstwhile = 0 => cnt[MaxLevel] >= Total))
    PROVE  Learning'
<1>1. IF Callers = <<>> THEN proc' = "idle" /\ (NumberReached \/ cnt'[MaxLevel] >= Total)
                        ELSE UNCHANGED <<proc, report>> /\ Lesson(1)'
  BY ZeroReturns
<1>2. CASE Callers = <<>>
  <2>1. NumberReached => ugc' > 0 /\ asked' = ugc' BY LessonFacts
  <2>2. busy'[0] = 0 BY DEF Learned, Learning
  <2>3. QED BY <1>1, <1>2, <2>1, <2>2 DEF Learning
<1>3. CASE Callers # <<>> BY <1>1, <1>3, LessonGoesOn
<1>4. QED BY <1>2, <1>3

\* go_lbox, before it comes to load: for box 0 or aside.
LEMMA BeforeLoadLearning ==
    ASSUME Learned, GoEnter \/ GoBox \/ GoStop
    PROVE  Learning'
<1>1. /\ StackOK /\ NumbersOK /\ proc = "go" /\ Top \in GoFrames /\ Top \in Frames
      /\ Top.fn = "go_lbox" /\ Top.at \in {"enter", "box", "more"}
  BY TopTyped, FrameKinds DEF GoEnter, GoBox, GoStop, Learned, SessionInv, In
<1>2. /\ Limit[0] \in Nat \ {0} /\ cnt[0] \in Nat /\ \E k \in Nat : Lesson(k)
      /\ \A max \in Nat : Quota(max) = 0 => NumberReached
  BY <1>1, LessonFacts
<1>3. PICK k \in Nat : Lesson(k) BY <1>2
<1>4. UNCHANGED <<box, loaded, cnt, busy, pug, ugc, firstwhile, asked, cut>>
  BY DEF GoEnter, GoBox, GoStop, Internal, data
<1>5. Top.lv \in Asked /\ Top.lv \in Nat /\ Top.type \in GoTypes
  BY <1>1, ConstantFacts DEF GoFrames
<1>6. k # 1 => (stack[k].at \in {"more", "load"} => cnt'[0] < Limit[0])
  BY <1>1, <1>3, <1>4, TopLayer DEF Fresh, Spent
<1>06. ~Unwinds(1) /\ (NumberReached' <=> NumberReached)
  BY <1>1, <1>3, <1>4, TopLayer DEF Unwinds, Waits, NumberReached
<1>7. ~LoadedAll(Top) /\ ~InCircles(Top) BY <1>1 DEF LoadedAll, InCircles
<1>8. \A a \in {"box", "more"} : LET f == Goto(a) IN
         /\ f \in Frames /\ f.at = a /\ ~LoadedAll(f) /\ ~InCircles(f)
         /\ ForBoxZero(Top) => ForBoxZero(f)
         /\ Aside(Top) => Aside(f)
  <2> SUFFICES ASSUME NEW a \in {"box", "more"}
               PROVE  LET f == Goto(a) IN
                        /\ f \in Frames /\ f.at = a /\ ~LoadedAll(f) /\ ~InCircles(f)
                        /\ ForBoxZero(Top) => ForBoxZero(f)
                        /\ Aside(Top) => Aside(f)
    OBVIOUS
  <2> DEFINE f == Goto(a)
  <2>1. f \in Frames BY <1>1, GotoTyped
  <2>2. f.fn = "go_lbox" /\ f.at = a /\ f.lv = Top.lv /\ f.type = Top.type
    BY <1>1 DEF Goto, GoFrames
  <2> HIDE DEF f
  <2>3. QED BY <1>1, <2>1, <2>2 DEF LoadedAll, InCircles, ForBoxZero, Aside, f
<1>9. CASE GoEnter
  <2> DEFINE f == Goto("box")
             g == GoFrame(Top.lv + 1, Top.type)
  <2>1. f \in Frames /\ f.at = "box" /\ ~LoadedAll(f) /\ (ForBoxZero(Top) => ForBoxZero(f))
        /\ (Aside(Top) => Aside(f)) /\ ~InCircles(f)
    BY <1>8
  <2>2. UNCHANGED <<proc, report>> BY <1>9 DEF GoEnter, Internal, Calm
  <2>3. CASE Full(cnt, Top.lv + 1)
    <3>1. Call(g, f) BY <1>9, <2>3 DEF GoEnter
    <3>2. Top.lv + 1 \in Asked BY <2>3, <1>5, ConstantFacts DEF Full
    <3>3. g \in Frames BY <3>2, <1>5, NewFrames
    <3>4. Aside(g) BY <1>5 DEF Aside, GoFrame
    <3> HIDE DEF f, g
    <3>5. CASE k = 1
      <4>1. ForBoxZero(f) BY <3>5, <2>1, <1>1, <1>3, TopLayer
      <4>2. Lesson(2)' BY <3>1, <3>3, <3>4, <3>5, <4>1, <2>1, <1>1, <1>3, <1>4, <1>06, <1>7, ZeroCallsAside
      <4>3. QED BY <4>2, <2>2, <1>1, <1>4, LessonGoesOn
    <3>6. CASE k # 1
      <4>1. Aside(f) BY <3>6, <2>1, <1>1, <1>3, TopLayer
      <4>2. Lesson(k + 1)' BY <3>1, <3>3, <3>4, <3>6, <4>1, <2>1, <1>1, <1>3, <1>4, <1>6, AsideCalls
      <4>3. QED BY <4>2, <2>2, <1>1, <1>4, LessonGoesOn
    <3>7. QED BY <3>5, <3>6
  <2>4. CASE ~Full(cnt, Top.lv + 1)
    <3>1. Continue(f) BY <1>9, <2>4 DEF GoEnter
    <3> HIDE DEF f
    <3>2. CASE k = 1
      <4>1. ForBoxZero(f) BY <3>2, <2>1, <1>1, <1>3, TopLayer
      <4>2. Lesson(1)' BY <3>1, <3>2, <4>1, <2>1, <1>1, <1>3, <1>4, <1>06, <1>7, ZeroContinues
      <4>3. QED BY <4>2, <2>2, <1>1, <1>4, LessonGoesOn
    <3>3. CASE k # 1
      <4>1. Aside(f) BY <3>3, <2>1, <1>1, <1>3, TopLayer
      <4>2. Lesson(k)' BY <3>1, <3>3, <4>1, <2>1, <1>1, <1>3, <1>4, <1>6, AsideContinues
      <4>3. QED BY <4>2, <2>2, <1>1, <1>4, LessonGoesOn
    <3>4. QED BY <3>2, <3>3
  <2>5. QED BY <2>3, <2>4
<1>10. CASE GoBox
  <2> DEFINE f == Goto("more")
             q == Quota(MaxGo[Top.type][Top.lv])
             g == InternalFrame(Top.lv, q)
  <2>1. f \in Frames /\ f.at = "more" /\ ~LoadedAll(f) /\ (ForBoxZero(Top) => ForBoxZero(f))
        /\ (Aside(Top) => Aside(f)) /\ ~InCircles(f)
    BY <1>8
  <2>2. Call(g, f) /\ UNCHANGED <<proc, report>> BY <1>10 DEF GoBox, Internal, Calm
  <2>3. MaxGo[Top.type][Top.lv] \in Nat BY <1>5, SessionAssumption
  <2>4. q \in Int /\ (q = 0 => NumberReached') BY <2>3, <1>06, <1>1, <1>2, QuotaTyped
  <2> HIDE DEF q
  <2>5. g \in Frames /\ Aside(g) /\ (Top.lv = 0 => Fresh(g) \/ (NumberReached' /\ Spent(g)))
    BY <1>5, <2>4, NewFrames DEF Aside, Fresh, Spent, InternalFrame
  <2> HIDE DEF f, g
  <2>6. CASE k = 1
    <3>1. ForBoxZero(f) /\ (Fresh(g) \/ (NumberReached' /\ Spent(g))) BY <2>6, <2>1, <2>5, <1>1, <1>3, TopLayer DEF ForBoxZero
    <3>2. Lesson(2)' BY <3>1, <2>1, <2>2, <2>5, <2>6, <1>1, <1>3, <1>4, <1>06, <1>7, ZeroCallsAside
    <3>3. QED BY <3>2, <2>2, <1>1, <1>4, LessonGoesOn
  <2>7. CASE k # 1
    <3>1. Aside(f) BY <2>7, <2>1, <1>1, <1>3, TopLayer
    <3>2. Lesson(k + 1)' BY <3>1, <2>1, <2>2, <2>5, <2>7, <1>1, <1>3, <1>4, <1>6, AsideCalls
    <3>3. QED BY <3>2, <2>2, <1>1, <1>4, LessonGoesOn
  <2>8. QED BY <2>6, <2>7
<1>11. CASE GoStop
  <2>1. Return(Top.ret) /\ Top.ret \in Int BY <1>1, <1>11 DEF GoStop, GoFrames
  <2>2. CASE k # 1
    <3>1. Lesson(k - 1)' /\ UNCHANGED <<proc, report>> /\ k - 1 \in Nat
      BY <2>1, <2>2, <1>1, <1>3, <1>4, <1>6, AsideReturns
    <3>2. QED BY <3>1, <1>1, <1>4, LessonGoesOn
  <2>3. CASE k = 1
    <3>1. NumberReached
      BY <2>3, <1>1, <1>3, <1>11, TopLayer DEF ForBoxZero, GoStop
    <3>2. QED BY <2>1, <2>3, <3>1, <1>1, <1>3, <1>4, ReturnedLearning
  <2>4. QED BY <2>2, <2>3
<1>12. QED BY <1>9, <1>10, <1>11

\* From there on only box 0 is gone for.
LEMMA OnlyBoxZero ==
    ASSUME Learned, GoMore \/ GoLoad \/ GoWhile \/ GoCircle \/ GoNext \/ GoReturn
    PROVE  /\ StackOK /\ NumbersOK /\ DataOK /\ proc = "go" /\ Top \in GoFrames /\ Top \in Frames
           /\ Lesson(1) /\ ForBoxZero(Top) /\ stack[1] = Top
           /\ (Top.at \in {"more", "load"} => cnt[0] < Limit[0] \/ NumberReached)
           /\ (LoadedAll(Top) => loaded = Total)
<1>1. /\ StackOK /\ proc = "go" /\ Top \in GoFrames /\ Top \in Frames
      /\ Top.fn = "go_lbox" /\ (Top.lv = 0 \/ Top.at \notin {"enter", "box", "more"})
  BY TopTyped, FrameKinds
     DEF GoMore, GoLoad, GoWhile, GoCircle, GoNext, GoReturn, Learned, SessionInv, In
<1>2. NumbersOK /\ DataOK /\ \E k \in Nat : Lesson(k) BY <1>1, LessonFacts
<1>3. PICK k \in Nat : Lesson(k) BY <1>2
<1>4. k = 1 BY <1>1, <1>3, TopLayer DEF Aside
<1>5. ForBoxZero(Top) /\ stack[1] = Top /\ ~Fresh(Top) BY <1>1, <1>3, <1>4, TopLayer DEF Fresh
<1>6. Top.at \in {"more", "load"} => cnt[0] < Limit[0] \/ NumberReached
  BY <1>1, <1>3, <1>4, <1>5, TopLayer
<1>7. LoadedAll(Top) => loaded = Total
  BY <1>1, <1>3, StackSplit, CirclesPushed DEF Lesson, CirclesOK
<1>8. QED BY <1>1, <1>2, <1>3, <1>4, <1>5, <1>6, <1>7

\* The places a call for box 0 goes to.
LEMMA ZeroGoto ==
    ASSUME Top \in GoFrames, ForBoxZero(Top),
           NEW a \in {"box", "more", "load", "while", "for", "next", "return"}
    PROVE  /\ Goto(a) \in Frames /\ ForBoxZero(Goto(a)) /\ Goto(a).at = a
           /\ LoadedAll(Goto(a)) <=> a \in {"while", "for", "next"}
           /\ InCircles(Goto(a)) <=> a \in {"for", "next"}
<1> DEFINE f == Goto(a)
<1>1. f \in GoFrames BY DEF Goto, GoFrames
<1>2. f.fn = "go_lbox" /\ f.at = a /\ f.lv = Top.lv /\ f.type = Top.type
  BY DEF Goto, GoFrames
<1> HIDE DEF f
<1>3. QED BY <1>1, <1>2, KindsAreFrames DEF ForBoxZero, LoadedAll, InCircles, f

\* With room in box 0 a load of nothing means that all is loaded.
LEMMA NothingLeft ==
    ASSUME DataOK, KnowsAll, cnt[0] < Limit[0], ~(LoadCount(NumPerLoad) > 0)
    PROVE  loaded = Total
<1>1. Limit[0] \in Nat /\ Total \in Nat /\ NumPerLoad \in Nat /\ 0 \in Levels
  BY ConstantFacts, SessionAssumption
<1>2. cnt[0] \in Nat /\ loaded \in 0 .. Total BY <1>1 DEF DataOK, BoxesTypeOK
<1>3. NumPerLoad > 0 BY DEF KnowsAll
<1>4. QED BY <1>1, <1>2, <1>3 DEF LoadCount, SmallerOf

\* Box 1 is brought down before the load: that takes no room from box 0.
LEMMA GoMoreLearning ==
    ASSUME Learned, GoMore
    PROVE  Learning'
<1>1. /\ StackOK /\ NumbersOK /\ DataOK /\ proc = "go" /\ Top \in GoFrames /\ Top \in Frames
      /\ Lesson(1) /\ ForBoxZero(Top)
      /\ (Top.at \in {"more", "load"} => cnt[0] < Limit[0] \/ NumberReached)
  BY OnlyBoxZero
<1>2. Top.at = "more" /\ ~NumberReached /\ ~Unwinds(1) BY DEF GoMore, In, Unwinds
<1>3. ~LoadedAll(Top) /\ ~InCircles(Top) BY <1>2 DEF LoadedAll, InCircles
<1>4. UNCHANGED <<box, loaded, cnt, busy, pug, ugc, firstwhile, asked, cut>>
      /\ UNCHANGED <<proc, report>>
  BY DEF GoMore, Internal, Calm, data
<1> DEFINE f == Goto("load")
           q == Quota(cnt[1] - ReloadMin)
           g == InternalFrame(1, q)
<1>5. /\ f \in Frames /\ ForBoxZero(f) /\ f.at = "load" /\ ~LoadedAll(f) /\ ~InCircles(f)
  BY <1>1, ZeroGoto
<1>6. cnt'[0] < Limit[0] BY <1>1, <1>2, <1>4
<1>7. IF cnt[1] > ReloadMin THEN Call(g, f) ELSE Continue(f) BY DEF GoMore
<1>8. CASE cnt[1] > ReloadMin
  <2>1. 1 \in Asked /\ 1 \in Levels /\ ReloadMin \in Int BY ConstantFacts
  <2>2. cnt[1] - ReloadMin \in Int BY <1>1, <2>1 DEF DataOK
  <2>3. q \in Int BY <2>2, <1>1, QuotaTyped
  <2> HIDE DEF q
  <2>4. g \in Frames /\ Aside(g) BY <2>1, <2>3, NewFrames DEF Aside, InternalFrame
  <2> HIDE DEF f, g
  <2>5. Call(g, f) BY <1>7, <1>8
  <2>6. Lesson(2)' BY <2>4, <2>5, <1>1, <1>2, <1>3, <1>4, <1>5, <1>6, ZeroCallsAside
  <2>7. QED BY <2>6, <1>1, <1>4, LessonGoesOn
<1>9. CASE ~(cnt[1] > ReloadMin)
  <2> HIDE DEF f, g
  <2>1. Continue(f) BY <1>7, <1>9
  <2>2. Lesson(1)' BY <2>1, <1>1, <1>2, <1>3, <1>4, <1>5, <1>6, ZeroContinues
  <2>3. QED BY <2>2, <1>1, <1>4, LessonGoesOn
<1>10. QED BY <1>8, <1>9

\* A load of something is gone for first; of nothing, it was the last.
LEMMA GoLoadLearning ==
    ASSUME Learned, GoLoad
    PROVE  Learning'
<1> DEFINE n == LoadCount(NumPerLoad)
<1>1. /\ StackOK /\ NumbersOK /\ DataOK /\ proc = "go" /\ Top \in GoFrames /\ Top \in Frames
      /\ Lesson(1) /\ ForBoxZero(Top) /\ KnowsAll
      /\ (Top.at \in {"more", "load"} => cnt[0] < Limit[0] \/ NumberReached)
  BY OnlyBoxZero DEF Learned
<1>2. Top.at = "load" /\ cnt[0] < Limit[0] /\ ~Unwinds(1) BY <1>1 DEF GoLoad, In, Unwinds
<1>3. ~LoadedAll(Top) /\ ~InCircles(Top) BY <1>2 DEF LoadedAll, InCircles
<1>4. /\ n \in 0 .. Total - loaded /\ Total \in Nat /\ loaded \in 0 .. Total
      /\ (~(n > 0) => loaded = Total)
  BY <1>1, <1>2, LoadCountBounds, NothingLeft, ConstantFacts DEF DataOK, BoxesTypeOK
<1>5. loaded' = loaded + n /\ UNCHANGED <<busy, ugc, firstwhile, proc, report>>
  BY DEF GoLoad, DoLoad, Calm
<1>6. IF n > 0 THEN Call(GoFrame(0, "PUSH"), Goto("return")) ELSE Continue(Goto("while"))
  BY DEF GoLoad
<1> HIDE DEF n
<1>7. loaded = Total => n = 0 /\ loaded' = Total BY <1>4, <1>5
<1>8. CASE n > 0
  <2> DEFINE f == Goto("return")
             g == GoFrame(0, "PUSH")
  <2>1. f \in Frames /\ Waits(f) /\ ~LoadedAll(f) BY <1>1, ZeroGoto DEF Waits
  <2>2. g \in Frames BY ConstantFacts, NewFrames DEF GoTypes
  <2>3. ForBoxZero(g) /\ g.at = "enter" BY DEF ForBoxZero, GoFrame
  <2>4. Call(g, f) BY <1>6, <1>8
  <2> HIDE DEF f, g
  <2>5. Lesson(1)' BY <2>1, <2>2, <2>3, <2>4, <1>1, <1>2, <1>3, <1>5, <1>7, ZeroCallsZero
  <2>6. QED BY <2>5, <1>1, <1>5, LessonGoesOn
<1>9. CASE ~(n > 0)
  <2> DEFINE f == Goto("while")
  <2>1. f \in Frames /\ ForBoxZero(f) /\ f.at = "while" BY <1>1, ZeroGoto
  <2>2. Continue(f) BY <1>6, <1>9
  <2>3. loaded' = Total BY <1>4, <1>7, <1>9
  <2>4. firstwhile' = 1 => firstwhile = 1 /\ ~InCircles(Top) BY <1>3, <1>5
  <2> HIDE DEF f
  <2>5. Lesson(1)' BY <2>1, <2>2, <2>3, <2>4, <1>1, <1>2, ZeroContinues
  <2>6. QED BY <2>5, <1>1, <1>5, LessonGoesOn
<1>10. QED BY <1>8, <1>9

\* firstwhile is set as long as some call is in the circles.
LEMMA CirclesLearning ==
    ASSUME Learned, GoWhile \/ GoCircle \/ GoNext
    PROVE  Learning'
<1>1. /\ StackOK /\ NumbersOK /\ DataOK /\ proc = "go" /\ Top \in GoFrames /\ Top \in Frames
      /\ Lesson(1) /\ ForBoxZero(Top) /\ stack[1] = Top /\ (LoadedAll(Top) => loaded = Total)
  BY OnlyBoxZero
<1>2. LoadedAll(Top) /\ loaded = Total /\ ~Unwinds(1)
  BY <1>1 DEF GoWhile, GoCircle, GoNext, In, LoadedAll, ForBoxZero, Unwinds, Waits
<1>3. UNCHANGED <<box, loaded, cnt, busy, pug, ugc, asked, cut>>
      /\ UNCHANGED <<proc, report>>
  BY DEF GoWhile, GoCircle, GoNext, Internal, Calm, data
<1>4. ASSUME NEW f \in GoFrames, ForBoxZero(f), Continue(f), f.at \in {"while", "for", "next"},
             firstwhile' = 1 => InCircles(f)
      PROVE  Learning'
  <2>1. f \in Frames BY <1>4, KindsAreFrames
  <2>2. Lesson(1)' BY <2>1, <1>1, <1>2, <1>3, <1>4, ZeroContinues
  <2>3. QED BY <2>2, <1>1, <1>3, LessonGoesOn
<1>5. CASE GoWhile
  <2> DEFINE f == [Top EXCEPT !.at = "for", !.i = 1, !.j = 0]
  <2>1. f \in GoFrames BY <1>1, ConstantFacts DEF GoFrames
  <2>2. f.fn = Top.fn /\ f.at = "for" /\ f.lv = Top.lv /\ f.type = Top.type
    BY <1>1 DEF GoFrames
  <2>3. Continue(f) BY <1>5 DEF GoWhile
  <2> HIDE DEF f
  <2>4. ForBoxZero(f) /\ InCircles(f) BY <1>1, <2>2 DEF ForBoxZero, InCircles
  <2>5. QED BY <1>4, <2>1, <2>2, <2>3, <2>4
<1>6. CASE GoCircle
  <2>1. UNCHANGED firstwhile BY <1>6 DEF GoCircle, Internal
  <2>2. CASE Top.k = 0
    <3> DEFINE f == [Top EXCEPT !.k = 1, !.at = "next"]
    <3>1. f \in GoFrames BY <1>1 DEF GoFrames
    <3>2. f.fn = Top.fn /\ f.at = "next" /\ f.lv = Top.lv /\ f.type = Top.type
      BY <1>1 DEF GoFrames
    <3>3. Continue(f) BY <1>6, <2>2 DEF GoCircle
    <3> HIDE DEF f
    <3>4. ForBoxZero(f) /\ InCircles(f) BY <1>1, <3>2 DEF ForBoxZero, InCircles
    <3>5. QED BY <1>4, <3>1, <3>2, <3>3, <3>4
  <2>3. CASE Top.k # 0
    <3> DEFINE f == Goto("next")
               g == GoFrame(Top.j, "CLEAN")
    <3>1. f \in Frames /\ ForBoxZero(f) /\ f.at = "next" /\ InCircles(f) /\ Waits(f)
      BY <1>1, ZeroGoto DEF Waits
    <3>2. Top.j \in Asked BY <1>1 DEF GoFrames
    <3>3. g \in Frames BY <3>2, NewFrames DEF GoTypes
    <3>4. g.fn = "go_lbox" /\ g.lv = Top.j /\ g.type = "CLEAN" /\ g.at = "enter" BY DEF GoFrame
    <3>5. Call(g, f) BY <1>6, <2>3 DEF GoCircle
    <3> HIDE DEF f, g
    <3>6. CASE Top.j = 0
      <4>1. ForBoxZero(g) BY <3>4, <3>6 DEF ForBoxZero
      <4>2. Lesson(1)' BY <3>1, <3>3, <3>4, <3>5, <4>1, <2>1, <1>1, <1>2, <1>3, ZeroCallsZero
      <4>3. QED BY <4>2, <1>1, <1>3, LessonGoesOn
    <3>7. CASE Top.j # 0
      <4>1. Aside(g) BY <3>4, <3>7 DEF Aside
      <4>2. Lesson(2)' BY <3>1, <3>3, <3>5, <4>1, <2>1, <1>1, <1>2, <1>3, ZeroCallsAside
      <4>3. QED BY <4>2, <1>1, <1>3, LessonGoesOn
    <3>8. QED BY <3>6, <3>7
  <2>4. QED BY <2>2, <2>3
<1>7. CASE GoNext
  <2> DEFINE f == NextInCircle(Top)
  <2>1. f \in GoFrames BY <1>1, NextInCircleTyped
  <2>2. f.fn = Top.fn /\ f.at \in {"while", "for"} /\ f.lv = Top.lv /\ f.type = Top.type
    BY <1>1 DEF NextInCircle, GoFrames
  <2>3. Continue(f) /\ firstwhile' = FirstWhileAfter(f.at) BY <1>7 DEF GoNext
  <2> HIDE DEF f
  <2>4. ForBoxZero(f) BY <1>1, <2>2 DEF ForBoxZero
  <2>5. firstwhile' = 1 => InCircles(f) BY <2>2, <2>3, <2>4 DEF FirstWhileAfter, InCircles, ForBoxZero
  <2>6. QED BY <1>4, <2>1, <2>2, <2>3, <2>4, <2>5
<1>8. QED BY <1>5, <1>6, <1>7

\* A call for box 0 comes back with everything learnt, or into a call that is
\* still in the circles, or since the user's number is reached.
LEMMA GoReturnLearning ==
    ASSUME Learned, GoReturn
    PROVE  Learning'
<1>1. /\ StackOK /\ NumbersOK /\ DataOK /\ proc = "go" /\ Top \in GoFrames /\ Top \in Frames
      /\ Lesson(1) /\ ForBoxZero(Top) /\ stack[1] = Top
      /\ (LoadedAll(Top) => loaded = Total)
  BY OnlyBoxZero
<1>2. ~NumberReached => \/ Top.at = "return"
                        \/ Top.at = "while" /\ ~(firstwhile = 0 /\ cnt[MaxLevel] < loaded)
  BY <1>1 DEF GoReturn, In
<1>3. UNCHANGED <<box, loaded, cnt, busy, pug, ugc, firstwhile, asked, cut>> /\ Return(Top.ret)
  BY DEF GoReturn, data
<1>4. ~NumberReached => (firstwhile = 0 => cnt[MaxLevel] >= Total)
  <2>1. CASE Top.at = "return" BY <2>1, <1>1 DEF Lesson, LearntOK
  <2>2. CASE Top.at = "while"
    <3>1. loaded = Total BY <2>2, <1>1 DEF LoadedAll, ForBoxZero
    <3>2. cnt[MaxLevel] \in Nat /\ Total \in Nat BY <1>1, ConstantFacts DEF DataOK, Levels
    <3>3. QED BY <2>2, <3>1, <3>2, <1>2
  <2>3. QED BY <1>2, <2>1, <2>2
<1>5. (~NumberReached => ~InCircles(Top)) /\ Top.ret \in Int BY <1>1, <1>2 DEF InCircles, GoFrames
<1>6. QED BY <1>1, <1>3, <1>4, <1>5, ReturnedLearning

\* At the prompt the last box is left alone, and a session starts with one call.
LEMMA PromptLearning ==
    ASSUME Learned, CmdLoad \/ CmdGo \/ CmdExit \/ Restart \/ Interrupt \/ Eof
    PROVE  Learning'
<1>0. Learning /\ DataOK BY DEF Learned, SessionInv
<1>1. CASE CmdLoad
  <2>1. PICK arg \in LoadArgs : DoLoad(LoadCount(arg)) BY <1>1 DEF CmdLoad
  <2>2. 0 \in Levels /\ MaxLevel \in Levels /\ MaxLevel # 0 /\ cnt \in [Levels -> Nat]
    BY <1>0, ConstantFacts DEF DataOK, Levels
  <2>3. cnt'[MaxLevel] = cnt[MaxLevel] /\ busy' = busy BY <2>1, <2>2 DEF DoLoad
  <2>4. proc = "idle" /\ proc' = "idle" /\ UNCHANGED <<report, ugc, asked>>
    BY <1>1 DEF CmdLoad, control
  <2>5. QED BY <1>0, <2>3, <2>4 DEF Learning
<1>2. CASE CmdGo
  <2> DEFINE g == GoFrame(0, "PUSH")
  <2>3. stack' = <<g>> /\ firstwhile' = 0 /\ proc' = "go" /\ UNCHANGED data
    BY <1>2 DEF CmdGo, FirstWhileAtStart
  <2>4. ForBoxZero(g) /\ g.at = "enter" BY DEF ForBoxZero, GoFrame
  <2> HIDE DEF g
  <2>5. Len(stack') = 1 /\ stack'[1] = g BY <2>3
  <2>6. Layered(stack', 1) BY <2>4, <2>5 DEF Layered
  <2>7. ~HasLoadedAll(stack') BY <2>4, <2>5 DEF HasLoadedAll, LoadedAll
  <2>8. CirclesOK(1)' BY <2>3, <2>7 DEF CirclesOK
  <2>9. Lesson(1)' BY <2>4, <2>5, <2>6, <2>8 DEF Lesson, RoomOK, LearntOK
  <2>10. busy'[0] = 0 BY <1>0, <2>3 DEF Learning, data
  <2>11. QED BY <2>3, <2>9, <2>10 DEF Learning
<1>3. CASE CmdExit BY <1>0, <1>3 DEF CmdExit, Learning, data
<1>4. CASE Restart BY <1>0, <1>4 DEF Restart, Learning, data
<1>5. CASE Interrupt \/ Eof
  <2>1. proc = "go" /\ proc' \in {"idle", "down"} /\ UNCHANGED data /\ report' = report
    BY <1>5 DEF Interrupt, Eof, Asking, In
  <2>2. report = NoReport BY <2>1, LessonFacts
  <2>3. QED BY <1>0, <2>1, <2>2 DEF Learning, data
<1>6. QED BY <1>1, <1>2, <1>3, <1>4, <1>5

LEMMA InitLearning == SessionInit => Learning
<1> SUFFICES ASSUME SessionInit PROVE Learning
  OBVIOUS
<1>1. busy = [l \in Levels |-> 0] /\ proc = "idle" /\ report = NoReport /\ 0 \in Levels
  BY ConstantFacts DEF SessionInit
<1>2. QED BY <1>1 DEF Learning

LEMMA StepLearning ==
    ASSUME Learned, [SessionNext]_vars
    PROVE  Learning'
<1>1. CASE CmdLoad \/ CmdGo \/ CmdExit \/ Restart \/ Interrupt \/ Eof
  BY <1>1, PromptLearning
<1>2. CASE \E wrong_pos \in Answers : Answer(wrong_pos)
  BY <1>2, AnsweredLearning
<1>3. CASE InternalReturn \/ MoveReturn \/ MakeWay BY <1>3, AsideStepsLearning
<1>4. CASE GoEnter \/ GoBox \/ GoStop BY <1>4, BeforeLoadLearning
<1>5. CASE GoMore BY <1>5, GoMoreLearning
<1>6. CASE GoLoad BY <1>6, GoLoadLearning
<1>7. CASE GoWhile \/ GoCircle \/ GoNext BY <1>7, CirclesLearning
<1>8. CASE GoReturn BY <1>8, GoReturnLearning
<1>9. CASE UNCHANGED vars
  BY <1>9 DEF vars, control, data, Learned, Learning, Lesson, CirclesOK, RoomOK,
                  LearntOK, Unwinds, NumberReached
<1>10. QED BY <1>1, <1>2, <1>3, <1>4, <1>5, <1>6, <1>7, <1>8, <1>9 DEF SessionNext, Run

\* A box holds no more VSes than there are.
LEMMA BoxFits ==
    ASSUME BoxesTypeOK, EachOnce, NEW l \in Levels
    PROVE  Len(box[l]) <= Total
<1> DEFINE S == 1 .. Len(box[l])
           T == 0 .. Total - 1
           f == [p \in S |-> box[l][p]]
<1>1. Total \in Nat /\ box[l] \in Seq(Items) /\ Len(box[l]) \in Nat
  BY ConstantFacts DEF BoxesTypeOK
<1>2. f \in [S -> T] BY <1>1 DEF Items
<1>3. \A p, q \in S : f[p] = f[q] => p = q BY DEF EachOnce, NoDuplicate
<1>4. IsFiniteSet(S) /\ Cardinality(S) = Len(box[l]) BY <1>1, FS_Interval
<1>5. IsFiniteSet(T) /\ Cardinality(T) = Total
  <2>1. 0 \in Int /\ Total - 1 \in Int BY <1>1
  <2>2. IsFiniteSet(T) /\ Cardinality(T) = IF 0 > Total - 1 THEN 0 ELSE (Total - 1) - 0 + 1
    BY <2>1, FS_Interval
  <2>3. (IF 0 > Total - 1 THEN 0 ELSE (Total - 1) - 0 + 1) = Total BY <1>1
  <2>4. QED BY <2>2, <2>3
<1> HIDE DEF S, T, f
<1>6. ~(Cardinality(T) < Cardinality(S)) BY <1>2, <1>3, <1>4, <1>5, FS_PigeonHole
<1>7. QED BY <1>1, <1>4, <1>5, <1>6

-----------------------------------------------------------------------------
(* The theorems *)

LEMMA InvGives == SessionInv => SessionTypeOK /\ CountsAgree
  BY DEF SessionInv, DataOK, StackOK, NumbersOK, SessionTypeOK

\* Every variable of the session keeps its type: the stack holds frames of boxes
\* whose VSes are asked for, so no call looks behind the last box.
THEOREM SessionKeepsTypes == SessionSpec => []SessionTypeOK
<1>1. SessionInit => SessionInv BY InitInv
<1>2. SessionInv /\ [SessionNext]_vars => SessionInv' BY StepInv
<1>3. SessionInv => SessionTypeOK BY InvGives
<1>4. QED BY <1>1, <1>2, <1>3, PTL DEF SessionSpec

\* vs_cnt + vs_busy_cnt is the length of every list, vs_cnt stays within
\* vs_limit, and VSes are busy in full boxes only, so the question loop never
\* takes the head of an empty list.
THEOREM SessionKeepsCounts == SessionSpec => []CountsAgree
<1>1. SessionInit => SessionInv BY InitInv
<1>2. SessionInv /\ [SessionNext]_vars => SessionInv' BY StepInv
<1>3. SessionInv => CountsAgree BY InvGives
<1>4. QED BY <1>1, <1>2, <1>3, PTL DEF SessionSpec

\* Whatever the recursion does to the boxes is loads and moves of LtBoxes.
THEOREM SessionImplementsBoxes == SessionSpec => BoxesSpec
<1>1. SessionInit => SessionInv /\ BoxesInit BY InitInv
<1>2. SessionInv /\ [SessionNext]_vars => SessionInv' /\ [BoxesNext]_boxVars BY StepInv
<1>3. QED BY <1>1, <1>2, PTL DEF SessionSpec, BoxesSpec

\* So the session loses no VS and has none twice.
THEOREM SessionHoldsEachOnce == SessionSpec => []EachOnce
<1>1. SessionSpec => BoxesSpec BY SessionImplementsBoxes
<1>2. BoxesSpec => [](BoxesTypeOK /\ EachOnce) BY BoxesHoldEachOnce
<1>3. QED BY <1>1, <1>2, PTL

\* Every question is accounted for once, whichever call asks it and however the
\* calls are nested: what is left of the user's number, and what the session
\* reports when it comes back, agree with the questions asked.
THEOREM SessionAccountsForQuestions == SessionSpec => []QuestionsAccounted
<1>1. SessionInit => SessionInv /\ Accounted BY InitInv, InitAccounted
<1>2. (SessionInv /\ Accounted) /\ [SessionNext]_vars => (SessionInv /\ Accounted)'
  BY StepInv, StepAccounted
<1>3. SessionInv /\ Accounted => QuestionsAccounted
  BY DEF Accounted, TalliesOK, QuestionsAccounted
<1>4. QED BY <1>1, <1>2, <1>3, PTL DEF SessionSpec

\* A box above the first is never left full behind a call: as long as no session
\* was cut short, some active move_to_lbox is making way in it.
THEOREM SessionRelievesFull == SessionSpec => []FullIsRelieved
<1>1. SessionInit => SessionInv /\ Accounted BY InitInv, InitAccounted
<1>2. (SessionInv /\ Accounted) /\ [SessionNext]_vars => (SessionInv /\ Accounted)'
  BY StepInv, StepAccounted
<1>3. SessionInv /\ Accounted => FullIsRelieved
  BY DEF Accounted, RelievesOK, FullIsRelieved, Making, Makes
<1>4. QED BY <1>1, <1>2, <1>3, PTL DEF SessionSpec

\* A user who knows every answer (a wrong one at the last try does not send a VS
\* back) gets the prompt back only when the number given to "go" is reached exactly
\* or every VS of the vs file is in the last box: no nested call ends the session
\* with a VS left in a box or in the vs file, whatever the limits and quotas are.
THEOREM SessionComesBackDone == ASSUME KnowsAll PROVE SessionSpec => []ComesBackDone
<1>1. SessionInit => SessionInv /\ Accounted /\ Learning
  BY InitInv, InitAccounted, InitLearning
<1>2. (SessionInv /\ Accounted /\ Learning) /\ [SessionNext]_vars
         => (SessionInv /\ Accounted /\ Learning)'
  BY KnowsAll, StepInv, StepAccounted, StepLearning DEF Learned
<1>3. SessionSpec => []EachOnce BY SessionHoldsEachOnce
<1>4. SessionInv /\ Accounted /\ Learning /\ EachOnce => ComesBackDone
  <2> SUFFICES ASSUME SessionInv, Learning, EachOnce, proc = "idle", report # NoReport,
                      ~(ugc > 0 /\ asked = ugc)
               PROVE  Len(box[MaxLevel]) = Total
    BY DEF ComesBackDone
  <2>1. /\ BoxesTypeOK /\ MaxLevel \in Levels /\ Total \in Nat
        /\ cnt[MaxLevel] \in Nat /\ busy[MaxLevel] \in Nat
        /\ Len(box[MaxLevel]) = cnt[MaxLevel] + busy[MaxLevel]
    BY ConstantFacts DEF SessionInv, DataOK, CountsAgree, Levels
  <2>2. cnt[MaxLevel] >= Total BY DEF Learning
  <2>3. Len(box[MaxLevel]) <= Total BY <2>1, BoxFits
  <2>4. QED BY <2>1, <2>2, <2>3
<1>5. QED BY <1>1, <1>2, <1>3, <1>4, PTL DEF SessionSpec
=============================================================================
