------------------------------ MODULE LtMetaProofs -----------------------------
(***************************************************************************)
(* For every number of boxes, every table of limits and every vs file, a   *)
(* process killed or interrupted outside of the two windows leaves a meta  *)
(* file whose chains are the lists of the boxes; it costs the VS in hand   *)
(* at most, and nothing brings that one back.  Until then the stores of    *)
(* move_to_lbox and cmd_load are moves and loads of LtBoxes.               *)
(*                                                                         *)
(* The invariant follows a move and a load store by store: which chain has *)
(* been led around the VS in hand already, which box counts one too many   *)
(* or too few, and where the VS in hand is.                                *)
(***************************************************************************)
EXTENDS LtMeta, SequenceTheorems, FiniteSetTheorems, WellFoundedInduction, TLAPS

Loading  == {"l_link", "l_end", "l_append", "l_count", "l_total"}
Moving   == {"first", "unlink", "uncount", "refill", "unbusy", "link", "end", "append", "count",
             "level"}
OffList  == {"uncount", "refill", "unbusy", "link", "end", "append", "l_link", "l_end", "l_append"}
Appended == {"count", "level", "l_count", "l_total"}
Linked   == {"end", "append", "l_end", "l_append"}

-----------------------------------------------------------------------------
(* What holds whatever was killed: the type, and what its stores need *)

ControlOK ==
    /\ at \in {"first", "unlink"} => list[old] # <<>>
    /\ at \in {"first", "unlink", "uncount"} => cnt[old] # 0
    /\ at \in {"refill", "unbusy"} => busy[old] # 0
    /\ at \in Moving => old \in Asked /\ new \in {0, old + 1}
    /\ at \notin Moving => new = 0
    /\ at \in Loading => /\ item = cur /\ todo \in 1 .. Total - cur
                         /\ cnt[0] + todo <= Limit[0] + (IF at = "l_total" THEN 1 ELSE 0)
    /\ proc = "down" => at = "idle" /\ kills > 0
    /\ fatal => kills > 0

-----------------------------------------------------------------------------
(* What holds of the lists S of the boxes, in memory or found in the file *)

Distinct(S) ==
    \A l, m \in Levels : \A p \in 1 .. Len(S[l]), q \in 1 .. Len(S[m]) :
        S[l][p] = S[m][q] => l = m /\ p = q

Links(s) == \A j \in 1 .. Len(s) - 1 : next[s[j]] = s[j + 1]

Chain(l, s) == /\ StoredLen(l) = Len(s)
               /\ s # <<>> => first[l] = s[1]
               /\ Links(s)

WithinLimit(l) == l # MaxLevel => cnt[l] <= Limit[l]

\* The file describes S.
Describes(S) ==
    /\ S \in [Levels -> Seq(Items)]
    /\ Distinct(S)
    /\ \A l \in Levels : /\ Chain(l, S[l]) /\ WithinLimit(l)
                         /\ busy[l] > 0 => Full(l)
                         /\ \A p \in 1 .. Len(S[l]) : S[l][p] < cur

-----------------------------------------------------------------------------
(* The process that is up, store by store *)

\* By how much the list of a box is longer than its counters say.
Surplus(l) == IF at \in {"uncount", "unbusy"} /\ l = old THEN -1
              ELSE IF at \in {"count", "l_count"} /\ l = new THEN 1 ELSE 0

Led(l) == IF at = "unlink" /\ l = old
            THEN Len(list[l]) > 1 => first[l] = list[l][2]
            ELSE list[l] # <<>> => first[l] = list[l][1]

CountsFit(l) ==
    /\ Len(list[l]) = StoredLen(l) + Surplus(l)
    /\ WithinLimit(l)
    /\ busy[l] > 0 => IF at = "refill" /\ l = old
                        THEN l # MaxLevel /\ cnt[l] + 1 = Limit[l]
                        ELSE Full(l)

IsTail(l, p) == l = new /\ p = Len(list[l])

PlacesFit(l) ==
    \A p \in 1 .. Len(list[l]) :
        /\ level[list[l][p]] = l \/ (at \in {"count", "level"} /\ IsTail(l, p))
        /\ list[l][p] < cur \/ (at \in {"l_count", "l_total"} /\ IsTail(l, p))
        /\ at \in OffList => list[l][p] # item

\* The VS in hand.
InHand ==
    /\ at \in Moving => item < cur
    /\ at \in {"first", "unlink"} => item = list[old][1]
    /\ at \in Appended => list[new] # <<>> /\ item = list[new][Len(list[new])]
    /\ at \in Linked => IF cnt[new] = 0 THEN first[new] = item
                                        ELSE next[list[new][Len(list[new])]] = item

ListsFit ==
    /\ Distinct(list)
    /\ \A l \in Levels : Links(list[l]) /\ Led(l) /\ CountsFit(l) /\ PlacesFit(l)
    /\ InHand

\* The loaded VSes on none of the lists S.
Missing(S) == {i \in Items \ Unloaded : \A l \in Levels : \A p \in 1 .. Len(S[l]) : S[l][p] # i}

\* The list without its last VS.
Front(s) == [p \in 1 .. Len(s) - 1 |-> s[p]]

-----------------------------------------------------------------------------
(* Numbers and sequences *)

\* Every set of numbers has a least one: what the arguments along a chain rest on.
LEMMA Least ==
    ASSUME NEW T, T \subseteq Nat, T # {}
    PROVE  \E n \in T : \A m \in T : n <= m
<1> DEFINE R == OpToRel(<, Nat)
<1>1. IsWellFoundedOn(R, Nat) BY NatLessThanWellFounded
<1>2. \A x, y \in Nat : <<x, y>> \in R <=> x < y BY DEF OpToRel
<1> HIDE DEF R
<1>3. PICK n \in T : \A m \in T : ~(<<m, n>> \in R) BY <1>1, WFMin
<1>4. \A m \in T : ~(m < n) BY <1>2, <1>3
<1>5. QED BY <1>3, <1>4

LEMMA HeadTail ==
    ASSUME NEW S, NEW s \in Seq(S), s # <<>>
    PROVE  /\ Len(s) \in Nat \ {0}
           /\ Head(s) = s[1] /\ Head(s) \in S
           /\ Tail(s) \in Seq(S) /\ Len(Tail(s)) = Len(s) - 1
           /\ \A p \in 1 .. Len(s) - 1 : Tail(s)[p] = s[p + 1]
  OBVIOUS

LEMMA AppendAt ==
    ASSUME NEW S, NEW s \in Seq(S), NEW x \in S
    PROVE  /\ Append(s, x) \in Seq(S) /\ Len(Append(s, x)) = Len(s) + 1
           /\ \A p \in 1 .. Len(s) : Append(s, x)[p] = s[p]
           /\ Append(s, x)[Len(s) + 1] = x
  OBVIOUS

LEMMA MetaConstants ==
    /\ MaxLevel \in Nat \ {0} /\ Total \in Nat /\ MaxKills \in Nat
    /\ 0 \in Asked /\ 0 \in Levels /\ Asked \subseteq Levels /\ MaxLevel \in Levels
    /\ \A l \in Asked : l # MaxLevel /\ l + 1 \in Levels /\ Limit[l] \in Nat \ {0}
    /\ \A l \in Levels : l # MaxLevel => l \in Asked
    /\ \A l \in Levels : l # 0 => l - 1 \in Levels
    /\ Items \subseteq Nat /\ NameWord \in Nat
  BY MetaAssumption DEF Levels, Asked, Items

-----------------------------------------------------------------------------
(* Types *)

\* The meta file, the memory and the environment each keep their type.
FileTyped ==
    /\ first \in [Levels -> Nat \cup {NoMore, NewFirst}]
    /\ cnt \in [Levels -> Nat] /\ busy \in [Levels -> Nat]
    /\ next \in [Items -> Items \cup {NoMore}]
    /\ cur \in 0 .. Total
MemoryTyped ==
    /\ list \in [Levels -> Seq(Items)] /\ level \in [Items -> Levels]
    /\ at \in {"idle"} \cup Moving \cup Loading
    /\ at # "idle" => item \in Items
    /\ new \in Levels /\ todo \in 0 .. Total
EnvTyped == proc \in {"up", "down", "broken"} /\ kills \in 0 .. MaxKills /\ fatal \in BOOLEAN

Typed == FileTyped /\ MemoryTyped /\ EnvTyped /\ ControlOK

UpFits == proc = "up" /\ ~fatal => ListsFit /\ Cardinality(Lost) <= kills
DownFits == proc = "down" /\ ~fatal => Describes(Found) /\ Cardinality(Missing(Found)) <= kills

MetaInv == Typed /\ UpFits /\ DownFits /\ (proc = "broken" => fatal)

\* In a move, in a load and between them.
LEMMA InMove ==
    ASSUME Typed, at \in Moving
    PROVE  /\ item \in Items /\ old \in Asked /\ old \in Levels /\ new \in {0, old + 1}
           /\ list[old] \in Seq(Items) /\ list[new] \in Seq(Items)
           /\ cnt[old] \in Nat /\ busy[old] \in Nat /\ cnt[new] \in Nat /\ busy[new] \in Nat
           /\ at \in {"first", "unlink"} => list[old] # <<>> /\ Len(list[old]) \in Nat \ {0}
<1>1. at # "idle" BY DEF Moving
<1>2. item \in Items /\ old \in Asked /\ old \in Levels /\ new \in Levels /\ new \in {0, old + 1}
  BY <1>1, MetaConstants DEF Typed, FileTyped, MemoryTyped, ControlOK
<1>3. list[old] \in Seq(Items) /\ list[new] \in Seq(Items)
  BY <1>2 DEF Typed, FileTyped, MemoryTyped
<1>4. cnt[old] \in Nat /\ busy[old] \in Nat /\ cnt[new] \in Nat /\ busy[new] \in Nat
  BY <1>2 DEF Typed, FileTyped, MemoryTyped
<1>5. at \in {"first", "unlink"} => list[old] # <<>> /\ Len(list[old]) \in Nat \ {0}
  BY <1>3, HeadTail DEF Typed, ControlOK
<1>6. QED BY <1>2, <1>3, <1>4, <1>5

LEMMA InitTyped == MetaInit => Typed
<1> SUFFICES ASSUME MetaInit PROVE Typed
  OBVIOUS
<1>1. FileTyped
  <2>1. first \in [Levels -> Nat \cup {NoMore, NewFirst}] BY DEF MetaInit
  <2>2. next \in [Items -> Items \cup {NoMore}]
    BY MetaConstants DEF MetaInit, Items
  <2>3. QED BY <2>1, <2>2, MetaConstants DEF MetaInit, FileTyped
<1>2. MemoryTyped BY MetaConstants DEF MetaInit, MemoryTyped
<1>3. EnvTyped
  <2>1. proc \in {"up", "down", "broken"} /\ fatal \in BOOLEAN BY DEF MetaInit
  <2>2. kills \in 0 .. MaxKills BY MetaConstants DEF MetaInit
  <2>3. QED BY <2>1, <2>2 DEF EnvTyped
<1>4. ControlOK BY DEF MetaInit, ControlOK, Moving, Loading
<1>5. QED BY <1>1, <1>2, <1>3, <1>4 DEF Typed

LEMMA Starts ==
    ASSUME Typed,
           \/ \E l \in Asked, to \in Levels : to \in {0, l + 1} /\ MoveStart(l, to)
           \/ \E n \in 1 .. Total : LoadStart(n)
    PROVE  Typed'
<1>1. CASE \E l \in Asked, to \in Levels : to \in {0, l + 1} /\ MoveStart(l, to)
  <2>1. PICK l \in Asked, to \in Levels : to \in {0, l + 1} /\ MoveStart(l, to)
    BY <1>1
  <2>2. l \in Levels /\ list[l] \in Seq(Items) /\ list[l] # <<>> /\ level[Head(list[l])] = l
    BY <2>1, MetaConstants DEF MoveStart, HeadBelongs, Typed, FileTyped, MemoryTyped
  <2>3. item' \in Items /\ level'[item'] = l /\ new' = to /\ at' = "first"
    BY <2>1, <2>2, HeadTail DEF MoveStart
  <2>4. FileTyped' /\ EnvTyped'
    BY <2>1 DEF MoveStart, Typed, file, FileTyped, EnvTyped
  <2>5. MemoryTyped'
    BY <2>1, <2>3 DEF MoveStart, Typed, MemoryTyped, Moving
  <2>6. ControlOK'
    <3>1. old' = l BY <2>3 DEF old
    <3>2. cnt' = cnt /\ list' = list /\ cnt[l] # 0 /\ proc' = "up" /\ UNCHANGED <<kills, fatal>>
      BY <2>1 DEF MoveStart, file
    <3>3. QED BY <2>1, <2>2, <2>3, <3>1, <3>2 DEF Typed, ControlOK, Moving, Loading
  <2>7. QED BY <2>4, <2>5, <2>6 DEF Typed
<1>2. CASE \E n \in 1 .. Total : LoadStart(n)
  <2>1. PICK n \in 1 .. Total : LoadStart(n) BY <1>2
  <2>2. cur \in 0 .. Total /\ n \in 1 .. Total - cur /\ cur \in Items /\ n \in 0 .. Total
        /\ cnt[0] \in Nat /\ Limit[0] \in Nat /\ cnt[0] + n <= Limit[0]
    <3>1. cur \in 0 .. Total /\ cnt[0] \in Nat /\ Limit[0] \in Nat /\ Total \in Nat
      BY MetaConstants DEF Typed, FileTyped
    <3>2. n <= Limit[0] - cnt[0] /\ n <= Total - cur BY <2>1 DEF LoadStart
    <3>3. QED BY <3>1, <3>2 DEF Items
  <2>3. FileTyped' /\ EnvTyped'
    BY <2>1 DEF LoadStart, Typed, file, FileTyped, EnvTyped
  <2>4. MemoryTyped'
    BY <2>1, <2>2 DEF LoadStart, Typed, MemoryTyped, Loading
  <2>5. ControlOK'
    BY <2>1, <2>2 DEF LoadStart, Typed, ControlOK, Moving, Loading, file
  <2>6. QED BY <2>3, <2>4, <2>5 DEF Typed
<1>3. QED BY <1>1, <1>2

\* The stores of a move into the counters.
LEMMA CountersTyped ==
    ASSUME Typed, MoveUncount \/ MoveRefill \/ MoveUnbusy \/ MoveCount
    PROVE  Typed'
<1>0. at \in Moving /\ at' \in Moving /\ proc = "up" /\ at \notin {"first", "unlink"}
      /\ at' \notin {"first", "unlink", "uncount"}
      /\ (at' = "refill" => busy'[old] # 0)
      /\ (at' = "unbusy" => at = "refill" /\ busy' = busy)
  BY DEF MoveUncount, MoveRefill, MoveUnbusy, MoveCount, At, Moving
<1>1. /\ item \in Items /\ old \in Levels /\ new \in Levels /\ old \in Asked /\ new \in {0, old + 1}
      /\ cnt[old] \in Nat /\ busy[old] \in Nat /\ cnt[new] \in Nat /\ busy[new] \in Nat
  BY <1>0, InMove DEF Typed, FileTyped, MemoryTyped
<1>2. UNCHANGED <<first, next, cur, list, level, item, new, todo, proc, kills, fatal>>
  BY DEF MoveUncount, MoveRefill, MoveUnbusy, MoveCount
<1>3. cnt' \in [Levels -> Nat] /\ busy' \in [Levels -> Nat]
  <2>1. CASE MoveUncount
    <3>1. cnt[old] # 0 BY <2>1 DEF MoveUncount, At, Typed, ControlOK
    <3>2. cnt[old] - 1 \in Nat BY <3>1, <1>1
    <3>3. QED BY <2>1, <3>2 DEF MoveUncount, Typed, FileTyped, MemoryTyped
  <2>2. CASE MoveRefill
    <3>1. cnt[old] + 1 \in Nat BY <1>1
    <3>2. QED BY <2>2, <3>1 DEF MoveRefill, Typed, FileTyped, MemoryTyped
  <2>3. CASE MoveUnbusy
    <3>1. busy[old] # 0 BY <2>3 DEF MoveUnbusy, At, Typed, ControlOK
    <3>2. busy[old] - 1 \in Nat BY <3>1, <1>1
    <3>3. QED BY <2>3, <3>2 DEF MoveUnbusy, Typed, FileTyped, MemoryTyped
  <2>4. CASE MoveCount
    <3>1. cnt[new] + 1 \in Nat /\ busy[new] + 1 \in Nat BY <1>1
    <3>2. QED BY <2>4, <3>1 DEF MoveCount, CountIn, Typed, FileTyped, MemoryTyped
  <2>5. QED BY <2>1, <2>2, <2>3, <2>4
<1>4. FileTyped' BY <1>2, <1>3 DEF FileTyped, Typed
<1>5. EnvTyped' BY <1>2 DEF EnvTyped, Typed
<1>6. MemoryTyped' BY <1>0, <1>1, <1>2 DEF MemoryTyped, Typed
<1>7. ControlOK'
  <2>1. old' = old BY <1>2 DEF old
  <2>2. at' = "unbusy" => busy'[old] # 0 BY <1>0 DEF ControlOK, Typed
  <2>3. QED BY <1>0, <1>1, <1>2, <2>1, <2>2 DEF ControlOK, Typed, Moving, Loading
<1>8. QED BY <1>4, <1>5, <1>6, <1>7 DEF Typed

\* Those into the chains.
LEMMA ChainsTyped ==
    ASSUME Typed, MoveFirst \/ MoveLink \/ MoveEnd \/ LoadLink \/ LoadEnd
    PROVE  Typed'
<1>0. /\ at \in Moving => at' \in Moving
      /\ at \in Loading => at' \in Loading /\ at' # "l_total" /\ at # "l_total"
      /\ at \in Moving \cup Loading
      /\ at' \notin {"first", "uncount", "refill", "unbusy"}
      /\ at' = "unlink" => at = "first"
      /\ proc = "up"
  BY DEF MoveFirst, MoveLink, MoveEnd, LoadLink, LoadEnd, At, Moving, Loading
<1>1. item \in Items /\ old \in Levels /\ new \in Levels
  <2>1. at # "idle" BY <1>0 DEF Moving, Loading
  <2>2. QED BY <2>1 DEF Typed, MemoryTyped, old
<1>2. UNCHANGED <<cnt, busy, cur, list, level, item, new, todo, proc, kills, fatal>>
  BY DEF MoveFirst, MoveLink, MoveEnd, LoadLink, LoadEnd
<1>3. /\ first' \in [Levels -> Nat \cup {NoMore, NewFirst}]
      /\ next' \in [Items -> Items \cup {NoMore}]
  <2>1. CASE MoveFirst
    <3>1. list[old] \in Seq(Items) BY <1>1 DEF Typed, FileTyped, MemoryTyped
    <3>2. Len(list[old]) > 1 => list[old][2] \in Nat
      <4>1. Len(list[old]) > 1 => list[old][2] \in Items BY <3>1
      <4>2. QED BY <4>1, MetaConstants
    <3>3. Garbage(old) \in Nat BY <1>1, MetaConstants DEF Garbage, Typed, FileTyped, MemoryTyped
    <3>4. QED BY <2>1, <3>2, <3>3 DEF MoveFirst, Typed, FileTyped, MemoryTyped
  <2>2. CASE MoveLink \/ LoadLink
    <3>1. PICK l \in Levels : LinkTo(l, item) /\ HasLast(l)
      BY <2>2, <1>1, MetaConstants DEF MoveLink, LoadLink
    <3>2. cnt[l] # 0 => list[l][Len(list[l])] \in Items
      <4>1. list[l] \in Seq(Items) BY <3>1 DEF Typed, FileTyped, MemoryTyped
      <4>2. QED BY <4>1, <3>1, HeadTail DEF HasLast
    <3>3. item \in Nat BY <1>1, MetaConstants
    <3>4. first \in [Levels -> Nat \cup {NoMore, NewFirst}] /\ next \in [Items -> Items \cup {NoMore}]
      BY <1>1 DEF Typed, FileTyped
    <3>5. CASE cnt[l] = 0
      BY <3>1, <3>3, <3>4, <3>5 DEF LinkTo
    <3>6. CASE cnt[l] # 0
      <4>1. next' = [next EXCEPT ![list[l][Len(list[l])]] = item] /\ first' = first
        BY <3>1, <3>6 DEF LinkTo
      <4>2. item \in Items BY <1>1
      <4>3. QED BY <3>4, <4>1, <4>2
    <3>7. QED BY <3>5, <3>6
  <2>3. CASE MoveEnd \/ LoadEnd
    BY <2>3, <1>1 DEF MoveEnd, LoadEnd, Typed, FileTyped, MemoryTyped
  <2>4. QED BY <2>1, <2>2, <2>3
<1>4. FileTyped' BY <1>2, <1>3 DEF FileTyped, Typed
<1>5. EnvTyped' BY <1>2 DEF EnvTyped, Typed
<1>6. MemoryTyped' BY <1>0, <1>1, <1>2 DEF MemoryTyped, Typed
<1>7. ControlOK'
  <2>1. old' = old BY <1>2 DEF old
  <2>2. QED BY <1>0, <1>2, <2>1 DEF ControlOK, Typed, Moving, Loading
<1>8. QED BY <1>4, <1>5, <1>6, <1>7 DEF Typed

\* Those into the lists.
LEMMA ListsTyped ==
    ASSUME Typed, MoveUnlink \/ MoveAppend \/ LoadAppend
    PROVE  Typed'
<1>0. at # "idle" /\ proc = "up"
  BY DEF MoveUnlink, MoveAppend, LoadAppend, At
<1>1. item \in Items /\ old \in Levels /\ new \in Levels /\ 0 \in Levels
      /\ list \in [Levels -> Seq(Items)] /\ level \in [Items -> Levels]
  BY <1>0, MetaConstants DEF Typed, MemoryTyped, old
<1>2. UNCHANGED <<file, item, new, todo, kills, fatal>>
  BY DEF MoveUnlink, MoveAppend, LoadAppend
<1>3. list' \in [Levels -> Seq(Items)] /\ level' \in [Items -> Levels]
  <2>1. CASE MoveUnlink
    <3>1. list[old] # <<>> BY <2>1 DEF MoveUnlink, At, Typed, ControlOK
    <3>2. Tail(list[old]) \in Seq(Items) BY <3>1, <1>1, HeadTail
    <3>3. QED BY <2>1, <3>2, <1>1 DEF MoveUnlink
  <2>2. CASE MoveAppend
    <3>1. Append(list[new], item) \in Seq(Items) BY <1>1, AppendAt
    <3>2. QED BY <2>2, <3>1, <1>1 DEF MoveAppend
  <2>3. CASE LoadAppend
    <3>1. Append(list[0], item) \in Seq(Items) BY <1>1, AppendAt
    <3>2. QED BY <2>3, <3>1, <1>1 DEF LoadAppend
  <2>4. QED BY <2>1, <2>2, <2>3
<1>4. proc' \in {"up", "broken"}
  BY <1>0 DEF MoveUnlink, MoveAppend, LoadAppend
<1>5. FileTyped' BY <1>2 DEF FileTyped, Typed, file
<1>6. EnvTyped' BY <1>2, <1>4 DEF EnvTyped, Typed
<1>7. /\ at \in Moving => at' \in {"uncount", "count"} /\ at \in {"unlink", "append"} /\ level' = level
      /\ at \notin Moving => at = "l_append" /\ at' = "l_count"
  BY DEF MoveUnlink, MoveAppend, LoadAppend, At, Moving
<1>8. MemoryTyped'
  BY <1>1, <1>2, <1>3, <1>7 DEF MemoryTyped, Typed, Moving, Loading
<1>9. ControlOK'
  <2>1. CASE at \in Moving
    <3>1. old' = old BY <2>1, <1>2, <1>7 DEF old
    <3>2. at' = "uncount" => at = "unlink" BY DEF MoveUnlink, MoveAppend, LoadAppend, At
    <3>3. QED BY <2>1, <3>1, <3>2, <1>2, <1>4, <1>7 DEF ControlOK, Typed, Moving, Loading, file
  <2>2. CASE at \notin Moving
    BY <2>2, <1>2, <1>4, <1>7 DEF ControlOK, Typed, Moving, Loading, file
  <2>3. QED BY <2>1, <2>2
<1>10. QED BY <1>5, <1>6, <1>8, <1>9 DEF Typed

\* The last stores of a move, and the counting of a load.
LEMMA EndsTyped ==
    ASSUME Typed, MoveLevel \/ LoadCount \/ LoadTotal
    PROVE  Typed'
<1>0. at # "idle" /\ proc = "up" /\ UNCHANGED <<first, busy, next, list, proc, kills, fatal>>
  BY DEF MoveLevel, LoadCount, LoadTotal, At, file
<1>1. item \in Items /\ new \in Levels /\ 0 \in Levels /\ cnt[0] \in Nat /\ todo \in 0 .. Total
      /\ cur \in 0 .. Total /\ Total \in Nat /\ Limit[0] \in Nat
  BY <1>0, MetaConstants DEF Typed, MemoryTyped, FileTyped
<1>2. CASE MoveLevel
  <2>1. FileTyped' /\ EnvTyped'
    BY <1>0, <1>2 DEF FileTyped, EnvTyped, Typed, MoveLevel, file
  <2>2. MemoryTyped'
    BY <1>0, <1>1, <1>2 DEF MemoryTyped, Typed, MoveLevel, At
  <2>3. ControlOK'
    BY <1>0, <1>2 DEF ControlOK, Typed, MoveLevel, At, Moving, Loading, file
  <2>4. QED BY <2>1, <2>2, <2>3 DEF Typed
<1>3. CASE LoadCount
  <2>1. cnt' \in [Levels -> Nat] /\ cnt'[0] = cnt[0] + 1
    <3>1. cnt[0] + 1 \in Nat BY <1>1
    <3>2. QED BY <3>1, <1>1, <1>3 DEF LoadCount, Typed, FileTyped
  <2>2. FileTyped' /\ EnvTyped'
    BY <1>0, <1>3, <2>1 DEF FileTyped, EnvTyped, Typed, LoadCount
  <2>3. MemoryTyped'
    BY <1>0, <1>1, <1>3 DEF MemoryTyped, Typed, LoadCount, At, Loading
  <2>4. ControlOK'
    <3>1. at = "l_count" /\ at' = "l_total" /\ UNCHANGED <<cur, item, todo, new>>
      BY <1>3 DEF LoadCount, At
    <3>2. item = cur /\ todo \in 1 .. Total - cur /\ cnt[0] + todo <= Limit[0] + 0 /\ new = 0
      BY <3>1 DEF ControlOK, Typed, Loading, Moving
    <3>3. cnt'[0] + todo <= Limit[0] + 1 BY <3>2, <2>1, <1>1
    <3>4. QED BY <3>1, <3>2, <3>3, <1>0 DEF ControlOK, Typed, Moving, Loading
  <2>5. QED BY <2>2, <2>3, <2>4 DEF Typed
<1>4. CASE LoadTotal
  <2>1. at = "l_total" /\ UNCHANGED <<cnt, level, new>> /\ cur' = cur + 1 /\ todo' = todo - 1
        /\ (todo = 1 => at' = "idle")
        /\ (todo # 1 => at' = "l_link" /\ item' = cur + 1)
    BY <1>4 DEF LoadTotal, At
  <2>2. item = cur /\ todo \in 1 .. Total - cur /\ cnt[0] + todo <= Limit[0] + 1 /\ new = 0
    BY <2>1 DEF ControlOK, Typed, Loading, Moving
  <2>3. cur' \in 0 .. Total /\ todo' \in 0 .. Total
    BY <2>1, <2>2, <1>1
  <2>4. todo # 1 => item' = cur' /\ item' \in Items /\ todo' \in 1 .. Total - cur'
                    /\ cnt'[0] + todo' <= Limit[0]
    BY <2>1, <2>2, <1>1 DEF Items
  <2>5. FileTyped' /\ EnvTyped'
    BY <1>0, <2>1, <2>3 DEF FileTyped, EnvTyped, Typed
  <2>6. MemoryTyped'
    BY <1>0, <2>1, <2>3, <2>4 DEF MemoryTyped, Typed, Loading
  <2>7. ControlOK'
    BY <1>0, <1>1, <2>1, <2>2, <2>4 DEF ControlOK, Typed, Loading, Moving
  <2>8. QED BY <2>5, <2>6, <2>7 DEF Typed
<1>5. QED BY <1>2, <1>3, <1>4

\* The process is killed, is interrupted, or goes astray; the next one starts.
LEMMA CutTyped ==
    ASSUME Typed, Kill \/ Interrupt \/ (\E l \in Asked : MoveAstray(l)) \/ LinkAstray
    PROVE  Typed'
<1>1. CASE Kill \/ Interrupt
  <2>1. FileTyped' BY <1>1 DEF Kill, Interrupt, Typed, FileTyped, file
  <2>2. 0 \in Levels /\ 0 \in 0 .. Total BY MetaConstants
  <2>3. MemoryTyped'
    <3>1. list' \in [Levels -> Seq(Items)] /\ level' \in [Items -> Levels]
      <4>1. CASE Kill BY <4>1, <2>2 DEF Kill
      <4>2. CASE Interrupt BY <4>2 DEF Interrupt, Typed, MemoryTyped
      <4>3. QED BY <1>1, <4>1, <4>2
    <3>2. at' = "idle" /\ new' = 0 /\ todo' = 0 BY <1>1 DEF Kill, Interrupt
    <3>3. QED BY <3>1, <3>2, <2>2 DEF MemoryTyped
  <2>4. kills' \in 0 .. MaxKills /\ kills' > 0
    BY <1>1, MetaConstants DEF Kill, Interrupt, Typed, EnvTyped
  <2>5. fatal' \in BOOLEAN /\ proc' \in {"up", "down", "broken"}
    BY <1>1 DEF Kill, Interrupt, Typed, EnvTyped
  <2>6. ControlOK'
    BY <1>1, <2>4 DEF Kill, Interrupt, Typed, ControlOK, Moving, Loading
  <2>7. QED BY <2>1, <2>3, <2>4, <2>5, <2>6 DEF Typed, EnvTyped
<1>2. CASE (\E l \in Asked : MoveAstray(l)) \/ LinkAstray
  <2>1. UNCHANGED <<first, cnt, busy, next, cur, list, level, at, item, new, todo, kills, fatal>>
        /\ proc' = "broken"
    BY <1>2 DEF MoveAstray, LinkAstray, file, memory
  <2>2. FileTyped' BY <2>1 DEF Typed, FileTyped
  <2>3. MemoryTyped' BY <2>1 DEF Typed, MemoryTyped
  <2>4. EnvTyped' BY <2>1 DEF Typed, EnvTyped
  <2>5. ControlOK'
    <3>1. old' = old BY <2>1 DEF old
    <3>2. QED BY <2>1, <3>1 DEF Typed, ControlOK
  <2>6. QED BY <2>2, <2>3, <2>4, <2>5 DEF Typed
<1>3. QED BY <1>1, <1>2

LEMMA RestartTyped ==
    ASSUME Typed, Restart
    PROVE  Typed'
<1>1. FileTyped' /\ UNCHANGED <<at, item, new, todo, kills, fatal>> /\ at = "idle"
      /\ proc' \in {"up", "broken"}
  BY DEF Restart, Typed, FileTyped, file, ControlOK
<1>2. list' \in [Levels -> Seq(Items)] /\ level' \in [Items -> Levels]
  <2>1. CASE Recoverable
    <3>1. \A l \in Levels : StoredLen(l) \in Nat
      BY DEF StoredLen, Typed, FileTyped
    <3>2. \A l \in Levels : Stored(l) \in Walks(l) BY <2>1 DEF Recoverable, Stored
    <3>3. \A l \in Levels : Stored(l) \in [1 .. StoredLen(l) -> Items]
      BY <3>2 DEF Walks
    <3>4. \A l \in Levels : Stored(l) \in Seq(Items) BY <3>1, <3>3
    <3>5. list' = [l \in Levels |-> Stored(l)]
          /\ level' = [i \in Items |->
                 IF \E l \in Levels : i \in HeldIn(list', l)
                   THEN CHOOSE l \in Levels : i \in HeldIn(list', l) ELSE 0]
      BY <2>1 DEF Restart, Found
    <3>6. 0 \in Levels BY MetaConstants
    <3>7. \A i \in Items : (IF \E l \in Levels : i \in HeldIn(list', l)
                   THEN CHOOSE l \in Levels : i \in HeldIn(list', l) ELSE 0) \in Levels
      BY <3>6
    <3>8. QED BY <3>4, <3>5, <3>7
  <2>2. CASE ~Recoverable BY <2>2 DEF Restart, Typed, MemoryTyped
  <2>3. QED BY <2>1, <2>2
<1>3. MemoryTyped' BY <1>1, <1>2 DEF Typed, MemoryTyped
<1>4. EnvTyped' BY <1>1 DEF Typed, EnvTyped
<1>5. ControlOK' BY <1>1 DEF Typed, ControlOK, Moving, Loading
<1>6. QED BY <1>1, <1>3, <1>4, <1>5 DEF Typed

\* The two boxes a move names.
LEMMA TargetsAreLevels ==
    ASSUME NEW l \in Asked, NEW to \in {0, l + 1}
    PROVE  to \in Levels
  BY MetaConstants

LEMMA StepTyped == Typed /\ [MetaNext]_vars => Typed'
<1> SUFFICES ASSUME Typed, [MetaNext]_vars PROVE Typed'
  OBVIOUS
<1>1. CASE \E l \in Asked : \E to \in {0, l + 1} : MoveStart(l, to)
  <2>1. \E l \in Asked, to \in Levels : to \in {0, l + 1} /\ MoveStart(l, to)
    BY <1>1, TargetsAreLevels
  <2>2. QED BY <2>1, Starts
<1>2. CASE \E n \in 1 .. Total : LoadStart(n) BY <1>2, Starts
<1>3. CASE Store
  BY <1>3, CountersTyped, ChainsTyped, ListsTyped, EndsTyped DEF Store
<1>4. CASE Kill \/ Interrupt \/ (\E l \in Asked : MoveAstray(l)) \/ LinkAstray
  BY <1>4, CutTyped
<1>5. CASE Restart BY <1>5, RestartTyped
<1>6. CASE UNCHANGED vars
  <2>1. UNCHANGED <<first, cnt, busy, next, cur>> /\ UNCHANGED <<list, level, at, item, new, todo>>
        /\ UNCHANGED <<proc, kills, fatal>>
    BY <1>6 DEF vars, file, memory
  <2>2. FileTyped' BY <2>1 DEF Typed, FileTyped
  <2>3. MemoryTyped' BY <2>1 DEF Typed, MemoryTyped
  <2>4. EnvTyped' BY <2>1 DEF Typed, EnvTyped
  <2>5. ControlOK'
    <3>1. old' = old BY <2>1 DEF old
    <3>2. QED BY <2>1, <3>1 DEF Typed, ControlOK
  <2>6. QED BY <2>2, <2>3, <2>4, <2>5 DEF Typed
<1>7. QED BY <1>1, <1>2, <1>3, <1>4, <1>5, <1>6 DEF MetaNext

-----------------------------------------------------------------------------
(* A chain is walked in one way *)

LEMMA FrontAt ==
    ASSUME NEW S, NEW s \in Seq(S), s # <<>>
    PROVE  /\ Front(s) \in Seq(S) /\ Len(Front(s)) = Len(s) - 1
           /\ \A p \in 1 .. Len(s) - 1 : Front(s)[p] = s[p]
           /\ s = Append(Front(s), s[Len(s)])
<1>1. Len(s) \in Nat \ {0} BY HeadTail
<1>2. Front(s) \in Seq(S) /\ Len(Front(s)) = Len(s) - 1
      /\ \A p \in 1 .. Len(s) - 1 : Front(s)[p] = s[p]
  BY <1>1 DEF Front
<1> HIDE DEF Front
<1>3. s[Len(s)] \in S BY <1>1
<1> DEFINE t == Append(Front(s), s[Len(s)])
<1>4. /\ t \in Seq(S) /\ Len(t) = Len(s)
      /\ \A p \in 1 .. Len(s) - 1 : t[p] = s[p]
      /\ t[Len(s)] = s[Len(s)]
  BY <1>1, <1>2, <1>3, AppendAt
<1>5. \A p \in 1 .. Len(s) : t[p] = s[p] BY <1>1, <1>4
<1> HIDE DEF t
<1>6. s = t BY <1>4, <1>5
<1>7. QED BY <1>2, <1>6 DEF t

\* A box has one walk, and it is the list that its chain spells: else there were a
\* first place where the two differ.
LEMMA WalkOnly ==
    ASSUME FileTyped, NEW l \in Levels, NEW s \in Seq(Items), Chain(l, s)
    PROVE  Walks(l) = {s} /\ Stored(l) = s
<1> DEFINE n == Len(s)
<1>1. n \in Nat /\ StoredLen(l) = n /\ s \in [1 .. n -> Items] /\ DOMAIN s = 1 .. n
  BY DEF Chain
<1>2. n > 0 => first[l] = s[1] BY <1>1 DEF Chain
<1>3. \A j \in 1 .. n : j # 1 => s[j] = next[s[j - 1]]
  <2> SUFFICES ASSUME NEW j \in 1 .. n, j # 1 PROVE s[j] = next[s[j - 1]]
    OBVIOUS
  <2>1. j - 1 \in 1 .. n - 1 /\ (j - 1) + 1 = j BY <1>1
  <2>2. next[s[j - 1]] = s[(j - 1) + 1] BY <2>1 DEF Chain, Links
  <2>3. QED BY <2>1, <2>2
<1>4. s \in Walks(l)
  <2>1. \A j \in DOMAIN s : s[j] = IF j = 1 THEN first[l] ELSE next[s[j - 1]]
    BY <1>1, <1>2, <1>3
  <2>2. QED BY <1>1, <2>1 DEF Walks
<1>5. ASSUME NEW w \in Walks(l) PROVE w = s
  <2>1. w \in [1 .. n -> Items] /\ DOMAIN w = 1 .. n
        /\ \A j \in 1 .. n : w[j] = IF j = 1 THEN first[l] ELSE next[w[j - 1]]
    BY <1>1 DEF Walks
  <2>2. \A j \in 1 .. n : w[j] = s[j]
    <3> DEFINE T == {j \in 1 .. n : w[j] # s[j]}
    <3> SUFFICES ASSUME T # {} PROVE FALSE
      OBVIOUS
    <3>1. PICK j \in T : \A m \in T : j <= m
      <4>1. T \subseteq Nat BY <1>1
      <4> HIDE DEF T
      <4>2. QED BY <4>1, Least
    <3>2. j \in 1 .. n /\ w[j] # s[j] BY <3>1
    <3>3. CASE j = 1 BY <3>2, <3>3, <2>1, <1>2
    <3>4. CASE j # 1
      <4>1. j - 1 \in 1 .. n /\ ~(j <= j - 1) BY <3>2, <3>4, <1>1
      <4>2. w[j - 1] = s[j - 1] BY <3>1, <4>1
      <4>3. w[j] = next[w[j - 1]] /\ s[j] = next[s[j - 1]] BY <3>2, <3>4, <2>1, <1>3
      <4>4. QED BY <3>2, <4>2, <4>3
    <3>5. QED BY <3>3, <3>4
  <2>3. QED BY <1>1, <2>1, <2>2
<1>6. Walks(l) = {s} BY <1>4, <1>5
<1>7. QED BY <1>6 DEF Stored

\* So what the file describes is what the next process finds.
LEMMA DescribedIsFound ==
    ASSUME FileTyped, NEW S, Describes(S)
    PROVE  /\ \A l \in Levels : Walks(l) = {S[l]} /\ Stored(l) = S[l]
           /\ Found = S
           /\ Recoverable
<1>1. \A l \in Levels : S[l] \in Seq(Items) /\ Chain(l, S[l]) BY DEF Describes
<1>2. \A l \in Levels : Walks(l) = {S[l]} /\ Stored(l) = S[l] BY <1>1, WalkOnly
<1>3. Found = S
  <2>1. S = [l \in Levels |-> S[l]] BY DEF Describes
  <2>2. QED BY <2>1, <1>2 DEF Found
<1>4. \A l \in Levels : StoredLen(l) = Len(S[l]) BY <1>1 DEF Chain
<1>5. Recoverable
  <2>1. \A l \in Levels : Walks(l) # {} BY <1>2
  <2>2. ASSUME NEW l \in Levels, NEW m \in Levels, NEW j \in 1 .. StoredLen(l),
               NEW k \in 1 .. StoredLen(m), Stored(l)[j] = Stored(m)[k]
        PROVE  l = m /\ j = k
    <3>1. j \in 1 .. Len(S[l]) /\ k \in 1 .. Len(S[m]) /\ S[l][j] = S[m][k]
      BY <1>2, <1>4, <2>2
    <3>2. QED BY <3>1 DEF Describes, Distinct
  <2>3. QED BY <2>1, <2>2 DEF Recoverable
<1>6. QED BY <1>2, <1>3, <1>5

-----------------------------------------------------------------------------
(* Killed outside of KillWindow *)

\* The lists that the file describes: a VS that has been put at a tail and not been
\* counted yet is not in them.
Uncounted(l) == at \in {"count", "l_count"} /\ l = new
InFile == [l \in Levels |-> IF Uncounted(l) THEN Front(list[l]) ELSE list[l]]

LEMMA InFileAt ==
    ASSUME Typed, ListsFit, NEW l \in Levels
    PROVE  /\ InFile[l] \in Seq(Items) /\ list[l] \in Seq(Items)
           /\ Len(InFile[l]) \in Nat /\ Len(list[l]) \in Nat
           /\ Uncounted(l) => /\ Len(list[l]) = Len(InFile[l]) + 1
                              /\ item = list[l][Len(list[l])]
                              /\ list[l] = Append(InFile[l], item)
           /\ ~Uncounted(l) => InFile[l] = list[l]
           /\ \A p \in 1 .. Len(InFile[l]) : p \in 1 .. Len(list[l]) /\ InFile[l][p] = list[l][p]
<1>1. list[l] \in Seq(Items) BY DEF Typed, MemoryTyped
<1>2. CASE Uncounted(l)
  <2>1. InFile[l] = Front(list[l]) BY <1>2 DEF InFile
  <2>2. list[l] # <<>> /\ item = list[l][Len(list[l])]
    BY <1>2 DEF ListsFit, InHand, Uncounted, Appended
  <2>3. Len(list[l]) \in Nat BY <1>1
  <2>4. QED BY <1>1, <1>2, <2>1, <2>2, <2>3, FrontAt, SMTT(30)
<1>3. CASE ~Uncounted(l) BY <1>1, <1>3 DEF InFile
<1>4. QED BY <1>2, <1>3

LEMMA FileDescribes ==
    ASSUME Typed, ListsFit, ~KillWindow
    PROVE  Describes(InFile)
<1>1. InFile \in [Levels -> Seq(Items)]
  <2>1. \A l \in Levels : InFile[l] \in Seq(Items) BY InFileAt
  <2>2. InFile = [l \in Levels |-> InFile[l]] BY DEF InFile
  <2>3. QED BY <2>1, <2>2
<1>2. Distinct(InFile)
  <2> SUFFICES ASSUME NEW l \in Levels, NEW m \in Levels, NEW p \in 1 .. Len(InFile[l]),
                      NEW q \in 1 .. Len(InFile[m]), InFile[l][p] = InFile[m][q]
               PROVE  l = m /\ p = q
    BY DEF Distinct
  <2>1. p \in 1 .. Len(list[l]) /\ q \in 1 .. Len(list[m]) /\ list[l][p] = list[m][q]
    BY InFileAt
  <2>2. QED BY <2>1 DEF ListsFit, Distinct
<1>3. ASSUME NEW l \in Levels
      PROVE  /\ Chain(l, InFile[l]) /\ WithinLimit(l)
             /\ busy[l] > 0 => Full(l)
             /\ \A p \in 1 .. Len(InFile[l]) : InFile[l][p] < cur
  <2> DEFINE s == list[l]
             f == InFile[l]
  <2>0. at \notin {"unlink", "uncount", "refill", "unbusy", "l_total"} BY DEF KillWindow
  <2>1. /\ f \in Seq(Items) /\ s \in Seq(Items) /\ Len(f) \in Nat /\ Len(s) \in Nat
        /\ \A p \in 1 .. Len(f) : p \in 1 .. Len(s) /\ f[p] = s[p]
    BY InFileAt
  <2>2. Uncounted(l) => Len(s) = Len(f) + 1 BY InFileAt
  <2>3. ~Uncounted(l) => f = s BY InFileAt
  <2>4. Surplus(l) = IF Uncounted(l) THEN 1 ELSE 0 BY <2>0 DEF Surplus, Uncounted
  <2>5. Led(l) /\ CountsFit(l) /\ Links(s) /\ PlacesFit(l) BY DEF ListsFit
  <2>6. StoredLen(l) \in Nat BY DEF StoredLen, Typed, FileTyped
  <2> HIDE DEF f, s
  <2>7. StoredLen(l) = Len(f)
    BY <2>1, <2>2, <2>3, <2>4, <2>5, <2>6 DEF CountsFit, s
  <2>8. f # <<>> => first[l] = f[1]
    <3>1. f # <<>> => 1 \in 1 .. Len(f) BY <2>1
    <3>2. s # <<>> => first[l] = s[1] BY <2>0, <2>5 DEF Led, s
    <3>3. f # <<>> => s # <<>> BY <2>1, <3>1
    <3>4. QED BY <2>1, <3>1, <3>2, <3>3
  <2>9. Links(f)
    <3> SUFFICES ASSUME NEW j \in 1 .. Len(f) - 1 PROVE next[f[j]] = f[j + 1]
      BY DEF Links
    <3>1. j \in 1 .. Len(f) /\ j + 1 \in 1 .. Len(f) BY <2>1
    <3>2. j \in 1 .. Len(s) - 1 BY <2>1, <3>1
    <3>3. QED BY <2>1, <2>5, <3>1, <3>2 DEF Links
  <2>10. \A p \in 1 .. Len(f) : f[p] < cur
    <3> SUFFICES ASSUME NEW p \in 1 .. Len(f) PROVE f[p] < cur
      OBVIOUS
    <3>1. p \in 1 .. Len(s) /\ f[p] = s[p] BY <2>1
    <3>2. ~(at \in {"l_count", "l_total"} /\ IsTail(l, p))
      BY <2>0, <2>1, <2>2 DEF IsTail, Uncounted, s
    <3>3. QED BY <2>5, <3>1, <3>2 DEF PlacesFit, s
  <2>11. WithinLimit(l) /\ (busy[l] > 0 => Full(l)) BY <2>0, <2>5 DEF CountsFit
  <2>12. Chain(l, f) BY <2>7, <2>8, <2>9 DEF Chain
  <2>13. QED BY <2>10, <2>11, <2>12 DEF f
<1>4. QED BY <1>1, <1>2, <1>3 DEF Describes

LEMMA LostIsMissing ==
    Lost = Missing(list) \ InTransit
  BY DEF Lost, Missing, Held, HeldIn

LEMMA LostIsFinite ==
    ASSUME Typed
    PROVE  IsFiniteSet(Items) /\ IsFiniteSet(Lost) /\ Cardinality(Lost) \in Nat
<1>1. IsFiniteSet(Items) BY FS_Interval, MetaConstants DEF Items
<1>2. Lost \subseteq Items BY DEF Lost
<1>3. QED BY <1>1, <1>2, FS_Subset, FS_CardinalityType

\* A set with one more member than a small one is not much larger.
LEMMA OneMore ==
    ASSUME NEW A, NEW B, NEW x, IsFiniteSet(B), A \subseteq B \cup {x}
    PROVE  IsFiniteSet(A) /\ Cardinality(A) <= Cardinality(B) + 1
<1>1. IsFiniteSet(B \cup {x}) /\ Cardinality(B \cup {x}) <= Cardinality(B) + 1
  <2>1. CASE x \in B
    <3>1. B \cup {x} = B BY <2>1
    <3>2. Cardinality(B) \in Nat BY FS_CardinalityType
    <3>3. IsFiniteSet(B \cup {x}) /\ Cardinality(B \cup {x}) = Cardinality(B) BY <3>1, Zenon
    <3>4. QED BY <3>2, <3>3
  <2>2. CASE x \notin B
    <3>1. IsFiniteSet(B \cup {x}) /\ Cardinality(B \cup {x}) = Cardinality(B) + 1
      BY <2>2, FS_AddElement
    <3>2. Cardinality(B) \in Nat BY FS_CardinalityType
    <3>3. QED BY <3>1, <3>2
  <2>3. QED BY <2>1, <2>2
<1>2. IsFiniteSet(A) /\ Cardinality(A) <= Cardinality(B \cup {x}) BY <1>1, FS_Subset
<1>3. Cardinality(A) \in Nat /\ Cardinality(B) \in Nat /\ Cardinality(B \cup {x}) \in Nat
  BY <1>1, <1>2, FS_CardinalityType
<1>4. QED BY <1>1, <1>2, <1>3

\* The VS in hand is all that a kill costs.
LEMMA MissingInFile ==
    ASSUME Typed, ListsFit
    PROVE  Cardinality(Missing(InFile)) <= Cardinality(Lost) + 1
<1>1. Missing(InFile) \subseteq Lost \cup {item}
  <2> SUFFICES ASSUME NEW i \in Missing(InFile), i # item PROVE i \in Lost
    OBVIOUS
  <2>1. i \in Items \ Unloaded
        /\ \A l \in Levels : \A p \in 1 .. Len(InFile[l]) : InFile[l][p] # i
    BY DEF Missing
  <2>2. ASSUME NEW l \in Levels, NEW p \in 1 .. Len(list[l]), list[l][p] = i PROVE FALSE
    <3>1. CASE p \in 1 .. Len(InFile[l]) BY <3>1, <2>1, <2>2, InFileAt
    <3>2. CASE p \notin 1 .. Len(InFile[l])
      <4>1. Uncounted(l) BY <3>2, InFileAt
      <4>2. Len(list[l]) = Len(InFile[l]) + 1 /\ item = list[l][Len(list[l])]
            /\ Len(InFile[l]) \in Nat
        BY <4>1, InFileAt
      <4>3. p = Len(list[l]) BY <3>2, <4>2
      <4>4. QED BY <2>2, <4>2, <4>3
    <3>3. QED BY <3>1, <3>2
  <2>3. i \in Missing(list) BY <2>1, <2>2 DEF Missing
  <2>4. QED BY <2>3, LostIsMissing DEF InTransit
<1>2. QED BY <1>1, OneMore, LostIsFinite

-----------------------------------------------------------------------------
(* The end of a process, CTRL-C, and the next process *)

LEMMA SameFile ==
    ASSUME UNCHANGED file
    PROVE  /\ Found' = Found /\ Missing(Found)' = Missing(Found)
           /\ Describes(Found) => Describes(Found)'
<1>1. UNCHANGED <<first, cnt, busy, next, cur>> BY DEF file
<1>2. \A l : StoredLen(l)' = StoredLen(l) /\ Walks(l)' = Walks(l)
  BY <1>1 DEF StoredLen, Walks
<1>3. \A l : Stored(l)' = Stored(l) BY <1>2 DEF Stored
<1>4. Found' = Found BY <1>3 DEF Found
<1>5. Missing(Found)' = Missing(Found) BY <1>1, <1>4 DEF Missing, Unloaded
<1>6. ASSUME Describes(Found) PROVE Describes(Found)'
  <2>1. Found' \in [Levels -> Seq(Items)] /\ Distinct(Found)'
    BY <1>4, <1>6 DEF Describes, Distinct
  <2>2. ASSUME NEW l \in Levels
        PROVE  (/\ Chain(l, Found[l]) /\ WithinLimit(l) /\ (busy[l] > 0 => Full(l))
                /\ \A p \in 1 .. Len(Found[l]) : Found[l][p] < cur)'
    <3>1. Chain(l, Found[l])' BY <1>1, <1>2, <1>4, <1>6 DEF Describes, Chain, Links
    <3>2. WithinLimit(l)' /\ (busy'[l] > 0 => Full(l)')
      BY <1>1, <1>6 DEF Describes, WithinLimit, Full
    <3>3. \A p \in 1 .. Len(Found'[l]) : Found'[l][p] < cur' BY <1>1, <1>4, <1>6 DEF Describes
    <3>4. QED BY <3>1, <3>2, <3>3
  <2>3. QED BY <2>1, <2>2 DEF Describes
<1>7. QED BY <1>4, <1>5, <1>6

LEMMA Kills ==
    ASSUME MetaInv, Kill
    PROVE  MetaInv'
<1>1. Typed' BY StepTyped DEF MetaInv, MetaNext
<1>2. proc' = "down" BY DEF Kill
<1>3. ASSUME ~fatal' PROVE (Describes(Found) /\ Cardinality(Missing(Found)) <= kills)'
  <2>1. ~fatal /\ ~KillWindow /\ proc = "up" /\ kills' = kills + 1 /\ UNCHANGED file
    BY <1>3 DEF Kill
  <2>2. Typed /\ ListsFit /\ Cardinality(Lost) <= kills /\ FileTyped
    BY <2>1 DEF MetaInv, UpFits, Typed
  <2>3. Describes(InFile) BY <2>1, <2>2, FileDescribes
  <2>4. Found = InFile BY <2>2, <2>3, DescribedIsFound
  <2>5. Describes(Found) BY <2>3, <2>4
  <2>6. Cardinality(Missing(Found)) <= Cardinality(Lost) + 1 BY <2>2, <2>4, MissingInFile
  <2>7. IsFiniteSet(Missing(Found))
    <3>1. Missing(Found) \subseteq Items BY DEF Missing
    <3>2. QED BY <2>2, <3>1, LostIsFinite, FS_Subset
  <2>8. Cardinality(Missing(Found)) \in Nat /\ Cardinality(Lost) \in Nat /\ kills \in Nat
    BY <2>2, <2>7, LostIsFinite, FS_CardinalityType DEF Typed, EnvTyped
  <2>9. Cardinality(Missing(Found)) <= kills + 1 BY <2>2, <2>6, <2>8
  <2>10. QED BY <2>1, <2>5, <2>9, SameFile
<1>4. QED BY <1>1, <1>2, <1>3 DEF MetaInv, UpFits, DownFits

LEMMA Interrupts ==
    ASSUME MetaInv, Interrupt
    PROVE  MetaInv'
<1>1. Typed' BY StepTyped DEF MetaInv, MetaNext
<1>2. proc' = "up" /\ at' = "idle" /\ kills' = kills + 1 BY DEF Interrupt
<1>3. ASSUME ~fatal' PROVE (ListsFit /\ Cardinality(Lost) <= kills)'
  <2>1. ~fatal /\ ~CtrlCWindow /\ proc = "up" /\ UNCHANGED <<first, cnt, busy, next, cur, list, level>>
    BY <1>3 DEF Interrupt, file
  <2>2. Typed /\ ListsFit /\ Cardinality(Lost) <= kills BY <2>1 DEF MetaInv, UpFits
  <2>3. at \notin {"unlink", "uncount", "refill", "unbusy", "count", "level", "l_count", "l_total"}
    BY <2>1 DEF CtrlCWindow, KillWindow
  <2>4. Distinct(list)' BY <2>1, <2>2 DEF ListsFit, Distinct
  <2>5. InHand' BY <1>2 DEF InHand, Moving, Appended, Linked
  <2>6. ASSUME NEW l \in Levels PROVE (Links(list[l]) /\ Led(l) /\ CountsFit(l) /\ PlacesFit(l))'
    <3>1. Links(list[l]) /\ Led(l) /\ CountsFit(l) /\ PlacesFit(l) BY <2>2 DEF ListsFit
    <3>2. Links(list[l])' BY <2>1, <3>1 DEF Links
    <3>3. Led(l)' BY <1>2, <2>1, <2>3, <3>1 DEF Led
    <3>4. Surplus(l) = 0 /\ Surplus(l)' = 0 BY <1>2, <2>3 DEF Surplus
    <3>5. CountsFit(l)'
      BY <1>2, <2>1, <2>3, <3>1, <3>4 DEF CountsFit, StoredLen, WithinLimit, Full
    <3>6. PlacesFit(l)' BY <1>2, <2>1, <2>3, <3>1 DEF PlacesFit, OffList
    <3>7. QED BY <3>2, <3>3, <3>5, <3>6
  <2>7. ListsFit' BY <2>4, <2>5, <2>6 DEF ListsFit
  <2>8. Lost' \subseteq Lost \cup {item}
    BY <2>1 DEF Lost, Held, HeldIn, InTransit, Unloaded
  <2>9. IsFiniteSet(Lost') /\ Cardinality(Lost') <= Cardinality(Lost) + 1
    BY <2>2, <2>8, LostIsFinite, OneMore
  <2>10. Cardinality(Lost') \in Nat /\ Cardinality(Lost) \in Nat /\ kills \in Nat
    BY <2>2, <2>9, LostIsFinite, FS_CardinalityType DEF Typed, EnvTyped
  <2>11. Cardinality(Lost') <= kills + 1 BY <2>2, <2>9, <2>10
  <2>12. QED BY <1>2, <2>7, <2>11
<1>4. QED BY <1>1, <1>2, <1>3 DEF MetaInv, UpFits, DownFits

LEMMA Restarts ==
    ASSUME MetaInv, Restart
    PROVE  MetaInv'
<1>1. Typed' BY StepTyped DEF MetaInv, MetaNext
<1>2. proc = "down" /\ fatal' = fatal /\ at = "idle" /\ at' = "idle" /\ kills' = kills
      /\ UNCHANGED <<first, cnt, busy, next, cur>>
  BY DEF Restart, MetaInv, Typed, ControlOK, file
<1>3. CASE fatal BY <1>1, <1>2, <1>3 DEF MetaInv, UpFits, DownFits, Restart
<1>4. CASE ~fatal
  <2>1. Describes(Found) /\ Cardinality(Missing(Found)) <= kills /\ Typed /\ FileTyped
    BY <1>2, <1>4 DEF MetaInv, DownFits, Typed
  <2>2. Recoverable BY <2>1, DescribedIsFound
  <2>3. proc' = "up" /\ list' = Found
        /\ level' = [i \in Items |->
                 IF \E l \in Levels : i \in HeldIn(list', l)
                   THEN CHOOSE l \in Levels : i \in HeldIn(list', l) ELSE 0]
    BY <2>2 DEF Restart, Found
  <2>4. Distinct(list)' BY <2>1, <2>3 DEF Describes, Distinct
  <2>5. InHand' BY <1>2 DEF InHand, Moving, Appended, Linked
  <2>6. ASSUME NEW l \in Levels PROVE (Links(list[l]) /\ Led(l) /\ CountsFit(l) /\ PlacesFit(l))'
    <3>1. /\ Found[l] \in Seq(Items) /\ Chain(l, Found[l]) /\ WithinLimit(l)
          /\ busy[l] > 0 => Full(l)
          /\ \A p \in 1 .. Len(Found[l]) : Found[l][p] < cur
      BY <2>1 DEF Describes
    <3>2. Links(list[l])' BY <1>2, <2>3, <3>1 DEF Links, Chain
    <3>3. Led(l)' BY <1>2, <2>3, <3>1 DEF Led, Chain
    <3>4. Surplus(l)' = 0 BY <1>2 DEF Surplus
    <3>5. StoredLen(l) = Len(Found[l]) /\ StoredLen(l) \in Nat
      BY <2>1, <3>1 DEF Chain, StoredLen, FileTyped
    <3>6. CountsFit(l)'
      BY <1>2, <2>3, <3>1, <3>4, <3>5 DEF CountsFit, StoredLen, WithinLimit, Full
    <3>7. ASSUME NEW p \in 1 .. Len(list'[l]) PROVE level'[list'[l][p]] = l
      <4> DEFINE i == list'[l][p]
      <4>1. i \in Items BY <2>3, <3>1
      <4>2. i \in HeldIn(list', l) BY DEF HeldIn
      <4>3. \A m \in Levels : i \in HeldIn(list', m) => m = l
        BY <2>4 DEF Distinct, HeldIn
      <4> HIDE DEF i
      <4>4. (CHOOSE m \in Levels : i \in HeldIn(list', m)) = l BY <4>2, <4>3
      <4>5. level'[i] = l BY <2>3, <4>1, <4>2, <4>4
      <4>6. QED BY <4>5 DEF i
    <3>8. PlacesFit(l)' BY <1>2, <2>3, <3>1, <3>7 DEF PlacesFit, OffList
    <3>9. QED BY <3>2, <3>3, <3>6, <3>8
  <2>7. ListsFit' BY <2>4, <2>5, <2>6 DEF ListsFit
  <2>8. Lost' \subseteq Missing(Found)
    BY <1>2, <2>3 DEF Lost, Missing, Held, HeldIn, InTransit, Unloaded
  <2>9. IsFiniteSet(Missing(Found))
    <3>1. Missing(Found) \subseteq Items BY DEF Missing
    <3>2. QED BY <2>1, <3>1, LostIsFinite, FS_Subset
  <2>10. IsFiniteSet(Lost') /\ Cardinality(Lost') <= Cardinality(Missing(Found))
    BY <2>8, <2>9, FS_Subset
  <2>11. Cardinality(Lost') \in Nat /\ Cardinality(Missing(Found)) \in Nat /\ kills \in Nat
    BY <2>1, <2>9, <2>10, FS_CardinalityType DEF Typed, EnvTyped
  <2>12. Cardinality(Lost') <= kills' BY <1>2, <2>1, <2>10, <2>11
  <2>13. QED BY <1>1, <2>3, <2>7, <2>12 DEF MetaInv, UpFits, DownFits
<1>5. QED BY <1>3, <1>4

LEMMA InitFits == MetaInit => MetaInv
<1> SUFFICES ASSUME MetaInit PROVE MetaInv
  OBVIOUS
<1>1. Typed BY InitTyped
<1>2. /\ list = [l \in Levels |-> <<>>] /\ at = "idle" /\ cur = 0 /\ kills = 0
      /\ cnt = [l \in Levels |-> 0] /\ busy = [l \in Levels |-> 0] /\ proc = "up"
  BY DEF MetaInit
<1>3. \A l \in Levels : list[l] = <<>> /\ Len(list[l]) = 0 /\ cnt[l] = 0 /\ busy[l] = 0 BY <1>2
<1>4. ListsFit
  <2>1. Distinct(list) BY <1>3 DEF Distinct
  <2>2. InHand BY <1>2 DEF InHand, Moving, Appended, Linked
  <2>3. ASSUME NEW l \in Levels PROVE Links(list[l]) /\ Led(l) /\ CountsFit(l) /\ PlacesFit(l)
    <3>1. Links(list[l]) /\ Led(l) /\ PlacesFit(l) BY <1>2, <1>3 DEF Links, Led, PlacesFit
    <3>2. CountsFit(l)
      BY <1>2, <1>3, MetaConstants DEF CountsFit, StoredLen, Surplus, WithinLimit
    <3>3. QED BY <3>1, <3>2
  <2>4. QED BY <2>1, <2>2, <2>3 DEF ListsFit
<1>5. Lost = {} BY <1>2, MetaConstants DEF Lost, Unloaded, Items
<1>6. Cardinality(Lost) <= kills BY <1>2, <1>5, FS_EmptySet
<1>7. QED BY <1>1, <1>2, <1>4, <1>6 DEF MetaInv, UpFits, DownFits

-----------------------------------------------------------------------------
(* The stores *)

\* Two places of the lists that hold the same VS are one.
LEMMA OnePlace ==
    ASSUME ListsFit, NEW l \in Levels, NEW m \in Levels, NEW p \in 1 .. Len(list[l]),
           NEW q \in 1 .. Len(list[m]), list[l][p] = list[m][q]
    PROVE  l = m /\ p = q
  BY DEF ListsFit, Distinct

LEMMA ListTyped ==
    ASSUME Typed, NEW l \in Levels
    PROVE  /\ list[l] \in Seq(Items) /\ Len(list[l]) \in Nat
           /\ \A p \in 1 .. Len(list[l]) : list[l][p] \in Items
           /\ cnt[l] \in Nat /\ busy[l] \in Nat /\ StoredLen(l) \in Nat
           /\ l # MaxLevel => Limit[l] \in Nat \ {0}
           /\ list[l] = <<>> <=> Len(list[l]) = 0
<1>1. list[l] \in Seq(Items) BY DEF Typed, MemoryTyped
<1>2. cnt[l] \in Nat /\ busy[l] \in Nat BY DEF Typed, FileTyped
<1>3. StoredLen(l) \in Nat BY <1>2 DEF StoredLen
<1>4. l # MaxLevel => Limit[l] \in Nat \ {0} BY MetaConstants
<1>5. /\ Len(list[l]) \in Nat /\ (list[l] = <<>> <=> Len(list[l]) = 0)
      /\ \A p \in 1 .. Len(list[l]) : list[l][p] \in Items
  BY <1>1
<1>6. QED BY <1>1, <1>2, <1>3, <1>4, <1>5

\* A box without a VS to ask for has none at all: VSes are busy in full boxes only.
LEMMA EmptyByCount ==
    ASSUME Typed, NEW l \in Levels, cnt[l] = 0, CountsFit(l), Surplus(l) = 0,
           ~(at = "refill" /\ l = old)
    PROVE  list[l] = <<>>
  BY ListTyped DEF CountsFit, Full, StoredLen

LEMMA StartFits ==
    ASSUME Typed, ListsFit, NEW l \in Asked, NEW to \in Levels, MoveStart(l, to)
    PROVE  ListsFit' /\ Lost' \subseteq Lost
<1>1. /\ UNCHANGED <<first, cnt, busy, next, cur, list, level>>
      /\ at = "idle" /\ at' = "first" /\ HeadBelongs(l) /\ item' = Head(list[l]) /\ l \in Levels
  BY MetaConstants DEF MoveStart, file
<1>2. list[l] # <<>> /\ item' = list[l][1] /\ 1 \in 1 .. Len(list[l]) /\ level[item'] = l
  BY <1>1, ListTyped, HeadTail DEF HeadBelongs
<1>3. old' = l BY <1>1, <1>2 DEF old
<1>4. Distinct(list)' BY <1>1 DEF ListsFit, Distinct
<1>5. InHand'
  <2>1. item' < cur'
    BY <1>1, <1>2 DEF ListsFit, PlacesFit
  <2>2. QED BY <1>1, <1>2, <1>3, <2>1 DEF InHand, Appended, Linked
<1>6. ASSUME NEW m \in Levels PROVE (Links(list[m]) /\ Led(m) /\ CountsFit(m) /\ PlacesFit(m))'
  <2>1. Links(list[m]) /\ Led(m) /\ CountsFit(m) /\ PlacesFit(m) BY DEF ListsFit
  <2>2. Surplus(m) = 0 /\ Surplus(m)' = 0 BY <1>1 DEF Surplus
  <2>3. (Links(list[m]) /\ Led(m))' BY <1>1, <2>1 DEF Links, Led
  <2>4. CountsFit(m)' BY <1>1, <2>1, <2>2 DEF CountsFit, StoredLen, WithinLimit, Full
  <2>5. PlacesFit(m)' BY <1>1, <2>1 DEF PlacesFit, OffList
  <2>6. QED BY <2>3, <2>4, <2>5
<1>7. Lost' \subseteq Lost BY <1>1 DEF Lost, Held, HeldIn, InTransit, Unloaded
<1>8. QED BY <1>4, <1>5, <1>6, <1>7 DEF ListsFit

LEMMA LoadStartFits ==
    ASSUME Typed, ListsFit, NEW n \in 1 .. Total, LoadStart(n)
    PROVE  ListsFit' /\ Lost' \subseteq Lost
<1>1. /\ UNCHANGED <<first, cnt, busy, next, cur, list, level, new>>
      /\ at = "idle" /\ at' = "l_link" /\ item' = cur
  BY DEF LoadStart, file
<1>2. Distinct(list)' BY <1>1 DEF ListsFit, Distinct
<1>3. InHand' BY <1>1 DEF InHand, Moving, Appended, Linked
<1>4. ASSUME NEW m \in Levels PROVE (Links(list[m]) /\ Led(m) /\ CountsFit(m) /\ PlacesFit(m))'
  <2>1. Links(list[m]) /\ Led(m) /\ CountsFit(m) /\ PlacesFit(m) BY DEF ListsFit
  <2>2. Surplus(m) = 0 /\ Surplus(m)' = 0 BY <1>1 DEF Surplus
  <2>3. (Links(list[m]) /\ Led(m))' BY <1>1, <2>1 DEF Links, Led
  <2>4. CountsFit(m)' BY <1>1, <2>1, <2>2 DEF CountsFit, StoredLen, WithinLimit, Full
  <2>5. \A p \in 1 .. Len(list[m]) : list[m][p] \in Nat /\ list[m][p] < cur
    BY <1>1, <2>1, ListTyped, MetaConstants DEF PlacesFit
  <2>6. \A p \in 1 .. Len(list[m]) : list[m][p] # cur
    BY <2>5 DEF Typed, FileTyped
  <2>7. PlacesFit(m)' BY <1>1, <2>1, <2>6 DEF PlacesFit, OffList
  <2>8. QED BY <2>3, <2>4, <2>7
<1>5. Lost' \subseteq Lost BY <1>1 DEF Lost, Held, HeldIn, InTransit, Unloaded
<1>6. QED BY <1>2, <1>3, <1>4, <1>5 DEF ListsFit

LEMMA FirstFits ==
    ASSUME Typed, ListsFit, MoveFirst
    PROVE  ListsFit' /\ Lost' \subseteq Lost
<1>1. /\ UNCHANGED <<cnt, busy, next, cur, list, level, item, new>>
      /\ at = "first" /\ at' = "unlink"
      /\ first' = [first EXCEPT ![old] = IF Len(list[old]) > 1 THEN list[old][2] ELSE Garbage(old)]
  BY DEF MoveFirst, At
<1>2. old' = old /\ old \in Levels /\ first \in [Levels -> Nat \cup {NoMore, NewFirst}]
  BY <1>1, InMove DEF old, Moving, Typed, FileTyped
<1>3. Distinct(list)' BY <1>1 DEF ListsFit, Distinct
<1>4. InHand' BY <1>1, <1>2 DEF InHand, Moving, Appended, Linked, ListsFit
<1>5. ASSUME NEW m \in Levels PROVE (Links(list[m]) /\ Led(m) /\ CountsFit(m) /\ PlacesFit(m))'
  <2>1. Links(list[m]) /\ Led(m) /\ CountsFit(m) /\ PlacesFit(m) BY DEF ListsFit
  <2>2. Surplus(m) = 0 /\ Surplus(m)' = 0 BY <1>1 DEF Surplus
  <2>3. Links(list[m])' BY <1>1, <2>1 DEF Links
  <2>4. Led(m)'
    <3>1. CASE m = old BY <1>1, <1>2, <3>1 DEF Led
    <3>2. CASE m # old BY <1>1, <1>2, <2>1, <3>2 DEF Led
    <3>3. QED BY <3>1, <3>2
  <2>5. CountsFit(m)' BY <1>1, <2>1, <2>2 DEF CountsFit, StoredLen, WithinLimit, Full
  <2>6. PlacesFit(m)' BY <1>1, <2>1 DEF PlacesFit, OffList
  <2>7. QED BY <2>3, <2>4, <2>5, <2>6
<1>6. Lost' \subseteq Lost BY <1>1 DEF Lost, Held, HeldIn, InTransit, Unloaded
<1>7. QED BY <1>3, <1>4, <1>5, <1>6 DEF ListsFit

\* The head goes off its list: every place of that list moves up by one.
LEMMA UnlinkFits ==
    ASSUME Typed, ListsFit, MoveUnlink
    PROVE  ListsFit' /\ Lost' \subseteq Lost
<1>1. /\ UNCHANGED <<first, cnt, busy, next, cur, level, item, new>>
      /\ at = "unlink" /\ at' = "uncount"
      /\ list' = [list EXCEPT ![old] = Tail(@)]
  BY DEF MoveUnlink, At, file
<1>2. old' = old /\ old \in Levels /\ item \in Items /\ list \in [Levels -> Seq(Items)]
      /\ list[old] # <<>>
  BY <1>1, InMove DEF old, Moving, Typed, MemoryTyped
<1> DEFINE t == Tail(list[old])
<1>3. /\ t \in Seq(Items) /\ Len(t) = Len(list[old]) - 1 /\ Len(list[old]) \in Nat \ {0}
      /\ \A p \in 1 .. Len(list[old]) - 1 : t[p] = list[old][p + 1]
  BY <1>2, HeadTail
<1>4. list'[old] = t /\ \A l \in Levels : l # old => list'[l] = list[l]
  BY <1>1, <1>2
<1> HIDE DEF t
<1>5. item = list[old][1] BY <1>1 DEF ListsFit, InHand
<1> DEFINE Before(l, p) == IF l = old THEN p + 1 ELSE p
<1>6. ASSUME NEW l \in Levels, NEW p \in 1 .. Len(list'[l])
      PROVE  Before(l, p) \in 1 .. Len(list[l]) /\ list'[l][p] = list[l][Before(l, p)]
             /\ (l = old => Before(l, p) # 1)
  BY <1>3, <1>4
<1>7. Distinct(list)'
  <2> SUFFICES ASSUME NEW l \in Levels, NEW m \in Levels, NEW p \in 1 .. Len(list'[l]),
                      NEW q \in 1 .. Len(list'[m]), list'[l][p] = list'[m][q]
               PROVE  l = m /\ p = q
    BY DEF Distinct
  <2>1. /\ Before(l, p) \in 1 .. Len(list[l]) /\ Before(m, q) \in 1 .. Len(list[m])
        /\ list[l][Before(l, p)] = list[m][Before(m, q)]
    BY <1>6
  <2> HIDE DEF Before
  <2>2. l = m /\ Before(l, p) = Before(m, q) BY <2>1, OnePlace
  <2>3. p \in Int /\ q \in Int BY <1>3, <1>4, ListTyped
  <2>4. QED BY <2>2, <2>3 DEF Before
<1>8. InHand' BY <1>1 DEF InHand, Moving, Appended, Linked, ListsFit
<1>9. \A l \in Levels : PlacesFit(l)'
  <2> SUFFICES ASSUME NEW l \in Levels, NEW p \in 1 .. Len(list'[l])
               PROVE  level'[list'[l][p]] = l /\ list'[l][p] < cur' /\ list'[l][p] # item'
    BY DEF PlacesFit
  <2>1. Before(l, p) \in 1 .. Len(list[l]) /\ list'[l][p] = list[l][Before(l, p)] BY <1>6
  <2>2. level[list[l][Before(l, p)]] = l /\ list[l][Before(l, p)] < cur
    BY <1>1, <2>1 DEF ListsFit, PlacesFit
  <2>3. list[l][Before(l, p)] # item
    <3>1. 1 \in 1 .. Len(list[old]) BY <1>3
    <3>2. list[l][Before(l, p)] = item => l = old /\ Before(l, p) = 1
      BY <1>2, <1>5, <2>1, <3>1, OnePlace
    <3>3. QED BY <3>2, <1>6
  <2>4. QED BY <1>1, <2>1, <2>2, <2>3
<1>10. ASSUME NEW l \in Levels PROVE (Links(list[l]) /\ Led(l) /\ CountsFit(l))'
  <2>1. Links(list[l]) /\ Led(l) /\ CountsFit(l) BY DEF ListsFit
  <2>2. CASE l = old
    <3>1. Links(list[l])'
      <4> SUFFICES ASSUME NEW j \in 1 .. Len(t) - 1 PROVE next[t[j]] = t[j + 1]
        BY <1>1, <1>4, <2>2 DEF Links
      <4>1. j \in 1 .. Len(list[old]) - 1 /\ j + 1 \in 1 .. Len(list[old]) - 1 BY <1>3
      <4>2. t[j] = list[old][j + 1] /\ t[j + 1] = list[old][j + 1 + 1] BY <1>3, <4>1
      <4>3. QED BY <2>1, <2>2, <4>1, <4>2 DEF Links
    <3>2. Led(l)'
      <4>1. t # <<>> => Len(list[old]) > 1 /\ t[1] = list[old][2] BY <1>3
      <4>2. QED BY <1>1, <1>2, <1>4, <2>1, <2>2, <4>1 DEF Led
    <3>3. Surplus(l) = 0 /\ Surplus(l)' = -1 BY <1>1, <1>2, <2>2 DEF Surplus
    <3>4. CountsFit(l)'
      BY <1>1, <1>3, <1>4, <2>1, <2>2, <3>3, ListTyped DEF CountsFit, StoredLen, WithinLimit, Full
    <3>5. QED BY <3>1, <3>2, <3>4
  <2>3. CASE l # old
    <3>1. (Links(list[l]) /\ Led(l))' BY <1>1, <1>2, <1>4, <2>1, <2>3 DEF Links, Led
    <3>2. Surplus(l) = 0 /\ Surplus(l)' = 0 BY <1>1, <1>2, <2>3 DEF Surplus
    <3>3. CountsFit(l)'
      BY <1>1, <1>4, <2>1, <2>3, <3>2 DEF CountsFit, StoredLen, WithinLimit, Full
    <3>4. QED BY <3>1, <3>3
  <2>4. QED BY <2>2, <2>3
<1>11. Lost' \subseteq Lost
  <2> SUFFICES ASSUME NEW i \in Lost' PROVE i \in Lost
    OBVIOUS
  <2>1. i \in Items \ Unloaded /\ i # item /\ \A l \in Levels : i \notin HeldIn(list', l)
    BY <1>1 DEF Lost, Held, InTransit, Unloaded
  <2>2. ASSUME NEW l \in Levels, NEW p \in 1 .. Len(list[l]), list[l][p] = i PROVE FALSE
    <3>1. CASE l # old BY <1>4, <2>1, <2>2, <3>1 DEF HeldIn
    <3>2. CASE l = old
      <4>1. p # 1 BY <1>5, <2>1, <2>2, <3>2
      <4>2. p - 1 \in 1 .. Len(t) /\ t[p - 1] = i BY <1>3, <2>2, <3>2, <4>1
      <4>3. QED BY <1>4, <2>1, <3>2, <4>2 DEF HeldIn
    <3>3. QED BY <3>1, <3>2
  <2>3. i \in Missing(list) BY <2>1, <2>2 DEF Missing
  <2>4. QED BY <2>1, <2>3, LostIsMissing DEF InTransit
<1>12. QED BY <1>7, <1>8, <1>9, <1>10, <1>11 DEF ListsFit

\* The stores into the counters leave the lists and the chains alone.
LEMMA CountersFit ==
    ASSUME Typed, ListsFit, at # "idle",
           MoveUncount \/ MoveRefill \/ MoveUnbusy \/ MoveCount \/ LoadCount,
           \A l \in Levels : CountsFit(l)'
    PROVE  ListsFit' /\ Lost' \subseteq Lost
<1>1. /\ UNCHANGED <<first, next, cur, list, level, item, new>>
      /\ at \notin {"first", "unlink", "idle"} \cup Linked
      /\ at' \notin {"first", "unlink", "idle"} \cup Linked
      /\ at' \in OffList => at \in OffList
      /\ at' \in Appended => at \in Appended
      /\ at \in {"count", "level"} => at' \in {"count", "level"}
      /\ at \in {"l_count", "l_total"} => at' \in {"l_count", "l_total"}
      /\ at' \in Moving => at \in Moving
  BY DEF MoveUncount, MoveRefill, MoveUnbusy, MoveCount, LoadCount, At, Linked, OffList, Appended,
         Moving
<1>2. Distinct(list)' BY <1>1 DEF ListsFit, Distinct
<1>3. InHand' BY <1>1 DEF InHand, ListsFit
<1>4. ASSUME NEW m \in Levels PROVE (Links(list[m]) /\ Led(m) /\ PlacesFit(m))'
  <2>1. Links(list[m]) /\ Led(m) /\ PlacesFit(m) BY DEF ListsFit
  <2>2. (Links(list[m]) /\ Led(m))' BY <1>1, <2>1 DEF Links, Led
  <2>3. PlacesFit(m)' BY <1>1, <2>1 DEF PlacesFit, IsTail
  <2>4. QED BY <2>2, <2>3
<1>5. Lost' \subseteq Lost BY <1>1 DEF Lost, Held, HeldIn, InTransit, Unloaded
<1>6. QED BY <1>2, <1>3, <1>4, <1>5 DEF ListsFit

LEMMA UncountFits ==
    ASSUME Typed, ListsFit, MoveUncount
    PROVE  ListsFit' /\ Lost' \subseteq Lost
<1>1. /\ UNCHANGED <<busy, list, level, item, new>> /\ at = "uncount"
      /\ at' = IF busy[old] # 0 THEN "refill" ELSE "link"
      /\ cnt' = [cnt EXCEPT ![old] = @ - 1]
  BY DEF MoveUncount, At
<1>2. old' = old /\ old \in Asked /\ old \in Levels /\ old # MaxLevel /\ cnt[old] # 0
      /\ cnt \in [Levels -> Nat]
  BY <1>1, InMove, MetaConstants DEF old, Moving, Typed, FileTyped, ControlOK
<1>3. ASSUME NEW l \in Levels PROVE CountsFit(l)'
  <2>1. CountsFit(l) BY DEF ListsFit
  <2>2. CASE l = old
    <3>1. Surplus(l) = -1 /\ Surplus(l)' = 0 BY <1>1, <1>2, <2>2 DEF Surplus
    <3>2. cnt'[l] = cnt[l] - 1 BY <1>1, <1>2, <2>2
    <3>3. StoredLen(l)' = StoredLen(l) - 1
      BY <1>1, <3>2, ListTyped DEF StoredLen
    <3>4. busy[l] > 0 => at' = "refill" /\ cnt[l] = Limit[l]
      BY <1>1, <2>1, <2>2, ListTyped DEF CountsFit, Full, WithinLimit
    <3>5. WithinLimit(l)' BY <1>2, <2>1, <2>2, <3>2, ListTyped DEF CountsFit, WithinLimit
    <3>6. Len(list'[l]) = StoredLen(l)' + Surplus(l)'
      BY <1>1, <2>1, <3>1, <3>3, ListTyped DEF CountsFit
    <3>7. busy'[l] > 0 => at' = "refill" /\ l # MaxLevel /\ cnt'[l] + 1 = Limit[l]
      BY <1>1, <1>2, <2>2, <3>2, <3>4, ListTyped
    <3>8. QED BY <1>2, <2>2, <3>5, <3>6, <3>7 DEF CountsFit
  <2>3. CASE l # old
    <3>1. Surplus(l) = 0 /\ Surplus(l)' = 0 BY <1>1, <1>2, <2>3 DEF Surplus
    <3>2. QED BY <1>1, <1>2, <2>1, <2>3, <3>1 DEF CountsFit, StoredLen, WithinLimit, Full
  <2>4. QED BY <2>2, <2>3
<1>4. QED BY <1>1, <1>3, CountersFit

LEMMA RefillFits ==
    ASSUME Typed, ListsFit, MoveRefill
    PROVE  ListsFit' /\ Lost' \subseteq Lost
<1>1. /\ UNCHANGED <<busy, list, level, item, new>> /\ at = "refill" /\ at' = "unbusy"
      /\ cnt' = [cnt EXCEPT ![old] = @ + 1]
  BY DEF MoveRefill, At
<1>2. old' = old /\ old \in Asked /\ old \in Levels /\ old # MaxLevel /\ busy[old] # 0
      /\ cnt \in [Levels -> Nat]
  BY <1>1, InMove, MetaConstants DEF old, Moving, Typed, FileTyped, ControlOK
<1>3. ASSUME NEW l \in Levels PROVE CountsFit(l)'
  <2>1. CountsFit(l) BY DEF ListsFit
  <2>2. CASE l = old
    <3>1. Surplus(l) = 0 /\ Surplus(l)' = -1 BY <1>1, <1>2, <2>2 DEF Surplus
    <3>2. cnt'[l] = cnt[l] + 1 BY <1>1, <1>2, <2>2
    <3>3. StoredLen(l)' = StoredLen(l) + 1
      BY <1>1, <3>2, ListTyped DEF StoredLen
    <3>4. cnt[l] + 1 = Limit[l]
      BY <1>1, <1>2, <2>1, <2>2, ListTyped DEF CountsFit
    <3>5. QED BY <1>1, <1>2, <2>1, <2>2, <3>1, <3>2, <3>3, <3>4, ListTyped
              DEF CountsFit, WithinLimit, Full
  <2>3. CASE l # old
    <3>1. Surplus(l) = 0 /\ Surplus(l)' = 0 BY <1>1, <1>2, <2>3 DEF Surplus
    <3>2. QED BY <1>1, <1>2, <2>1, <2>3, <3>1 DEF CountsFit, StoredLen, WithinLimit, Full
  <2>4. QED BY <2>2, <2>3
<1>4. QED BY <1>1, <1>3, CountersFit

LEMMA UnbusyFits ==
    ASSUME Typed, ListsFit, MoveUnbusy
    PROVE  ListsFit' /\ Lost' \subseteq Lost
<1>1. /\ UNCHANGED <<cnt, list, level, item, new>> /\ at = "unbusy" /\ at' = "link"
      /\ busy' = [busy EXCEPT ![old] = @ - 1]
  BY DEF MoveUnbusy, At
<1>2. old' = old /\ old \in Levels /\ busy[old] # 0 /\ busy \in [Levels -> Nat]
  BY <1>1, InMove, MetaConstants DEF old, Moving, Typed, FileTyped, ControlOK
<1>3. ASSUME NEW l \in Levels PROVE CountsFit(l)'
  <2>1. CountsFit(l) BY DEF ListsFit
  <2>2. CASE l = old
    <3>1. Surplus(l) = -1 /\ Surplus(l)' = 0 BY <1>1, <1>2, <2>2 DEF Surplus
    <3>2. busy'[l] = busy[l] - 1 BY <1>1, <1>2, <2>2
    <3>3. StoredLen(l)' = StoredLen(l) - 1
      BY <1>1, <3>2, ListTyped DEF StoredLen
    <3>4. QED BY <1>1, <1>2, <2>1, <2>2, <3>1, <3>2, <3>3, ListTyped
              DEF CountsFit, WithinLimit, Full
  <2>3. CASE l # old
    <3>1. Surplus(l) = 0 /\ Surplus(l)' = 0 BY <1>1, <1>2, <2>3 DEF Surplus
    <3>2. QED BY <1>1, <1>2, <2>1, <2>3, <3>1 DEF CountsFit, StoredLen, WithinLimit, Full
  <2>4. QED BY <2>2, <2>3
<1>4. QED BY <1>1, <1>3, CountersFit

LEMMA CountFits ==
    ASSUME Typed, ListsFit, MoveCount \/ LoadCount
    PROVE  ListsFit' /\ Lost' \subseteq Lost
<1>1. /\ UNCHANGED <<list, level, item, new>> /\ at \in {"count", "l_count"}
      /\ at' \in {"level", "l_total"}
  BY DEF MoveCount, LoadCount, At
<1>2. new \in Levels /\ cnt \in [Levels -> Nat] /\ busy \in [Levels -> Nat]
  BY DEF Typed, MemoryTyped, FileTyped
<1>3. CountIn(new)
  <2>1. CASE MoveCount BY <2>1 DEF MoveCount
  <2>2. CASE LoadCount
    <3>1. new = 0 /\ todo \in 1 .. Total - cur /\ cnt[0] + todo <= Limit[0]
      <4>1. at = "l_count" BY <2>2 DEF LoadCount, At
      <4>2. at \in Loading /\ at \notin Moving /\ at # "l_total" BY <4>1 DEF Loading, Moving
      <4>3. Limit[0] + 0 = Limit[0] BY MetaConstants
      <4>4. QED BY <4>2, <4>3 DEF Typed, ControlOK
    <3>2. cnt[0] < Limit[0] BY <1>2, <3>1, MetaConstants
    <3>3. QED BY <2>2, <3>1, <3>2 DEF LoadCount, CountIn, Full
  <2>3. QED BY <2>1, <2>2
<1>4. ASSUME NEW l \in Levels PROVE CountsFit(l)'
  <2>1. CountsFit(l) BY DEF ListsFit
  <2>2. Surplus(l)' = 0 /\ Surplus(l) = IF l = new THEN 1 ELSE 0
    BY <1>1 DEF Surplus
  <2>3. CASE l = new
    <3>1. CASE Full(l)
      <4>1. cnt' = cnt /\ busy'[l] = busy[l] + 1 BY <1>2, <1>3, <2>3, <3>1 DEF CountIn
      <4>2. StoredLen(l)' = StoredLen(l) + 1 BY <4>1, ListTyped DEF StoredLen
      <4>3. QED BY <1>1, <2>1, <2>2, <2>3, <3>1, <4>1, <4>2, ListTyped
                DEF CountsFit, WithinLimit, Full
    <3>2. CASE ~Full(l)
      <4>1. busy' = busy /\ cnt'[l] = cnt[l] + 1 BY <1>2, <1>3, <2>3, <3>2 DEF CountIn
      <4>2. StoredLen(l)' = StoredLen(l) + 1 BY <4>1, ListTyped DEF StoredLen
      <4>3. ~(busy[l] > 0) BY <1>1, <2>1, <3>2 DEF CountsFit
      <4>4. WithinLimit(l)' BY <3>2, <4>1, ListTyped DEF WithinLimit, Full
      <4>5. QED BY <1>1, <2>1, <2>2, <2>3, <4>1, <4>2, <4>3, <4>4, ListTyped DEF CountsFit
    <3>3. QED BY <3>1, <3>2
  <2>4. CASE l # new
    <3>1. cnt'[l] = cnt[l] /\ busy'[l] = busy[l] BY <1>2, <1>3, <2>4 DEF CountIn
    <3>2. QED BY <1>1, <2>1, <2>2, <2>4, <3>1 DEF CountsFit, StoredLen, WithinLimit, Full
  <2>5. QED BY <2>3, <2>4
<1>5. QED BY <1>1, <1>4, CountersFit

\* The last VS of a box is led to the one in hand, or the first of an empty box is.
LEMMA LinkFits ==
    ASSUME Typed, ListsFit, MoveLink \/ LoadLink
    PROVE  ListsFit' /\ Lost' \subseteq Lost
<1>1. /\ UNCHANGED <<cnt, busy, cur, list, level, item, new>>
      /\ at \in {"link", "l_link"} /\ at' = IF at = "link" THEN "end" ELSE "l_end"
  BY DEF MoveLink, LoadLink, At
<1>2. LinkTo(new, item) /\ HasLast(new) /\ new \in Levels
      /\ first \in [Levels -> Nat \cup {NoMore, NewFirst}]
      /\ next \in [Items -> Items \cup {NoMore}]
  BY <1>1 DEF MoveLink, LoadLink, At, Typed, ControlOK, Moving, MemoryTyped, FileTyped
<1>3. old' = old BY <1>1 DEF old
<1> DEFINE n == Len(list[new])
<1>4. cnt[new] = 0 => list[new] = <<>>
  <2>1. CountsFit(new) BY <1>2 DEF ListsFit
  <2>2. Surplus(new) = 0 BY <1>1 DEF Surplus
  <2>3. QED BY <1>1, <1>2, <2>1, <2>2, EmptyByCount
<1>5. cnt[new] # 0 => n \in 1 .. n /\ list[new][n] \in Items
  BY <1>2, ListTyped DEF HasLast
<1>6. Distinct(list)' BY <1>1 DEF ListsFit, Distinct
<1>7. InHand'
  <2>1. CASE cnt[new] = 0
    BY <1>1, <1>2, <2>1 DEF InHand, Moving, Appended, ListsFit, LinkTo
  <2>2. CASE cnt[new] # 0
    BY <1>1, <1>2, <1>5, <2>2 DEF InHand, Moving, Appended, ListsFit, LinkTo
  <2>3. QED BY <2>1, <2>2
<1>8. ASSUME NEW m \in Levels PROVE (Links(list[m]) /\ Led(m) /\ CountsFit(m) /\ PlacesFit(m))'
  <2>1. Links(list[m]) /\ Led(m) /\ CountsFit(m) /\ PlacesFit(m) BY DEF ListsFit
  <2>2. Surplus(m) = 0 /\ Surplus(m)' = 0 BY <1>1 DEF Surplus
  <2>3. Links(list[m])'
    <3> SUFFICES ASSUME NEW j \in 1 .. Len(list[m]) - 1
                 PROVE  next'[list[m][j]] = list[m][j + 1]
      BY <1>1 DEF Links
    <3>1. /\ j \in 1 .. Len(list[m]) /\ list[m][j] \in Items /\ next[list[m][j]] = list[m][j + 1]
          /\ j # Len(list[m])
      BY <2>1, ListTyped DEF Links
    <3>2. CASE cnt[new] = 0 BY <1>2, <3>1, <3>2 DEF LinkTo
    <3>3. CASE cnt[new] # 0
      <4>1. list[m][j] # list[new][n] BY <1>2, <1>5, <3>1, <3>3, OnePlace
      <4>2. next'[list[m][j]] = next[list[m][j]] BY <1>2, <3>1, <3>3, <4>1 DEF LinkTo
      <4>3. QED BY <3>1, <4>2
    <3>4. QED BY <3>2, <3>3
  <2>4. Led(m)'
    <3>1. list[m] # <<>> => first[m] = list[m][1] BY <1>1, <2>1 DEF Led
    <3>2. list[m] # <<>> => first'[m] = first[m] BY <1>2, <1>4 DEF LinkTo
    <3>3. QED BY <1>1, <3>1, <3>2 DEF Led
  <2>5. CountsFit(m)' BY <1>1, <2>1, <2>2 DEF CountsFit, StoredLen, WithinLimit, Full
  <2>6. PlacesFit(m)' BY <1>1, <2>1 DEF PlacesFit, OffList
  <2>7. QED BY <2>3, <2>4, <2>5, <2>6
<1>9. Lost' \subseteq Lost BY <1>1 DEF Lost, Held, HeldIn, InTransit, Unloaded
<1>10. QED BY <1>6, <1>7, <1>8, <1>9 DEF ListsFit

LEMMA EndFits ==
    ASSUME Typed, ListsFit, MoveEnd \/ LoadEnd
    PROVE  ListsFit' /\ Lost' \subseteq Lost
<1>1. /\ UNCHANGED <<first, cnt, busy, cur, list, level, item, new>>
      /\ at \in {"end", "l_end"} /\ at' = IF at = "end" THEN "append" ELSE "l_append"
      /\ next' = [next EXCEPT ![item] = NoMore]
  BY DEF MoveEnd, LoadEnd, At
<1>2. new \in Levels /\ next \in [Items -> Items \cup {NoMore}] BY DEF Typed, MemoryTyped, FileTyped
<1>3. old' = old BY <1>1 DEF old
<1>4. \A m \in Levels : \A p \in 1 .. Len(list[m]) :
          list[m][p] \in Items /\ next'[list[m][p]] = next[list[m][p]]
  BY <1>1, <1>2, ListTyped DEF ListsFit, PlacesFit, OffList
<1>5. Distinct(list)' BY <1>1 DEF ListsFit, Distinct
<1>6. InHand'
  <2>1. cnt[new] # 0 => list[new] # <<>>
    <3>1. CountsFit(new) BY <1>2 DEF ListsFit
    <3>2. Surplus(new) = 0 BY <1>1 DEF Surplus
    <3>3. Len(list[new]) = StoredLen(new) BY <1>2, <3>1, <3>2, ListTyped DEF CountsFit
    <3>4. StoredLen(new) = 0 => cnt[new] = 0 BY <1>2, ListTyped DEF StoredLen
    <3>5. list[new] = <<>> => Len(list[new]) = 0 BY <1>2, ListTyped
    <3>6. QED BY <3>3, <3>4, <3>5
  <2>2. cnt[new] # 0 => Len(list[new]) \in 1 .. Len(list[new]) BY <1>2, <2>1, ListTyped
  <2>3. cnt[new] # 0 => next'[list[new][Len(list[new])]] = next[list[new][Len(list[new])]]
    BY <1>2, <1>4, <2>2
  <2>4. QED BY <1>1, <2>3 DEF InHand, Moving, Appended, Linked, ListsFit
<1>7. ASSUME NEW m \in Levels PROVE (Links(list[m]) /\ Led(m) /\ CountsFit(m) /\ PlacesFit(m))'
  <2>1. Links(list[m]) /\ Led(m) /\ CountsFit(m) /\ PlacesFit(m) BY DEF ListsFit
  <2>2. Surplus(m) = 0 /\ Surplus(m)' = 0 BY <1>1 DEF Surplus
  <2>3. Links(list[m])'
    <3> SUFFICES ASSUME NEW j \in 1 .. Len(list[m]) - 1
                 PROVE  next'[list[m][j]] = list[m][j + 1]
      BY <1>1 DEF Links
    <3>1. j \in 1 .. Len(list[m]) /\ next[list[m][j]] = list[m][j + 1]
      BY <2>1, ListTyped DEF Links
    <3>2. QED BY <1>4, <3>1
  <2>4. Led(m)' BY <1>1, <2>1 DEF Led
  <2>5. CountsFit(m)' BY <1>1, <2>1, <2>2 DEF CountsFit, StoredLen, WithinLimit, Full
  <2>6. PlacesFit(m)' BY <1>1, <2>1 DEF PlacesFit, OffList
  <2>7. QED BY <2>3, <2>4, <2>5, <2>6
<1>8. Lost' \subseteq Lost BY <1>1 DEF Lost, Held, HeldIn, InTransit, Unloaded
<1>9. QED BY <1>5, <1>6, <1>7, <1>8 DEF ListsFit

\* The VS in hand goes to the tail of the list whose chain leads to it already.
LEMMA AppendFits ==
    ASSUME Typed, ListsFit, at \in {"append", "l_append"},
           list' = [list EXCEPT ![new] = Append(@, item)],
           at' = IF at = "append" THEN "count" ELSE "l_count",
           level' = IF at = "append" THEN level ELSE [level EXCEPT ![item] = 0],
           UNCHANGED <<first, cnt, busy, next, cur, item, new>>
    PROVE  ListsFit' /\ Lost' \subseteq Lost
<1>1. new \in Levels /\ item \in Items /\ list \in [Levels -> Seq(Items)] /\ level \in [Items -> Levels]
  BY DEF Typed, MemoryTyped
<1> DEFINE s == list[new]
           t == Append(s, item)
<1>2. /\ t \in Seq(Items) /\ s \in Seq(Items) /\ Len(s) \in Nat /\ Len(t) = Len(s) + 1
      /\ \A p \in 1 .. Len(s) : t[p] = s[p]
      /\ t[Len(s) + 1] = item
  BY <1>1, AppendAt
<1>3. list'[new] = t /\ \A l \in Levels : l # new => list'[l] = list[l] BY <1>1
<1> HIDE DEF s, t
<1>4. \A l \in Levels : \A p \in 1 .. Len(list[l]) : list[l][p] # item
  BY DEF ListsFit, PlacesFit, OffList
<1>5. ASSUME NEW l \in Levels, NEW p \in 1 .. Len(list'[l])
      PROVE  \/ p \in 1 .. Len(list[l]) /\ list'[l][p] = list[l][p] /\ list'[l][p] # item
                /\ ~(l = new /\ p = Len(list'[l]))
             \/ p = Len(list'[l]) /\ l = new /\ list'[l][p] = item
  <2>1. CASE l = new /\ p = Len(s) + 1 BY <1>2, <1>3, <2>1
  <2>2. CASE l = new /\ p # Len(s) + 1
    <3>1. p \in 1 .. Len(s) /\ p # Len(t) BY <1>2, <1>3, <2>2
    <3>2. QED BY <1>2, <1>3, <1>4, <2>2, <3>1 DEF s
  <2>3. CASE l # new BY <1>3, <1>4, <2>3
  <2>4. QED BY <2>1, <2>2, <2>3
<1>6. Distinct(list)'
  <2> SUFFICES ASSUME NEW l \in Levels, NEW m \in Levels, NEW p \in 1 .. Len(list'[l]),
                      NEW q \in 1 .. Len(list'[m]), list'[l][p] = list'[m][q]
               PROVE  l = m /\ p = q
    BY DEF Distinct
  <2>1. CASE list'[l][p] = item BY <1>5, <2>1
  <2>2. CASE list'[l][p] # item
    <3>1. p \in 1 .. Len(list[l]) /\ q \in 1 .. Len(list[m]) /\ list[l][p] = list[m][q]
      BY <1>5, <2>2
    <3>2. QED BY <3>1, OnePlace
  <2>3. QED BY <2>1, <2>2
<1>7. InHand'
  <2>1. t # <<>> /\ Len(t) = Len(s) + 1 BY <1>2
  <2>2. list'[new] # <<>> /\ item = list'[new][Len(list'[new])] BY <1>2, <1>3, <2>1
  <2>3. QED BY <2>2 DEF InHand, Moving, Linked, ListsFit
<1>8. (cnt[new] = 0 => s = <<>>) /\ (cnt[new] # 0 => s # <<>>)
  <2>1. CountsFit(new) BY <1>1 DEF ListsFit
  <2>2. Surplus(new) = 0 BY DEF Surplus
  <2>3. cnt[new] = 0 => s = <<>> BY <1>1, <2>1, <2>2, EmptyByCount DEF s
  <2>4. cnt[new] # 0 => s # <<>> BY <1>1, <2>1, <2>2, ListTyped DEF CountsFit, StoredLen, s
  <2>5. QED BY <2>3, <2>4
<1>9. ASSUME NEW m \in Levels PROVE (Links(list[m]) /\ Led(m) /\ CountsFit(m))'
  <2>1. Links(list[m]) /\ Led(m) /\ CountsFit(m) BY DEF ListsFit
  <2>2. Surplus(m) = 0 /\ Surplus(m)' = IF m = new THEN 1 ELSE 0 BY DEF Surplus
  <2>3. Links(list[m])'
    <3>1. CASE m # new BY <1>3, <2>1, <3>1 DEF Links
    <3>2. CASE m = new
      <4> SUFFICES ASSUME NEW j \in 1 .. Len(t) - 1 PROVE next[t[j]] = t[j + 1]
        BY <1>3, <3>2 DEF Links
      <4>1. CASE j \in 1 .. Len(s) - 1
        <5>1. j \in 1 .. Len(s) /\ j + 1 \in 1 .. Len(s) BY <1>2, <4>1
        <5>2. next[s[j]] = s[j + 1] BY <2>1, <3>2, <4>1 DEF Links, s
        <5>3. QED BY <1>2, <5>1, <5>2
      <4>2. CASE j = Len(s)
        <5>1. cnt[new] # 0 BY <1>2, <1>8, <4>2
        <5>2. next[s[j]] = item BY <4>2, <5>1 DEF ListsFit, InHand, Linked, s
        <5>3. QED BY <1>2, <4>2, <5>2
      <4>3. QED BY <1>2, <4>1, <4>2
    <3>3. QED BY <3>1, <3>2
  <2>4. Led(m)'
    <3>1. CASE m # new BY <1>3, <2>1, <3>1 DEF Led
    <3>2. CASE m = new
      <4>1. CASE s = <<>>
        <5>1. cnt[new] = 0 /\ t[1] = item BY <1>2, <1>8, <4>1
        <5>2. first[new] = item BY <5>1 DEF ListsFit, InHand, Linked
        <5>3. QED BY <1>3, <3>2, <5>1, <5>2 DEF Led
      <4>2. CASE s # <<>>
        <5>1. t[1] = s[1] BY <1>2, <4>2
        <5>2. first[new] = s[1] BY <2>1, <3>2, <4>2 DEF Led, s
        <5>3. QED BY <1>3, <3>2, <5>1, <5>2 DEF Led
      <4>3. QED BY <4>1, <4>2
    <3>3. QED BY <3>1, <3>2
  <2>5. CountsFit(m)'
    <3>1. CASE m # new BY <1>3, <2>1, <2>2, <3>1 DEF CountsFit, StoredLen, WithinLimit, Full
    <3>2. CASE m = new
      <4>1. Len(t) = StoredLen(m) + 1 BY <1>2, <2>1, <2>2, <3>2, ListTyped DEF CountsFit, s
      <4>2. QED BY <1>3, <2>1, <2>2, <3>2, <4>1 DEF CountsFit, StoredLen, WithinLimit, Full
    <3>3. QED BY <3>1, <3>2
  <2>6. QED BY <2>3, <2>4, <2>5
<1>10. ASSUME NEW m \in Levels PROVE PlacesFit(m)'
  <2> SUFFICES ASSUME NEW p \in 1 .. Len(list'[m])
               PROVE  /\ level'[list'[m][p]] = m \/ (at' = "count" /\ IsTail(m, p)')
                      /\ list'[m][p] < cur \/ (at' = "l_count" /\ IsTail(m, p)')
    BY DEF PlacesFit, OffList
  <2>1. CASE p \in 1 .. Len(list[m]) /\ list'[m][p] = list[m][p] /\ list'[m][p] # item
    <3>1. level[list[m][p]] = m /\ list[m][p] < cur BY <2>1 DEF ListsFit, PlacesFit
    <3>2. list[m][p] \in Items BY <2>1, ListTyped
    <3>3. level'[list[m][p]] = level[list[m][p]] BY <1>1, <2>1, <3>2
    <3>4. QED BY <2>1, <3>1, <3>3
  <2>2. CASE p = Len(list'[m]) /\ m = new /\ list'[m][p] = item
    <3>1. IsTail(m, p)' BY <2>2 DEF IsTail
    <3>2. CASE at = "append"
      <4>1. item < cur BY <3>2 DEF ListsFit, InHand, Moving
      <4>2. QED BY <2>2, <3>1, <3>2, <4>1
    <3>3. CASE at = "l_append"
      <4>1. m = 0 BY <2>2, <3>3 DEF Typed, ControlOK, Moving
      <4>2. QED BY <1>1, <2>2, <3>1, <3>3, <4>1
    <3>4. QED BY <3>2, <3>3
  <2>3. QED BY <1>5, <2>1, <2>2
<1>11. Lost' \subseteq Lost
  <2> SUFFICES ASSUME NEW i \in Lost' PROVE i \in Lost
    OBVIOUS
  <2>1. i \in Items \ Unloaded /\ i # item /\ \A l \in Levels : i \notin HeldIn(list', l)
    BY DEF Lost, Held, InTransit, Unloaded
  <2>2. ASSUME NEW l \in Levels, NEW p \in 1 .. Len(list[l]), list[l][p] = i PROVE FALSE
    <3>1. p \in 1 .. Len(list'[l]) /\ list'[l][p] = i BY <1>2, <1>3, <2>2 DEF s
    <3>2. QED BY <2>1, <3>1 DEF HeldIn
  <2>3. i \in Missing(list) BY <2>1, <2>2 DEF Missing
  <2>4. QED BY <2>1, <2>3, LostIsMissing DEF InTransit
<1>12. QED BY <1>6, <1>7, <1>9, <1>10, <1>11 DEF ListsFit

LEMMA AppendsFit ==
    ASSUME Typed, ListsFit, MoveAppend \/ LoadAppend
    PROVE  ListsFit' /\ Lost' \subseteq Lost /\ UNCHANGED proc
<1>1. CASE MoveAppend
  <2>1. /\ at = "append" /\ at' = "count" /\ UNCHANGED proc
        /\ UNCHANGED <<first, cnt, busy, next, cur, item, new, level>>
        /\ list' = [list EXCEPT ![new] = Append(@, item)]
    BY <1>1 DEF MoveAppend, At, file
  <2>2. QED BY <2>1, AppendFits
<1>2. CASE LoadAppend
  <2>1. at = "l_append" /\ at' = "l_count" BY <1>2 DEF LoadAppend, At
  <2>2. new = 0 BY <2>1 DEF Typed, ControlOK, Moving
  <2>3. item \notin Held(list) BY <2>1 DEF ListsFit, PlacesFit, OffList, Held, HeldIn
  <2>4. /\ UNCHANGED <<first, cnt, busy, next, cur, item, new>> /\ UNCHANGED proc
        /\ list' = [list EXCEPT ![0] = Append(@, item)] /\ level' = [level EXCEPT ![item] = 0]
    BY <1>2, <2>3 DEF LoadAppend, file
  <2>5. QED BY <2>1, <2>2, <2>4, AppendFits
<1>3. QED BY <1>1, <1>2

\* The VS in hand is the tail of its new list, and on no other place of any list.
LEMMA TailInHand ==
    ASSUME Typed, ListsFit, at \in Appended
    PROVE  /\ item \in Items /\ new \in Levels /\ item \in Held(list)
           /\ Len(list[new]) \in 1 .. Len(list[new])
           /\ \A l \in Levels : \A p \in 1 .. Len(list[l]) :
                 list[l][p] = item <=> IsTail(l, p)
<1>1. item \in Items /\ new \in Levels BY DEF Typed, MemoryTyped, Appended
<1>2. list[new] # <<>> /\ item = list[new][Len(list[new])] BY DEF ListsFit, InHand
<1>3. Len(list[new]) \in 1 .. Len(list[new]) BY <1>1, <1>2, ListTyped
<1>4. item \in Held(list) BY <1>1, <1>2, <1>3 DEF Held, HeldIn
<1>5. ASSUME NEW l \in Levels, NEW p \in 1 .. Len(list[l])
      PROVE  list[l][p] = item <=> IsTail(l, p)
  BY <1>1, <1>2, <1>3, OnePlace DEF IsTail
<1>6. QED BY <1>1, <1>3, <1>4, <1>5

LEMMA LevelFits ==
    ASSUME Typed, ListsFit, MoveLevel
    PROVE  ListsFit' /\ Lost' \subseteq Lost
<1>1. /\ UNCHANGED <<first, cnt, busy, next, cur, list>>
      /\ at = "level" /\ at' = "idle" /\ level' = [level EXCEPT ![item] = new]
  BY DEF MoveLevel, At, file
<1>2. at \in Appended /\ level \in [Items -> Levels]
  BY <1>1 DEF Appended, Typed, MemoryTyped
<1>3. Distinct(list)' BY <1>1 DEF ListsFit, Distinct
<1>4. InHand' BY <1>1 DEF InHand, Moving, Appended, Linked
<1>5. ASSUME NEW m \in Levels PROVE (Links(list[m]) /\ Led(m) /\ CountsFit(m) /\ PlacesFit(m))'
  <2>1. Links(list[m]) /\ Led(m) /\ CountsFit(m) /\ PlacesFit(m) BY DEF ListsFit
  <2>2. Surplus(m) = 0 /\ Surplus(m)' = 0 BY <1>1 DEF Surplus
  <2>3. (Links(list[m]) /\ Led(m))' BY <1>1, <2>1 DEF Links, Led
  <2>4. CountsFit(m)' BY <1>1, <2>1, <2>2 DEF CountsFit, StoredLen, WithinLimit, Full
  <2>5. PlacesFit(m)'
    <3> SUFFICES ASSUME NEW p \in 1 .. Len(list[m])
                 PROVE  level'[list[m][p]] = m /\ list[m][p] < cur
      BY <1>1 DEF PlacesFit, OffList
    <3>1. list[m][p] < cur /\ list[m][p] \in Items BY <1>1, <2>1, ListTyped DEF PlacesFit
    <3>2. CASE IsTail(m, p) BY <1>1, <1>2, <3>1, <3>2, TailInHand DEF IsTail
    <3>3. CASE ~IsTail(m, p)
      <4>1. list[m][p] # item BY <1>2, <3>3, TailInHand
      <4>2. level[list[m][p]] = m BY <2>1, <3>3 DEF PlacesFit
      <4>3. QED BY <1>1, <1>2, <3>1, <4>1, <4>2
    <3>4. QED BY <3>2, <3>3
  <2>6. QED BY <2>3, <2>4, <2>5
<1>6. Lost' \subseteq Lost
  <2>1. item \in Held(list) BY <1>2, TailInHand
  <2>2. Held(list)' = Held(list) /\ Unloaded' = Unloaded BY <1>1 DEF Held, HeldIn, Unloaded
  <2>3. QED BY <2>1, <2>2 DEF Lost, InTransit
<1>7. QED BY <1>3, <1>4, <1>5, <1>6 DEF ListsFit

\* The VS in hand counts as loaded now; the next one is above all that are on a list.
LEMMA TotalFits ==
    ASSUME Typed, ListsFit, LoadTotal
    PROVE  ListsFit' /\ Lost' \subseteq Lost
<1>1. /\ UNCHANGED <<first, cnt, busy, next, level, list, new>> /\ cur' = cur + 1
      /\ at = "l_total" /\ at' \in {"idle", "l_link"} /\ (at' = "l_link" => item' = cur + 1)
  BY DEF LoadTotal, At
<1>2. at \in Appended /\ item = cur /\ cur \in Nat
  BY <1>1 DEF Appended, Typed, ControlOK, Loading, FileTyped
<1>3. Distinct(list)' BY <1>1 DEF ListsFit, Distinct
<1>4. InHand' BY <1>1 DEF InHand, Moving, Appended, Linked
<1>5. ASSUME NEW m \in Levels PROVE (Links(list[m]) /\ Led(m) /\ CountsFit(m) /\ PlacesFit(m))'
  <2>1. Links(list[m]) /\ Led(m) /\ CountsFit(m) /\ PlacesFit(m) BY DEF ListsFit
  <2>2. Surplus(m) = 0 /\ Surplus(m)' = 0 BY <1>1 DEF Surplus
  <2>3. (Links(list[m]) /\ Led(m))' BY <1>1, <2>1 DEF Links, Led
  <2>4. CountsFit(m)' BY <1>1, <2>1, <2>2 DEF CountsFit, StoredLen, WithinLimit, Full
  <2>5. PlacesFit(m)'
    <3> SUFFICES ASSUME NEW p \in 1 .. Len(list[m])
                 PROVE  /\ level[list[m][p]] = m /\ list[m][p] < cur + 1
                        /\ list[m][p] # cur + 1
      BY <1>1 DEF PlacesFit, OffList
    <3>1. level[list[m][p]] = m BY <1>1, <2>1 DEF PlacesFit
    <3>2. list[m][p] \in Nat BY ListTyped, MetaConstants
    <3>3. list[m][p] < cur \/ list[m][p] = cur
      <4>1. list[m][p] < cur \/ IsTail(m, p) BY <2>1 DEF PlacesFit
      <4>2. IsTail(m, p) => list[m][p] = item BY <1>2, TailInHand
      <4>3. QED BY <1>2, <4>1, <4>2
    <3>4. QED BY <1>2, <3>1, <3>2, <3>3
  <2>6. QED BY <2>3, <2>4, <2>5
<1>6. Lost' \subseteq Lost
  <2>1. item \in Held(list) BY <1>2, TailInHand
  <2>2. Held(list)' = Held(list) BY <1>1 DEF Held, HeldIn
  <2>3. Items \ Unloaded' \subseteq (Items \ Unloaded) \cup {cur}
    BY <1>1, <1>2, MetaConstants DEF Unloaded, Items
  <2>4. QED BY <1>2, <2>1, <2>2, <2>3 DEF Lost, InTransit
<1>7. QED BY <1>3, <1>4, <1>5, <1>6 DEF ListsFit

\* Between two commands no box that counts a VS is without one, or begins with one that
\* believes to be elsewhere; and while a VS is chained in, no box lacks its last one.
LEMMA NotAstray ==
    ASSUME Typed, ListsFit
    PROVE  /\ \A l \in Asked : ~MoveAstray(l)
           /\ ~LinkAstray
<1>1. ASSUME NEW l \in Asked, MoveAstray(l) PROVE FALSE
  <2>1. at = "idle" /\ cnt[l] # 0 /\ ~HeadBelongs(l) /\ l \in Levels
    BY <1>1, MetaConstants DEF MoveAstray
  <2>2. CountsFit(l) /\ PlacesFit(l) /\ Surplus(l) = 0 BY <2>1 DEF ListsFit, Surplus
  <2>3. Len(list[l]) = StoredLen(l) BY <2>1, <2>2, ListTyped DEF CountsFit
  <2>4. StoredLen(l) = 0 => cnt[l] = 0 BY <2>1, ListTyped DEF StoredLen
  <2>5. list[l] # <<>> BY <2>1, <2>3, <2>4, ListTyped
  <2>6. Head(list[l]) = list[l][1] /\ 1 \in 1 .. Len(list[l]) BY <2>1, <2>5, ListTyped, HeadTail
  <2>7. level[list[l][1]] = l BY <2>1, <2>2, <2>6 DEF PlacesFit
  <2>8. QED BY <2>1, <2>5, <2>6, <2>7 DEF HeadBelongs
<1>2. ASSUME LinkAstray PROVE FALSE
  <2>1. at \in {"link", "l_link"} /\ cnt[new] # 0 /\ list[new] = <<>> /\ new \in Levels
    BY <1>2 DEF LinkAstray, HasLast, Typed, MemoryTyped
  <2>2. CountsFit(new) /\ Surplus(new) = 0 BY <2>1 DEF ListsFit, Surplus
  <2>3. Len(list[new]) = StoredLen(new) BY <2>1, <2>2, ListTyped DEF CountsFit
  <2>4. StoredLen(new) = 0 => cnt[new] = 0 BY <2>1, ListTyped DEF StoredLen
  <2>5. QED BY <2>1, <2>3, <2>4, ListTyped
<1>3. QED BY <1>1, <1>2

LEMMA StoreFits ==
    ASSUME Typed, ListsFit, Store
    PROVE  ListsFit' /\ Lost' \subseteq Lost /\ UNCHANGED <<proc, kills, fatal>>
<1>1. UNCHANGED <<kills, fatal>>
  BY DEF Store, MoveFirst, MoveUnlink, MoveUncount, MoveRefill, MoveUnbusy, MoveLink, MoveEnd,
         MoveAppend, MoveCount, MoveLevel, LoadLink, LoadEnd, LoadAppend, LoadCount, LoadTotal
<1>2. CASE MoveAppend \/ LoadAppend BY <1>1, <1>2, AppendsFit
<1>3. CASE ~(MoveAppend \/ LoadAppend)
  <2>1. UNCHANGED proc
    BY <1>3 DEF Store, MoveFirst, MoveUnlink, MoveUncount, MoveRefill, MoveUnbusy, MoveLink,
                MoveEnd, MoveCount, MoveLevel, LoadLink, LoadEnd, LoadCount, LoadTotal
  <2>2. ListsFit' /\ Lost' \subseteq Lost
    BY <1>3, FirstFits, UnlinkFits, UncountFits, RefillFits, UnbusyFits, CountFits, LinkFits,
       EndFits, LevelFits, TotalFits DEF Store
  <2>3. QED BY <1>1, <2>1, <2>2
<1>4. QED BY <1>2, <1>3

\* One step of the process that is up, but for its end.
LEMMA StepFits ==
    ASSUME Typed, ListsFit, MetaNext, proc = "up", ~Kill, ~Interrupt
    PROVE  ListsFit' /\ Lost' \subseteq Lost /\ UNCHANGED <<proc, kills, fatal>>
<1>1. CASE \E l \in Asked : \E to \in {0, l + 1} : MoveStart(l, to)
  <2>1. PICK l \in Asked, to \in Levels : MoveStart(l, to)
    BY <1>1, TargetsAreLevels
  <2>2. UNCHANGED <<proc, kills, fatal>> BY <2>1 DEF MoveStart
  <2>3. QED BY <2>1, <2>2, StartFits
<1>2. CASE \E n \in 1 .. Total : LoadStart(n)
  <2>1. PICK n \in 1 .. Total : LoadStart(n) BY <1>2
  <2>2. UNCHANGED <<proc, kills, fatal>> BY <2>1 DEF LoadStart
  <2>3. QED BY <2>1, <2>2, LoadStartFits
<1>3. CASE Store BY <1>3, StoreFits
<1>4. ~Restart BY DEF Restart
<1>5. QED BY <1>1, <1>2, <1>3, <1>4, NotAstray DEF MetaNext

LEMMA StepInv == MetaInv /\ [MetaNext]_vars => MetaInv'
<1> SUFFICES ASSUME MetaInv, [MetaNext]_vars PROVE MetaInv'
  OBVIOUS
<1>1. Typed /\ Typed' BY StepTyped DEF MetaInv
<1>2. CASE UNCHANGED vars
  <2>1. UNCHANGED file /\ UNCHANGED <<first, cnt, busy, next, cur>>
        /\ UNCHANGED <<list, level, at, item, new, todo>> /\ UNCHANGED <<proc, kills, fatal>>
    BY <1>2 DEF vars, file, memory
  <2>2. DownFits' BY <2>1, SameFile DEF MetaInv, DownFits
  <2>3. Lost' = Lost BY <2>1 DEF Lost, Held, HeldIn, InTransit, Unloaded
  <2>4. ASSUME ListsFit PROVE ListsFit'
    <3>0. old' = old BY <2>1 DEF old
    <3>1. Distinct(list)' BY <2>1, <2>4 DEF ListsFit, Distinct
    <3>2. InHand' BY <2>1, <2>4, <3>0 DEF ListsFit, InHand
    <3>3. ASSUME NEW m \in Levels PROVE (Links(list[m]) /\ Led(m) /\ CountsFit(m) /\ PlacesFit(m))'
      <4>1. Links(list[m]) /\ Led(m) /\ CountsFit(m) /\ PlacesFit(m) BY <2>4 DEF ListsFit
      <4>2. (Links(list[m]) /\ Led(m))' BY <2>1, <3>0, <4>1 DEF Links, Led
      <4>3. Surplus(m)' = Surplus(m) BY <2>1, <3>0 DEF Surplus
      <4>4. CountsFit(m)' BY <2>1, <3>0, <4>1, <4>3 DEF CountsFit, StoredLen, WithinLimit, Full
      <4>5. PlacesFit(m)' BY <2>1, <4>1 DEF PlacesFit, IsTail
      <4>6. QED BY <4>2, <4>4, <4>5
    <3>4. QED BY <3>1, <3>2, <3>3 DEF ListsFit
  <2>5. UpFits' BY <2>1, <2>3, <2>4 DEF MetaInv, UpFits
  <2>6. QED BY <1>1, <2>1, <2>2, <2>5 DEF MetaInv
<1>3. CASE Kill BY <1>3, Kills
<1>4. CASE Interrupt BY <1>4, Interrupts
<1>5. CASE Restart BY <1>5, Restarts
<1>6. CASE MetaNext /\ ~Kill /\ ~Interrupt /\ ~Restart
  <2>1. proc = "up"
    BY <1>6 DEF MetaNext, MoveStart, MoveAstray, LinkAstray, LoadStart, Store, MoveFirst,
                MoveUnlink, MoveUncount, MoveRefill, MoveUnbusy, MoveLink, MoveEnd, MoveAppend,
                MoveCount, MoveLevel, LoadLink, LoadEnd, LoadAppend, LoadCount, LoadTotal, At
  <2>2. fatal' = fatal /\ proc' \in {"up", "broken"}
    BY <1>6, <2>1 DEF MetaNext, MoveStart, MoveAstray, LinkAstray, LoadStart, Store, MoveFirst,
                MoveUnlink, MoveUncount, MoveRefill, MoveUnbusy, MoveLink, MoveEnd, MoveAppend,
                MoveCount, MoveLevel, LoadLink, LoadEnd, LoadAppend, LoadCount, LoadTotal, At
  <2>3. CASE fatal BY <1>1, <2>2, <2>3 DEF MetaInv, UpFits, DownFits
  <2>4. CASE ~fatal
    <3>1. ListsFit /\ Cardinality(Lost) <= kills BY <2>1, <2>4 DEF MetaInv, UpFits
    <3>2. ListsFit' /\ Lost' \subseteq Lost /\ UNCHANGED <<proc, kills, fatal>>
      BY <1>1, <1>6, <2>1, <3>1, StepFits
    <3>3. Cardinality(Lost') <= Cardinality(Lost) /\ Cardinality(Lost') \in Nat
      BY <1>1, <3>2, LostIsFinite, FS_Subset, FS_CardinalityType
    <3>4. Cardinality(Lost) \in Nat /\ kills \in Nat
      BY <1>1, LostIsFinite DEF Typed, EnvTyped
    <3>5. Cardinality(Lost') <= kills' BY <3>1, <3>2, <3>3, <3>4
    <3>6. QED BY <1>1, <2>1, <3>2, <3>5 DEF MetaInv, UpFits, DownFits
  <2>5. QED BY <2>3, <2>4
<1>7. QED BY <1>2, <1>3, <1>4, <1>5, <1>6

-----------------------------------------------------------------------------
(* What follows from the invariant *)

LEMMA InvTypes == Typed => MetaTypeOK
<1> SUFFICES ASSUME Typed PROVE MetaTypeOK
  OBVIOUS
<1>1. at \in {"idle", "first", "unlink", "uncount", "refill", "unbusy", "link", "end", "append",
              "count", "level", "l_link", "l_end", "l_append", "l_count", "l_total"}
  BY DEF Typed, MemoryTyped, Moving, Loading
<1>2. QED BY <1>1 DEF Typed, FileTyped, MemoryTyped, EnvTyped, MetaTypeOK

LEMMA InvCounts == MetaInv => CountsDescribeLists
<1> SUFFICES ASSUME MetaInv PROVE CountsDescribeLists
  OBVIOUS
<1>1. Typed /\ MetaTypeOK BY InvTypes DEF MetaInv
<1>2. ASSUME proc = "up", at = "idle", ~fatal, NEW l \in Levels
      PROVE  /\ Len(list[l]) = cnt[l] + busy[l]
             /\ l # MaxLevel => cnt[l] <= Limit[l]
             /\ busy[l] > 0 => Full(l)
  <2>1. CountsFit(l) BY <1>2 DEF MetaInv, UpFits, ListsFit
  <2>2. Surplus(l) = 0 BY <1>2 DEF Surplus
  <2>3. Len(list[l]) = StoredLen(l) BY <1>1, <2>1, <2>2, ListTyped DEF CountsFit
  <2>4. QED BY <1>2, <2>1, <2>3 DEF CountsFit, StoredLen, WithinLimit
<1>3. QED BY <1>1, <1>2 DEF CountsDescribeLists

LEMMA InvFinds == MetaInv => NextFindsTheBoxes
<1> SUFFICES ASSUME MetaInv, proc = "up", ~fatal, ~KillWindow
             PROVE  /\ Recoverable
                    /\ \A l \in Levels : \/ Stored(l) = list[l]
                                         \/ at # "idle" /\ list[l] = Append(Stored(l), item)
  BY DEF NextFindsTheBoxes
<1>1. Typed /\ ListsFit /\ FileTyped BY DEF MetaInv, UpFits, Typed
<1>2. Describes(InFile) BY <1>1, FileDescribes
<1>3. Recoverable /\ \A l \in Levels : Stored(l) = InFile[l] BY <1>1, <1>2, DescribedIsFound
<1>4. ASSUME NEW l \in Levels
      PROVE  \/ Stored(l) = list[l]
             \/ at # "idle" /\ list[l] = Append(Stored(l), item)
  <2>1. CASE Uncounted(l)
    <3>1. at # "idle" BY <2>1 DEF Uncounted
    <3>2. list[l] = Append(InFile[l], item) BY <1>1, <2>1, InFileAt
    <3>3. QED BY <1>3, <3>1, <3>2
  <2>2. CASE ~Uncounted(l) BY <1>1, <1>3, <2>2, InFileAt
  <2>3. QED BY <2>1, <2>2
<1>5. QED BY <1>3, <1>4

LEMMA InvBystanders == MetaInv => BystandersIntact
<1> SUFFICES ASSUME MetaInv, proc = "up", ~fatal, NEW l \in Levels, l \notin Touched
             PROVE  Walks(l) = {list[l]}
  BY DEF BystandersIntact
<1>1. Typed /\ ListsFit /\ FileTyped BY DEF MetaInv, UpFits, Typed
<1>2. at # "idle" => l # old /\ l # new BY DEF Touched, old
<1>3. Links(list[l]) /\ Led(l) /\ CountsFit(l) BY <1>1 DEF ListsFit
<1>4. Surplus(l) = 0 BY <1>2 DEF Surplus
<1>5. StoredLen(l) = Len(list[l]) BY <1>1, <1>3, <1>4, ListTyped DEF CountsFit
<1>6. list[l] # <<>> => first[l] = list[l][1] BY <1>2, <1>3 DEF Led
<1>7. Chain(l, list[l]) BY <1>3, <1>5, <1>6 DEF Chain
<1>8. QED BY <1>1, <1>7, ListTyped, WalkOnly

LEMMA InvHurts == MetaInv => HurtsOnlyInWindow
  BY InvFinds, InvBystanders DEF HurtsOnlyInWindow, BreaksOnlyInWindow, MetaInv

LEMMA InvLost == MetaInv => LostOnePerKill
  BY DEF MetaInv, UpFits, LostOnePerKill

LEMMA MetaInvariant == MetaSpec => []MetaInv
<1>1. QED BY InitFits, StepInv, PTL DEF MetaSpec

\* At every start of a command, on every number of boxes, every table of limits and every vs
\* file, the counters of the meta file describe the lists of the process, as long as it was
\* interrupted (and its predecessors killed) outside of the windows only.
THEOREM MetaCountsDescribeLists == MetaSpec => []CountsDescribeLists
BY MetaInvariant, InvCounts, PTL

\* A process killed outside of KillWindow leaves a file from which ltsys_meta_init rebuilds
\* every list, but for the VS in hand; boxes that a move does not name are recoverable at
\* every store; and nothing gets corrupted without an interruption inside of a window.
THEOREM MetaHurtsOnlyInWindow == MetaSpec => []HurtsOnlyInWindow
BY MetaInvariant, InvHurts, PTL

\* As many loaded VSes as kills and interrupts, at most, are on no list.
THEOREM MetaLostOnePerKill == MetaSpec => []LostOnePerKill
BY MetaInvariant, InvLost, PTL

-----------------------------------------------------------------------------
(* No step brings a lost VS back *)

\* A step whose lists hold nothing new but the VS in hand, and which takes in hand a VS of
\* a list or one that has not been loaded.
LEMMA LostStays ==
    ASSUME Typed, Typed',
           cur' = cur \/ cur' = cur + 1,
           \A l \in Levels : HeldIn(list, l)' \subseteq HeldIn(list, l) \cup InTransit,
           InTransit' \subseteq InTransit \cup Held(list) \cup {i \in Int : i >= cur}
    PROVE  Lost \subseteq Lost'
<1> SUFFICES ASSUME NEW i \in Lost PROVE i \in Lost'
  OBVIOUS
<1>1. i \in Items /\ i \notin Unloaded /\ i \notin Held(list) /\ i \notin InTransit BY DEF Lost
<1>2. cur \in 0 .. Total /\ Total \in Nat BY MetaConstants DEF Typed, FileTyped
<1>3. i \in Int /\ i < cur BY <1>1, <1>2 DEF Unloaded, Items
<1>4. i \notin Unloaded' BY <1>2, <1>3 DEF Unloaded
<1>5. i \notin Held(list)' BY <1>1 DEF Held
<1>6. i \notin InTransit' BY <1>1, <1>2, <1>3
<1>7. QED BY <1>1, <1>4, <1>5, <1>6 DEF Lost

LEMMA StoreKeepsLost ==
    ASSUME Typed, ListsFit, Store
    PROVE  Lost \subseteq Lost'
<1>1. Typed' BY StepTyped DEF MetaNext
<1>2. at # "idle" /\ InTransit = {item}
  BY DEF Store, MoveFirst, MoveUnlink, MoveUncount, MoveRefill, MoveUnbusy, MoveLink, MoveEnd,
         MoveAppend, MoveCount, MoveLevel, LoadLink, LoadEnd, LoadAppend, LoadCount, LoadTotal, At,
         InTransit
<1>3. CASE MoveLevel \/ LoadTotal
  <2>1. UNCHANGED list /\ (cur' = cur \/ cur' = cur + 1)
        /\ (InTransit' = {} \/ (item' = cur + 1 /\ InTransit' = {item'}))
    <3>1. CASE MoveLevel
      <4>1. UNCHANGED <<list, cur>> /\ at' = "idle" BY <3>1 DEF MoveLevel, At, file
      <4>2. InTransit' = {} BY <4>1 DEF InTransit
      <4>3. QED BY <4>1, <4>2
    <3>2. CASE LoadTotal
      <4>1. UNCHANGED list /\ cur' = cur + 1 BY <3>2 DEF LoadTotal
      <4>2. CASE todo = 1
        <5>1. at' = "idle" BY <3>2, <4>2 DEF LoadTotal, At
        <5>2. InTransit' = {} BY <5>1 DEF InTransit
        <5>3. QED BY <4>1, <5>2
      <4>3. CASE todo # 1
        <5>1. at' = "l_link" /\ item' = cur + 1 BY <3>2, <4>3 DEF LoadTotal, At
        <5>2. InTransit' = {item'} BY <5>1 DEF InTransit
        <5>3. QED BY <4>1, <5>1, <5>2
      <4>4. QED BY <4>2, <4>3
    <3>3. QED BY <1>3, <3>1, <3>2
  <2>2. \A l \in Levels : HeldIn(list, l)' = HeldIn(list, l) BY <2>1 DEF HeldIn
  <2>3. cur \in Int /\ cur + 1 >= cur BY DEF Typed, FileTyped
  <2>4. QED BY <1>1, <2>1, <2>2, <2>3, LostStays
<1>4. CASE MoveUnlink
  <2>1. UNCHANGED <<cur, item>> /\ at' # "idle" /\ list' = [list EXCEPT ![old] = Tail(@)]
        /\ at = "unlink"
    BY <1>4 DEF MoveUnlink, At, file
  <2>2. old \in Levels /\ list[old] # <<>> BY <2>1, InMove DEF Moving
  <2>3. ASSUME NEW l \in Levels PROVE HeldIn(list, l)' \subseteq HeldIn(list, l)
    <3>1. CASE l = old
      <4>1. list'[l] = Tail(list[l]) BY <2>1, <3>1, <1>1 DEF Typed, MemoryTyped
      <4>2. /\ Len(list'[l]) = Len(list[l]) - 1 /\ Len(list[l]) \in Nat
            /\ \A p \in 1 .. Len(list[l]) - 1 : list'[l][p] = list[l][p + 1]
        BY <2>2, <3>1, <4>1, ListTyped, HeadTail
      <4>3. QED BY <4>2 DEF HeldIn
    <3>2. CASE l # old
      <4>1. list'[l] = list[l] BY <2>1, <3>2, <1>1 DEF Typed, MemoryTyped
      <4>2. QED BY <4>1 DEF HeldIn
    <3>3. QED BY <3>1, <3>2
  <2>4. InTransit' = {item} BY <2>1 DEF InTransit
  <2>5. QED BY <1>1, <1>2, <2>1, <2>3, <2>4, LostStays
<1>5. CASE MoveAppend \/ LoadAppend
  <2>1. UNCHANGED <<cur, item>> /\ at' # "idle"
        /\ \/ list' = [list EXCEPT ![new] = Append(@, item)]
           \/ list' = [list EXCEPT ![0] = Append(@, item)]
           \/ list' = list
    BY <1>5 DEF MoveAppend, LoadAppend, At, file
  <2>2. item \in Items BY <1>2 DEF Typed, MemoryTyped
  <2>3. ASSUME NEW l \in Levels PROVE HeldIn(list, l)' \subseteq HeldIn(list, l) \cup {item}
    <3>1. list'[l] \in {list[l], Append(list[l], item)}
      BY <2>1 DEF Typed, MemoryTyped
    <3>2. CASE list'[l] = Append(list[l], item)
      <4>1. /\ Len(list'[l]) = Len(list[l]) + 1 /\ Len(list[l]) \in Nat
            /\ \A p \in 1 .. Len(list[l]) : list'[l][p] = list[l][p]
            /\ list'[l][Len(list[l]) + 1] = item
        BY <2>2, <3>2, ListTyped, AppendAt
      <4>2. QED BY <4>1, SMTT(30) DEF HeldIn
    <3>3. CASE list'[l] = list[l] BY <3>3 DEF HeldIn
    <3>4. QED BY <3>1, <3>2, <3>3
  <2>4. InTransit' = {item} BY <2>1 DEF InTransit
  <2>5. QED BY <1>1, <1>2, <2>1, <2>3, <2>4, LostStays
<1>6. CASE ~(MoveLevel \/ LoadTotal \/ MoveUnlink \/ MoveAppend \/ LoadAppend)
  <2>1. UNCHANGED <<cur, item, list>> /\ at' # "idle"
    BY <1>6 DEF Store, MoveFirst, MoveUncount, MoveRefill, MoveUnbusy, MoveLink, MoveEnd,
                MoveCount, LoadLink, LoadEnd, LoadCount, At
  <2>2. \A l \in Levels : HeldIn(list, l)' = HeldIn(list, l) BY <2>1 DEF HeldIn
  <2>3. InTransit' = {item} BY <2>1 DEF InTransit
  <2>4. QED BY <1>1, <1>2, <2>1, <2>2, <2>3, LostStays
<1>7. QED BY <1>3, <1>4, <1>5, <1>6

LEMMA UpKeepsLost ==
    ASSUME MetaInv, [MetaNext]_vars, proc = "up", ~Kill, ~fatal'
    PROVE  Lost \subseteq Lost'
<1>1. Typed /\ Typed' BY StepTyped DEF MetaInv
<1>2. ASSUME UNCHANGED <<cur, list>>, InTransit' \subseteq InTransit \cup Held(list) \cup {cur}
      PROVE  Lost \subseteq Lost'
  <2>1. \A l \in Levels : HeldIn(list, l)' = HeldIn(list, l) BY <1>2 DEF HeldIn
  <2>2. cur \in Int /\ cur >= cur BY <1>1 DEF Typed, FileTyped
  <2>3. QED BY <1>1, <1>2, <2>1, <2>2, LostStays
<1>3. CASE UNCHANGED vars \/ (\E l \in Asked : MoveAstray(l)) \/ LinkAstray
  <2>1. UNCHANGED <<cur, list, at, item>>
    BY <1>3 DEF MoveAstray, LinkAstray, vars, file, memory
  <2>2. QED BY <1>2, <2>1 DEF InTransit
<1>4. CASE Interrupt BY <1>2, <1>4 DEF Interrupt, file, InTransit
<1>6. CASE \E l \in Asked : \E to \in {0, l + 1} : MoveStart(l, to)
  <2>1. PICK l \in Asked, to \in Levels : MoveStart(l, to) BY <1>6, TargetsAreLevels
  <2>2. UNCHANGED <<cur, list>> /\ item' = Head(list[l]) /\ l \in Levels /\ list[l] # <<>>
    BY <2>1, MetaConstants DEF MoveStart, file, HeadBelongs
  <2>3. item' = list[l][1] /\ 1 \in 1 .. Len(list[l]) BY <1>1, <2>2, ListTyped, HeadTail
  <2>4. item' \in Held(list) BY <2>2, <2>3 DEF Held, HeldIn
  <2>5. QED BY <1>2, <2>2, <2>4 DEF InTransit
<1>7. CASE \E n \in 1 .. Total : LoadStart(n)
  <2>1. UNCHANGED <<cur, list>> /\ item' = cur BY <1>7 DEF LoadStart, file
  <2>2. QED BY <1>2, <2>1 DEF InTransit
<1>8. CASE Store
  <2>1. ~fatal
    BY <1>8 DEF Store, MoveFirst, MoveUnlink, MoveUncount, MoveRefill, MoveUnbusy, MoveLink,
                MoveEnd, MoveAppend, MoveCount, MoveLevel, LoadLink, LoadEnd, LoadAppend,
                LoadCount, LoadTotal
  <2>2. QED BY <1>1, <1>8, <2>1, StoreKeepsLost DEF MetaInv, UpFits
<1>9. ~Restart BY DEF Restart
<1>10. QED BY <1>3, <1>4, <1>6, <1>7, <1>8, <1>9 DEF MetaNext

LEMMA ReachOfFile == (Items \ Unloaded) \ Held(Found) = Missing(Found)
  BY DEF Missing, Held, HeldIn

\* A kill: what the chains hold of box after box was on its list.
LEMMA KillKeepsLost ==
    ASSUME MetaInv, Kill, ~fatal'
    PROVE  OutOfReach \subseteq OutOfReach'
<1>1. ~fatal /\ ~KillWindow /\ proc = "up" /\ proc' = "down" /\ UNCHANGED file BY DEF Kill
<1>2. Typed /\ ListsFit /\ FileTyped BY <1>1 DEF MetaInv, UpFits, Typed
<1>3. Describes(InFile) BY <1>1, <1>2, FileDescribes
<1>4. Found = InFile BY <1>2, <1>3, DescribedIsFound
<1>5. Lost \subseteq Missing(Found)
  <2> SUFFICES ASSUME NEW i \in Lost, NEW l \in Levels, NEW p \in 1 .. Len(Found[l]), Found[l][p] = i
               PROVE  FALSE
    BY DEF Lost, Missing
  <2>1. p \in 1 .. Len(list[l]) /\ list[l][p] = i BY <1>2, <1>4, InFileAt
  <2>2. i \in Missing(list) BY LostIsMissing
  <2>3. QED BY <2>1, <2>2 DEF Missing
<1>6. OutOfReach = Lost BY <1>1 DEF OutOfReach
<1>7. OutOfReach' = Missing(Found)' BY <1>1, ReachOfFile DEF OutOfReach, Missing, Held, HeldIn
<1>8. QED BY <1>1, <1>5, <1>6, <1>7, SameFile

\* The next process: ltsys_meta_init puts the chains on the lists and nothing else.
LEMMA RestartKeepsLost ==
    ASSUME MetaInv, Restart, proc' # "broken", ~fatal'
    PROVE  OutOfReach \subseteq OutOfReach'
<1>1. proc = "down" /\ proc' = "up" /\ at = "idle" /\ at' = "idle" /\ list' = Found /\ UNCHANGED cur
  BY DEF Restart, MetaInv, Typed, ControlOK, file
<1>2. OutOfReach = (Items \ Unloaded) \ Held(Found) BY <1>1 DEF OutOfReach
<1>3. OutOfReach' = (Items \ Unloaded) \ Held(Found)
  BY <1>1 DEF OutOfReach, Lost, InTransit, Held, HeldIn, Unloaded
<1>4. QED BY <1>2, <1>3

LEMMA StepKeepsLost ==
    ASSUME MetaInv, [MetaNext]_vars, proc # "broken", proc' # "broken", ~fatal'
    PROVE  OutOfReach \subseteq OutOfReach'
<1>1. proc \in {"up", "down"} /\ Typed BY DEF MetaInv, Typed, EnvTyped
<1>2. CASE Kill BY <1>2, KillKeepsLost
<1>3. CASE Restart BY <1>3, RestartKeepsLost
<1>4. CASE proc = "up" /\ ~Kill /\ ~Restart
  <2>1. proc' = "up"
    <3>1. UNCHANGED proc \/ proc' = "broken"
      BY <1>4 DEF MetaNext, Store, MoveStart, MoveAstray, LinkAstray, LoadStart, Interrupt, MoveFirst,
                  MoveUnlink, MoveUncount, MoveRefill, MoveUnbusy, MoveLink, MoveEnd, MoveAppend,
                  MoveCount, MoveLevel, LoadLink, LoadEnd, LoadAppend, LoadCount, LoadTotal, vars
    <3>2. QED BY <1>4, <3>1
  <2>2. Lost \subseteq Lost' BY <1>4, UpKeepsLost
  <2>3. QED BY <1>4, <2>1, <2>2 DEF OutOfReach
<1>5. CASE proc = "down" /\ ~Restart
  <2>1. UNCHANGED vars
    BY <1>5 DEF MetaNext, Store, MoveStart, MoveAstray, LinkAstray, LoadStart, Interrupt, Kill,
                MoveFirst, MoveUnlink, MoveUncount, MoveRefill, MoveUnbusy, MoveLink, MoveEnd,
                MoveAppend, MoveCount, MoveLevel, LoadLink, LoadEnd, LoadAppend, LoadCount,
                LoadTotal, At
  <2>2. UNCHANGED <<file, proc, list, at, item>> /\ OutOfReach = Missing(Found)
    BY <1>5, <2>1, ReachOfFile DEF vars, memory, OutOfReach
  <2>3. OutOfReach' = Missing(Found)'
    BY <1>5, <2>2 DEF OutOfReach, Missing, Held, HeldIn
  <2>4. QED BY <2>2, <2>3, SameFile
<1>6. QED BY <1>1, <1>2, <1>3, <1>4, <1>5

\* What a kill or CTRL-C has cost stays lost, in the same process, over further kills and in
\* every later process: ltsys_meta_init finds no VS again that was on no list, and cmd_load
\* goes on behind it.
THEOREM MetaLostForGood == MetaSpec => LostForGood
<1>1. MetaInv /\ [MetaNext]_vars =>
        [proc # "broken" /\ proc' # "broken" /\ ~fatal' => OutOfReach \subseteq OutOfReach']_vars
  BY StepKeepsLost
<1>2. QED BY <1>1, MetaInvariant, PTL DEF MetaSpec, LostForGood

-----------------------------------------------------------------------------
(* The stores implement LtBoxes *)

LEMMA HeadBack ==
    ASSUME NEW S, NEW s \in Seq(S), NEW x \in S
    PROVE  /\ <<x>> \o s \in Seq(S) /\ <<x>> \o s # <<>>
           /\ Head(<<x>> \o s) = x /\ Tail(<<x>> \o s) = s
  OBVIOUS

LEMMA HeadAndTail ==
    ASSUME NEW S, NEW s \in Seq(S), s # <<>>
    PROVE  <<s[1]>> \o Tail(s) = s
  OBVIOUS

\* Where the VS in hand is off its old list.
HasLeft == at \in {"uncount", "refill", "unbusy", "link", "end", "append"}

\* The step with which a VS is on its new list is the move or the load of LtBoxes.
LEMMA AppendIsMove ==
    ASSUME Typed, ListsFit, MoveAppend
    PROVE  Boxes!Move(old, new)
<1>1. /\ at = "append" /\ at' = "count" /\ UNCHANGED <<cur, level, item>>
      /\ list' = [list EXCEPT ![new] = Append(@, item)]
  BY DEF MoveAppend, At, file
<1>2. /\ item \in Items /\ old \in Asked /\ old \in Levels /\ new \in {0, old + 1}
      /\ list[old] \in Seq(Items)
  BY <1>1, InMove DEF Moving
<1>3. new \in Levels /\ list \in [Levels -> Seq(Items)] BY DEF Typed, MemoryTyped
<1> DEFINE b == <<item>> \o list[old]
<1>4. b # <<>> /\ Head(b) = item /\ Tail(b) = list[old] BY <1>2, HeadBack
<1> HIDE DEF b
<1>5. AbsBox = [list EXCEPT ![old] = b] BY <1>1, <1>2, <1>3 DEF AbsBox, b
<1>6. AbsBox' = list' BY <1>1 DEF AbsBox
<1>7. AbsLoaded = cur /\ AbsLoaded' = cur BY <1>1 DEF AbsLoaded
<1>8. AbsBox[old] = b BY <1>2, <1>3, <1>5
<1>9. AbsBox' = [AbsBox EXCEPT ![old] = Tail(@), ![new] = Append(@, Head(AbsBox[old]))]
  BY <1>1, <1>2, <1>3, <1>4, <1>5, <1>6, <1>8
<1>10. QED BY <1>2, <1>4, <1>7, <1>8, <1>9 DEF Boxes!Move, Boxes!Moved, Boxes!Targets, Asked

LEMMA AppendIsLoad ==
    ASSUME Typed, ListsFit, LoadAppend
    PROVE  Boxes!Load(1)
<1>1. at = "l_append" /\ at' = "l_count" /\ UNCHANGED cur BY DEF LoadAppend, At, file
<1>2. item = cur /\ todo \in 1 .. Total - cur /\ cur \in Nat /\ Total \in Nat /\ item \in Items
  BY <1>1, MetaConstants DEF Typed, ControlOK, Loading, FileTyped, MemoryTyped
<1>3. item \notin Held(list) BY <1>1 DEF ListsFit, PlacesFit, OffList, Held, HeldIn
<1>4. list' = [list EXCEPT ![0] = Append(@, item)] BY <1>3 DEF LoadAppend
<1>5. AbsBox = list /\ AbsBox' = list' BY <1>1 DEF AbsBox
<1>6. AbsLoaded = cur /\ AbsLoaded' = cur + 1 BY <1>1 DEF AbsLoaded
<1>7. Boxes!Drawn(1) = <<item>>
  <2>1. \A p \in 1 .. 1 : cur + p - 1 = cur BY <1>2
  <2>2. QED BY <1>2, <1>6, <2>1 DEF Boxes!Drawn
<1>8. list[0] \in Seq(Items) /\ 0 \in Levels BY MetaConstants DEF Typed, MemoryTyped
<1>9. Append(list[0], item) = list[0] \o <<item>> BY <1>2, <1>8
<1>10. list' = [list EXCEPT ![0] = @ \o <<item>>] BY <1>4, <1>9
<1>11. 1 \in 1 .. Total - cur BY <1>2
<1>12. QED BY <1>5, <1>6, <1>7, <1>10, <1>11 DEF Boxes!Load

LEMMA UnlinkIsNone ==
    ASSUME Typed, ListsFit, MoveUnlink
    PROVE  UNCHANGED <<AbsBox, AbsLoaded>>
<1>1. /\ at = "unlink" /\ at' = "uncount" /\ UNCHANGED <<cur, level, item>>
      /\ list' = [list EXCEPT ![old] = Tail(@)]
  BY DEF MoveUnlink, At, file
<1>2. old' = old /\ old \in Levels /\ list[old] \in Seq(Items) /\ list[old] # <<>>
  BY <1>1, InMove DEF old, Moving
<1>3. item = list[old][1] BY <1>1 DEF ListsFit, InHand
<1>4. <<item>> \o Tail(list[old]) = list[old] BY <1>2, <1>3, HeadAndTail
<1>5. list \in [Levels -> Seq(Items)] BY DEF Typed, MemoryTyped
<1>6. AbsBox = list /\ AbsLoaded = cur /\ AbsLoaded' = cur BY <1>1 DEF AbsBox, AbsLoaded
<1>7. AbsBox' = [list' EXCEPT ![old] = <<item>> \o @] BY <1>1, <1>2 DEF AbsBox
<1>8. list'[old] = Tail(list[old]) BY <1>1, <1>2, <1>5
<1>9. [list' EXCEPT ![old] = <<item>> \o @] = list BY <1>1, <1>2, <1>4, <1>5, <1>8
<1>10. QED BY <1>6, <1>7, <1>9

LEMMA OthersAreNone ==
    ASSUME Typed, Store, ~MoveAppend, ~LoadAppend, ~MoveUnlink
    PROVE  UNCHANGED <<AbsBox, AbsLoaded>>
<1>1. CASE MoveLevel BY <1>1 DEF MoveLevel, At, file, AbsBox, AbsLoaded
<1>2. CASE LoadTotal
  <2>1. at = "l_total" /\ at' \in {"idle", "l_link"} /\ list' = list /\ cur' = cur + 1
    BY <1>2 DEF LoadTotal, At
  <2>2. QED BY <2>1 DEF AbsBox, AbsLoaded
<1>3. CASE ~MoveLevel /\ ~LoadTotal
  <2>1. /\ UNCHANGED <<list, cur, level, item>> /\ (HasLeft <=> HasLeft')
        /\ at \in {"l_count", "l_total"} <=> at' \in {"l_count", "l_total"}
    BY <1>3 DEF Store, MoveFirst, MoveUncount, MoveRefill, MoveUnbusy, MoveLink, MoveEnd,
                MoveCount, LoadLink, LoadEnd, LoadCount, At, HasLeft
  <2>2. UNCHANGED old BY <2>1 DEF old
  <2>3. UNCHANGED AbsBox BY <2>1, <2>2 DEF AbsBox, HasLeft
  <2>4. UNCHANGED AbsLoaded BY <2>1 DEF AbsLoaded
  <2>5. QED BY <2>3, <2>4
<1>4. QED BY <1>1, <1>2, <1>3

LEMMA StepIsBoxes ==
    ASSUME MetaInv, [MetaNext]_vars, ~(kills' > 0)
    PROVE  [Boxes!BoxesNext]_(Boxes!boxVars)
<1>1. SUFFICES \/ \E n \in 1 .. Total : Boxes!Load(n)
               \/ \E from, to \in Levels : Boxes!Move(from, to)
               \/ UNCHANGED <<AbsBox, AbsLoaded>>
  BY DEF Boxes!BoxesNext, Boxes!boxVars, Boxes!Levels, Levels
<1>2. Typed /\ Typed' BY StepTyped DEF MetaInv
<1>3. ~Kill /\ ~Interrupt BY <1>2 DEF Kill, Interrupt, Typed, EnvTyped
<1>4. kills' = kills
  BY <1>3 DEF MetaNext, MoveStart, MoveAstray, LinkAstray, LoadStart, Store, MoveFirst,
              MoveUnlink, MoveUncount, MoveRefill, MoveUnbusy, MoveLink, MoveEnd, MoveAppend,
              MoveCount, MoveLevel, LoadLink, LoadEnd, LoadAppend, LoadCount, LoadTotal, Restart,
              vars
<1>5. proc = "up" /\ ~fatal BY <1>4 DEF MetaInv, Typed, ControlOK, EnvTyped
<1>6. ListsFit BY <1>5 DEF MetaInv, UpFits
<1>7. CASE UNCHANGED vars
  <2>1. UNCHANGED <<list, at, item, level, cur>> BY <1>7 DEF vars, file, memory
  <2>2. UNCHANGED old BY <2>1 DEF old
  <2>3. QED BY <2>1, <2>2 DEF AbsBox, AbsLoaded
<1>8. CASE Store
  <2>1. CASE MoveAppend
    <3>1. old \in Levels BY <1>2, <2>1, InMove DEF MoveAppend, At, Moving
    <3>2. new \in Levels BY <1>2 DEF Typed, MemoryTyped
    <3>3. QED BY <1>2, <1>6, <2>1, <3>1, <3>2, AppendIsMove
  <2>2. CASE LoadAppend
    <3>1. 1 \in 1 .. Total
      <4>1. cur \in Nat /\ Total \in Nat /\ todo \in 1 .. Total - cur
        BY <1>2, <2>2, MetaConstants DEF LoadAppend, At, Typed, ControlOK, Loading, FileTyped
      <4>2. QED BY <4>1
    <3>2. QED BY <1>2, <1>6, <2>2, <3>1, AppendIsLoad
  <2>3. CASE MoveUnlink BY <1>2, <1>6, <2>3, UnlinkIsNone
  <2>4. QED BY <1>2, <1>8, <2>1, <2>2, <2>3, OthersAreNone
<1>9. CASE \E n \in 1 .. Total : LoadStart(n)
  <2>1. UNCHANGED <<list, cur>> /\ at = "idle" /\ at' = "l_link" BY <1>9 DEF LoadStart, file
  <2>2. QED BY <2>1 DEF AbsBox, AbsLoaded
<1>10. CASE \E l \in Asked : \E to \in {0, l + 1} : MoveStart(l, to)
  <2>1. UNCHANGED <<list, cur>> /\ at = "idle" /\ at' = "first" BY <1>10 DEF MoveStart, file
  <2>2. QED BY <2>1 DEF AbsBox, AbsLoaded
<1>11. ~Restart BY <1>5 DEF Restart
<1>12. QED
  BY <1>2, <1>3, <1>6, <1>7, <1>8, <1>9, <1>10, <1>11, NotAstray DEF MetaNext

\* Until a process is killed or interrupted, move_to_lbox and cmd_load, store by store,
\* implement the moves and loads of LtBoxes.
THEOREM MetaImplementsBoxes == MetaSpec => ImplementsBoxes
<1>1. MetaInit => Boxes!BoxesInit BY DEF MetaInit, AbsBox, AbsLoaded, Boxes!BoxesInit, Boxes!Levels, Levels
<1>2. MetaInv /\ [MetaNext]_vars => [kills' > 0 \/ [Boxes!BoxesNext]_(Boxes!boxVars)]_vars
  BY StepIsBoxes
<1>3. QED BY <1>1, <1>2, MetaInvariant, PTL DEF MetaSpec, ImplementsBoxes

==============================================================================
