------------------------------- MODULE LtMeta -------------------------------
(***************************************************************************)
(* The mapped meta file behind the boxes.  move_to_lbox (src/src/vs.c) and *)
(* cmd_load (src/src/ltsys.c) change it store by store through a MAP_SHARED *)
(* mapping, so a process that is killed leaves the stores it has done, and *)
(* ltsys_meta_init of the next one rebuilds the lists from them: it walks   *)
(* next_inode_linenr from first_inode_linenr, vs_cnt + vs_busy_cnt times.   *)
(* CTRL-C ends a session at any store as well, and leaves the memory too.  *)
(*                                                                         *)
(* Which VS moves where is left open here (LtSession decides it): any head *)
(* of a box the question loop does not find empty.                         *)
(***************************************************************************)
EXTENDS Integers, Sequences, FiniteSets

CONSTANTS MaxLevel, Total,
          Limit,     \* vs_limit of the boxes below the last
          NoMore,    \* NO_MORE_VIS, ends a chain
          NewFirst,  \* NEW_FIRST_INODE_LINENR, first of a new box
          NameWord,  \* the word of fb_name in front of box 0 (see Garbage)
          MaxKills   \* bound: how often the process is killed or interrupted

Levels == 0 .. MaxLevel
Items  == 0 .. Total - 1
Asked  == 0 .. MaxLevel - 1

ASSUME MetaAssumption ==
    /\ MaxLevel \in Nat \ {0} /\ Total \in Nat /\ MaxKills \in Nat
    /\ Limit \in [Asked -> Nat \ {0}]
    /\ NoMore \notin Items /\ NewFirst \notin Items
    /\ NameWord \in Nat

VARIABLES
    \* the meta file
    first,   \* first_inode_linenr of every box
    cnt,     \* vs_cnt of every box (lt_box has a copy, stored with it)
    busy,    \* vs_busy_cnt of every box (likewise)
    next,    \* next_inode_linenr of every VS
    cur,     \* vs_cur_total
    \* the memory of the process
    list,    \* i_list of every box
    level,   \* cur_lb_level of every VS
    at,      \* the next store, "idle" outside of a move and a load
    item,    \* pvi
    new,     \* newlevel
    todo,    \* num_to_load - i
    \* the environment
    proc,    \* "up", "down", or "broken": out of bounds or a list corrupted
    kills,   \* how often it was killed or interrupted
    fatal    \* history: killed inside of KillWindow or interrupted inside of CtrlCWindow

file   == <<first, cnt, busy, next, cur>>
memory == <<list, level, at, item, new, todo>>
vars   == <<file, memory, proc, kills, fatal>>

NoItem == 0

-----------------------------------------------------------------------------
(* Recovery *)

Full(l) == l # MaxLevel /\ ~(cnt[l] < Limit[l])

StoredLen(l) == cnt[l] + busy[l]

\* The walks of ltsys_meta_init over box l that stay inside itblk: one or none.
Walks(l) == {w \in [1 .. StoredLen(l) -> Items] :
                \A j \in DOMAIN w : w[j] = IF j = 1 THEN first[l] ELSE next[w[j - 1]]}
Stored(l) == CHOOSE w \in Walks(l) : TRUE

\* Every walk stays inside itblk, and no VS is put on two lists.
Recoverable ==
    /\ \A l \in Levels : Walks(l) # {}
    /\ \A l, m \in Levels : \A j \in 1 .. StoredLen(l), k \in 1 .. StoredLen(m) :
          Stored(l)[j] = Stored(m)[k] => l = m /\ j = k

\* The lists ltsys_meta_init builds from the file.
Found == [l \in Levels |-> Stored(l)]

HeldIn(lists, l) == {lists[l][j] : j \in 1 .. Len(lists[l])}
Held(lists) == UNION {HeldIn(lists, l) : l \in Levels}

\* A new file; a process killed while it wrote the heads left zeros in the rest.
MetaInit ==
    /\ \E k \in 0 .. MaxLevel + 1 : first = [l \in Levels |-> IF l < k THEN NewFirst ELSE 0]
    /\ cnt = [l \in Levels |-> 0] /\ busy = [l \in Levels |-> 0]
    /\ next = [i \in Items |-> 0] /\ cur = 0
    /\ list = [l \in Levels |-> <<>>] /\ level = [i \in Items |-> 0]
    /\ at = "idle" /\ item = NoItem /\ new = 0 /\ todo = 0
    /\ proc = "up" /\ kills = 0 /\ fatal = FALSE

\* ltsys_init and ltsys_meta_init in a new process.
Restart ==
    /\ proc = "down"
    /\ IF Recoverable
         THEN /\ proc' = "up"
              /\ list' = Found
              /\ level' = [i \in Items |->
                     IF \E l \in Levels : i \in HeldIn(list', l)
                       THEN CHOOSE l \in Levels : i \in HeldIn(list', l) ELSE 0]
         ELSE proc' = "broken" /\ UNCHANGED <<list, level>>
    /\ UNCHANGED <<file, at, item, new, todo, kills, fatal>>

-----------------------------------------------------------------------------
(* move_to_lbox: takes the head of its box to the tail of box `new` *)

old == level[item]

\* container_of(next) when pvi is alone in its box: the word it reads before the
\* list head is vs_cnt of the box before, or a part of fb_name before box 0.
Garbage(l) == IF l = 0 THEN NameWord ELSE cnt[l - 1]

HeadBelongs(l) == list[l] # <<>> /\ level[Head(list[l])] = l

\* Its caller asks for the head of a box whose vs_cnt is not 0.
MoveStart(l, to) ==
    /\ proc = "up" /\ at = "idle"
    /\ cnt[l] # 0
    /\ HeadBelongs(l)
    /\ item' = Head(list[l]) /\ new' = to
    /\ at' = "first"
    /\ UNCHANGED <<file, list, level, todo, proc, kills, fatal>>

\* ... which may be no VS at all, or one that believes to be in another box.
MoveAstray(l) ==
    /\ proc = "up" /\ at = "idle"
    /\ cnt[l] # 0
    /\ ~HeadBelongs(l)
    /\ proc' = "broken"
    /\ UNCHANGED <<file, memory, kills, fatal>>

At(here, there) == proc = "up" /\ at = here /\ at' = there

MoveFirst == /\ At("first", "unlink")
             /\ first' = [first EXCEPT ![old] = IF Len(list[old]) > 1 THEN list[old][2]
                                                                     ELSE Garbage(old)]
             /\ UNCHANGED <<cnt, busy, next, cur, list, level, item, new, todo, proc, kills, fatal>>

MoveUnlink == /\ At("unlink", "uncount")
              /\ list' = [list EXCEPT ![old] = Tail(@)]
              /\ UNCHANGED <<file, level, item, new, todo, proc, kills, fatal>>

MoveUncount == /\ At("uncount", IF busy[old] # 0 THEN "refill" ELSE "link")
               /\ cnt' = [cnt EXCEPT ![old] = @ - 1]
               /\ UNCHANGED <<first, busy, next, cur, list, level, item, new, todo, proc, kills, fatal>>

\* A busy VS of the box takes the place that has become free.
MoveRefill == /\ At("refill", "unbusy")
              /\ cnt' = [cnt EXCEPT ![old] = @ + 1]
              /\ UNCHANGED <<first, busy, next, cur, list, level, item, new, todo, proc, kills, fatal>>

MoveUnbusy == /\ At("unbusy", "link")
              /\ busy' = [busy EXCEPT ![old] = @ - 1]
              /\ UNCHANGED <<first, cnt, next, cur, list, level, item, new, todo, proc, kills, fatal>>

\* Mutant: links to the VS before last.
LinkToHead(l, i) == IF cnt[l] = 0
                      THEN first' = [first EXCEPT ![l] = i] /\ UNCHANGED next
                      ELSE next' = [next EXCEPT ![Head(list[l])] = i] /\ UNCHANGED first

\* Chain i behind the last VS of box l.
LinkTo(l, i) == IF cnt[l] = 0
                  THEN first' = [first EXCEPT ![l] = i] /\ UNCHANGED next
                  ELSE next' = [next EXCEPT ![list[l][Len(list[l])]] = i] /\ UNCHANGED first

\* The last VS of a box that only by its counters has one is none.
HasLast(l) == cnt[l] # 0 => list[l] # <<>>
LinkAstray ==
    /\ proc = "up" /\ at \in {"link", "l_link"} /\ ~HasLast(new)
    /\ proc' = "broken"
    /\ UNCHANGED <<file, memory, kills, fatal>>

MoveLink == /\ At("link", "end") /\ HasLast(new)
            /\ LinkTo(new, item)
            /\ UNCHANGED <<cnt, busy, cur, list, level, item, new, todo, proc, kills, fatal>>

MoveEnd == /\ At("end", "append")
           /\ next' = [next EXCEPT ![item] = NoMore]
           /\ UNCHANGED <<first, cnt, busy, cur, list, level, item, new, todo, proc, kills, fatal>>

\* Mutant: list_add for list_add_tail.
MoveAppendHead ==
    /\ At("append", "count")
    /\ list' = [list EXCEPT ![new] = <<item>> \o @]
    /\ UNCHANGED <<file, level, item, new, todo, proc, kills, fatal>>

MoveAppend == /\ At("append", "count")
              /\ list' = [list EXCEPT ![new] = Append(@, item)]
              /\ UNCHANGED <<file, level, item, new, todo, proc, kills, fatal>>

\* Mutant: counts every newcomer, whether there is room or not.
CountInAlways(l) == cnt' = [cnt EXCEPT ![l] = @ + 1] /\ UNCHANGED busy

\* Mutant: does not count a newcomer that finds no room.
CountInRoomOnly(l) == /\ cnt' = IF Full(l) THEN cnt ELSE [cnt EXCEPT ![l] = @ + 1]
                      /\ UNCHANGED busy

CountIn(l) == IF Full(l) THEN busy' = [busy EXCEPT ![l] = @ + 1] /\ UNCHANGED cnt
                         ELSE cnt' = [cnt EXCEPT ![l] = @ + 1] /\ UNCHANGED busy

\* The last store into the file.
MoveCount == /\ At("count", "level")
             /\ CountIn(new)
             /\ UNCHANGED <<first, next, cur, list, level, item, new, todo, proc, kills, fatal>>

\* cur_lb_level in memory, and msync.
MoveLevel == /\ At("level", "idle")
             /\ level' = [level EXCEPT ![item] = new]
             /\ item' = NoItem /\ new' = 0
             /\ UNCHANGED <<file, list, todo, proc, kills, fatal>>

-----------------------------------------------------------------------------
(* cmd_load: draws n VSes onto the tail of box 0, one after the other *)

\* Mutant: begins with the first VS that is on no list, not at vs_cur_total.
LoadStartAtUnheld(n) ==
    /\ proc = "up" /\ at = "idle"
    /\ n <= Limit[0] - cnt[0] /\ n <= Total - cur
    /\ at' = "l_link" /\ todo' = n
    /\ item' \in {i \in Items \ Held(list) : \A j \in Items \ Held(list) : i <= j}
    /\ UNCHANGED <<file, list, level, new, proc, kills, fatal>>

LoadStart(n) ==
    /\ proc = "up" /\ at = "idle"
    /\ n <= Limit[0] - cnt[0] /\ n <= Total - cur
    /\ at' = "l_link" /\ item' = cur /\ todo' = n
    /\ UNCHANGED <<file, list, level, new, proc, kills, fatal>>

LoadLink == /\ At("l_link", "l_end") /\ HasLast(0)
            /\ LinkTo(0, item)
            /\ UNCHANGED <<cnt, busy, cur, list, level, item, new, todo, proc, kills, fatal>>

LoadEnd == /\ At("l_end", "l_append")
           /\ next' = [next EXCEPT ![item] = NoMore]
           /\ UNCHANGED <<first, cnt, busy, cur, list, level, item, new, todo, proc, kills, fatal>>

\* list_add_tail of a VS that is on a list already ties the list into a knot.
LoadAppend == /\ At("l_append", "l_count")
              /\ IF item \in Held(list)
                   THEN proc' = "broken" /\ UNCHANGED <<list, level>>
                   ELSE /\ list' = [list EXCEPT ![0] = Append(@, item)]
                        /\ level' = [level EXCEPT ![item] = 0]
                        /\ UNCHANGED proc
              /\ UNCHANGED <<file, item, new, todo, kills, fatal>>

LoadCount == /\ At("l_count", "l_total")
             /\ cnt' = [cnt EXCEPT ![0] = @ + 1]
             /\ UNCHANGED <<first, busy, next, cur, list, level, item, new, todo, proc, kills, fatal>>

LoadTotal == /\ At("l_total", IF todo = 1 THEN "idle" ELSE "l_link")
             /\ cur' = cur + 1
             /\ item' = IF todo = 1 THEN NoItem ELSE cur + 1
             /\ todo' = todo - 1
             /\ UNCHANGED <<first, cnt, busy, next, list, level, new, proc, kills, fatal>>

-----------------------------------------------------------------------------
(* Kill and CTRL-C *)

\* Where a kill leaves counters that do not fit the chains: the head of a box
\* has moved on, its counters have not; or a drawn VS is not in the total yet.
KillWindow == at \in {"unlink", "uncount", "refill", "unbusy", "l_total"}

\* The process ends: killed at any store, or by CTRL-D or "exit" at "idle".  Its
\* memory is gone, the stores into the shared mapping stay.
Kill == /\ proc = "up" /\ kills < MaxKills
        /\ proc' = "down" /\ kills' = kills + 1
        /\ fatal' = (fatal \/ KillWindow)
        /\ list' = [l \in Levels |-> <<>>] /\ level' = [i \in Items |-> 0]
        /\ at' = "idle" /\ item' = NoItem /\ new' = 0 /\ todo' = 0
        /\ UNCHANGED file

\* CTRL-C in a session: sigh jumps back into cmd_go, whatever was being stored, and the
\* next command finds the memory as it is. The two copies of a counter and the pointers of
\* one list operation count as one store.
CtrlCWindow == KillWindow \/ at \in {"count", "level", "l_count"}

Interrupt == /\ proc = "up" /\ at # "idle" /\ kills < MaxKills
             /\ kills' = kills + 1
             /\ fatal' = (fatal \/ CtrlCWindow)
             /\ at' = "idle" /\ item' = NoItem /\ new' = 0 /\ todo' = 0
             /\ UNCHANGED <<file, list, level, proc>>

Store == \/ MoveFirst \/ MoveUnlink \/ MoveUncount \/ MoveRefill \/ MoveUnbusy
         \/ MoveLink \/ MoveEnd \/ MoveAppend \/ MoveCount \/ MoveLevel
         \/ LoadLink \/ LoadEnd \/ LoadAppend \/ LoadCount \/ LoadTotal

MetaNext == \/ \E l \in Asked : \/ \E to \in {0, l + 1} : MoveStart(l, to)
                              \/ MoveAstray(l)
            \/ LinkAstray
            \/ \E n \in 1 .. Total : LoadStart(n)
            \/ Store
            \/ Kill \/ Interrupt \/ Restart

MetaSpec == MetaInit /\ [][MetaNext]_vars

-----------------------------------------------------------------------------
MetaTypeOK ==
    /\ first \in [Levels -> Nat \cup {NoMore, NewFirst}]
    /\ cnt \in [Levels -> Nat] /\ busy \in [Levels -> Nat]
    /\ next \in [Items -> Items \cup {NoMore}]
    /\ cur \in 0 .. Total
    /\ list \in [Levels -> Seq(Items)] /\ level \in [Items -> Levels]
    /\ at \in {"idle", "first", "unlink", "uncount", "refill", "unbusy", "link", "end",
               "append", "count", "level", "l_link", "l_end", "l_append", "l_count", "l_total"}
    /\ at # "idle" => item \in Items
    /\ new \in Levels /\ todo \in 0 .. Total
    /\ proc \in {"up", "down", "broken"} /\ kills \in 0 .. MaxKills /\ fatal \in BOOLEAN

\* Between two commands or questions the counters of the meta file describe
\* the lists in memory: their length, the limit, and busy VSs only in a full box; also
\* after a session was interrupted between the stores of a move or a load.
CountsDescribeLists ==
    /\ MetaTypeOK
    /\ proc = "up" /\ at = "idle" /\ ~fatal =>
         \A l \in Levels : /\ Len(list[l]) = cnt[l] + busy[l]
                           /\ l # MaxLevel => cnt[l] <= Limit[l]
                           /\ busy[l] > 0 => Full(l)

InTransit == IF at = "idle" THEN {} ELSE {item}

\* A process killed now, outside of KillWindow, is followed by one that finds every box
\* as it is in memory, but for the VS that a move or a load has in hand and has put at the
\* tail of its list without counting it.
NextFindsTheBoxes == proc = "up" /\ ~fatal /\ ~KillWindow =>
    /\ Recoverable
    /\ \A l \in Levels :
          \/ Stored(l) = list[l]
          \/ at # "idle" /\ list[l] = Append(Stored(l), item)

Touched == IF at = "idle" THEN {} ELSE IF new = level[item] THEN {new} ELSE {level[item], new}

\* The stores of a move or a load never endanger a third box, not even inside
\* of KillWindow: its chain gives its list at every moment.
BystandersIntact == proc = "up" /\ ~fatal =>
    \A l \in Levels \ Touched : Walks(l) = {list[l]}

\* Only a kill inside of KillWindow or CTRL-C inside of CtrlCWindow leads to a walk out
\* of itblk, to a VS on two lists or drawn twice, to a question about no VS or to one
\* that is in another box than it believes.
BreaksOnlyInWindow == proc = "broken" => fatal

\* The three together: what a kill can do to the chains, and when.
HurtsOnlyInWindow == NextFindsTheBoxes /\ BystandersIntact /\ BreaksOnlyInWindow

Unloaded == cur .. Total - 1

\* The loaded VSes that are on no list.
Lost == (Items \ Unloaded) \ (Held(list) \cup InTransit)

\* A kill or CTRL-C costs one VS at most, the one in hand.
LostOnePerKill == proc = "up" /\ ~fatal => Cardinality(Lost) <= kills

\* The loaded VSes that are in reach of nobody: on no list while a process is up, in no
\* chain of the file while none is.
OutOfReach == IF proc = "up" THEN Lost ELSE (Items \ Unloaded) \ Held(Found)

\* What a kill or CTRL-C has cost stays lost, in the same process, over further kills and in
\* every later process: ltsys_meta_init finds no VS again that was on no list, and cmd_load
\* goes on behind it.
LostForGood ==
    [][proc # "broken" /\ proc' # "broken" /\ ~fatal' => OutOfReach \subseteq OutOfReach']_vars

-----------------------------------------------------------------------------
(* Without kills the stores implement LtBoxes: a move happens when its VS   *)
(* gets onto the new list, a load of one VS likewise.                       *)

AbsBox == IF at \in {"uncount", "refill", "unbusy", "link", "end", "append"}
            THEN [list EXCEPT ![old] = <<item>> \o @] ELSE list
AbsLoaded == IF at \in {"l_count", "l_total"} THEN cur + 1 ELSE cur

Boxes == INSTANCE LtBoxes WITH box <- AbsBox, loaded <- AbsLoaded

\* Until a process is killed or interrupted, move_to_lbox and cmd_load, store by store, implement
\* the moves and loads of LtBoxes.
ImplementsBoxes == /\ Boxes!BoxesInit
                   /\ [][kills' > 0 \/ [Boxes!BoxesNext]_(Boxes!boxVars)]_vars
=============================================================================
