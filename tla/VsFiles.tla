------------------------------- MODULE VsFiles -------------------------------
(***************************************************************************)
(* The files of a vs file's life: the text the user edits at any time, the *)
(* index cmd_mkidx makes of it, which holds the offset of each line with a *)
(* '=', and the meta file, whose boxes name VSes by line number.  A start  *)
(* or "init" puts the three together (ltsys_init, ltsys_meta_init), and    *)
(* nothing in them tells whether they still belong together.  The stores   *)
(* of the meta file are in LtMeta.  Of its kills and interrupts those that *)
(* lose the VS in hand are here; those between the stores of one load, or  *)
(* of one list, which leave a list that names a VS twice, are there alone. *)
(***************************************************************************)
EXTENDS Integers, Sequences, FiniteSets, SequencesExt

CONSTANTS
    Words,      \* the VSes there are to learn
    Comment,    \* a line without '='
    NumBoxes,   \* BOX_LEVEL_CNT
    Limit,      \* vs_limit of box 0
    DefVsNum,   \* DEF_VS_NUM: the entries an index file has room for
    MaxText,    \* bound: lines of the vs file
    MaxKills    \* bound: kills and interrupts that lose the VS in hand

ASSUME VsFilesAssumption ==
    /\ Comment \notin Words
    /\ NumBoxes \in Nat \ {0} /\ Limit \in Nat \ {0} /\ MaxText \in Nat \ {0}
    /\ DefVsNum \in Nat \ {0} /\ MaxKills \in Nat

VARIABLES
    text,       \* the vs file, its lines
    idx,        \* the index file: the offsets of the VSes, or NoIndex
    vs_cur_total, boxes,    \* the meta file
    run,        \* "off", "up", "wild": it has followed a pointer that is none, or "hangs"
    itblk,      \* the items by line number
    home,       \* history: the box the user has each word in
    disturbed,  \* history: the text or the index was changed under the meta file
    kills       \* history: how often the VS in hand was lost

vsVars == <<text, idx, vs_cur_total, boxes, run, itblk, home, disturbed, kills>>

Boxes == 0 .. NumBoxes - 1
NoIndex == <<-1>>
NoBox == -1
Junk == [word |-> Comment, whole |-> FALSE]     \* what malloc left in itblk

------------------------------------------------------------------------------
(* Offsets: a VS is a word of two bytes, a '=' and the rest of its line;    *)
(* a comment is one byte.                                                   *)

SizeOf(line) == IF line \in Words THEN 4 ELSE 1
OffsetOf(k) == (k - 1) + 3 * Cardinality({j \in 1 .. k - 1 : text[j] \in Words})
Bytes == OffsetOf(Len(text) + 1)
VsLines == {k \in DOMAIN text : text[k] \in Words}
Before(k) == Cardinality({j \in VsLines : j < k})
Inserted(k, line) == SubSeq(text, 1, k - 1) \o <<line>> \o SubSeq(text, k, Len(text))

\* The n-th entry is the offset of the n-th line with a '='.
Indexed ==
    [n \in 1 .. Cardinality(VsLines) |->
        OffsetOf(CHOOSE k \in VsLines : Cardinality({j \in VsLines : j <= k}) = n)]

\* An empty text cannot be mapped: the process ends before there is an index.
cmd_mkidx == IF Bytes = 0 THEN idx ELSE Indexed

\* The entries are stored one by one over those of the old index, the count at the end.
Written(j) ==
    [n \in 1 .. IF idx = NoIndex THEN 0 ELSE Len(idx) |-> IF n <= j THEN Indexed[n] ELSE idx[n]]

\* The offsets in the index are still those of the VSes, one by one, and those of
\* all that have been loaded are there.
UpToDate(index) == IsPrefix(index, Indexed) /\ vs_cur_total <= Len(index)

\* What an offset leads to: a line from somewhere on. Behind its '=' it is no VS. At its
\* '=' it is a VS without a word, and replace_str2 looks for "" in its sentence for ever.
Item(offset) ==
    LET k == CHOOSE j \in DOMAIN text :
                 OffsetOf(j) <= offset /\ offset < OffsetOf(j) + SizeOf(text[j])
        into == offset - OffsetOf(k)
    IN  IF text[k] \in Words /\ into < 2
        THEN [word |-> text[k], whole |-> into = 0] ELSE Junk
AtEquals(offset) == \E k \in VsLines : offset = OffsetOf(k) + 2

\* The n-th VS of the text, from 0.
IsVs(n, word) == \E k \in VsLines : text[k] = word /\ Before(k) = n

Held == UNION {Range(boxes[l]) : l \in Boxes}
AnyJunk == \E n \in DOMAIN itblk : itblk[n] = Junk

------------------------------------------------------------------------------
(* The user's editor and rm *)

InsertLine ==
    /\ Len(text) < MaxText
    /\ \E k \in 1 .. Len(text) + 1, line \in (Words \ Range(text)) \cup {Comment} :
        /\ text' = Inserted(k, line)
        /\ disturbed' = (disturbed \/ (line \in Words /\ Before(k) < vs_cur_total))
    /\ UNCHANGED <<idx, vs_cur_total, boxes, run, itblk, home, kills>>

RemoveLine ==
    /\ \E k \in DOMAIN text :
        /\ text' = RemoveAt(text, k)
        /\ disturbed' = (disturbed \/ (text[k] \in Words /\ Before(k) < vs_cur_total))
        /\ home' = [w \in Words |-> IF w = text[k] THEN NoBox ELSE home[w]]
    /\ UNCHANGED <<idx, vs_cur_total, boxes, run, itblk, kills>>

RemoveIndex ==
    /\ idx # NoIndex /\ idx' = NoIndex
    /\ UNCHANGED <<text, vs_cur_total, boxes, run, itblk, home, disturbed, kills>>

------------------------------------------------------------------------------
(* Starts, "init" and ends *)

\* ltsys_meta_init follows every list through itblk.
\* Mutant: the lists are not followed before they are needed.
WalksAnyway(items) == FALSE
WalksOff(items) == \E n \in Held : n \notin DOMAIN items \/ items[n] = Junk

\* The entries that are behind the end of the index file, or lead behind the end of the
\* text, which is read all the same, or to a '='.
Misleading(index) ==
    {n \in DOMAIN index : n > DefVsNum \/ index[n] >= Bytes \/ AtEquals(index[n])}

\* ltsys_init with the index
Built(index) ==
    IF Misleading(index) # {}
    THEN /\ \E n \in Misleading(index) :
                /\ \A m \in Misleading(index) : n <= m
                /\ run' = IF n <= DefVsNum /\ index[n] < Bytes THEN "hangs" ELSE "wild"
         /\ itblk' = << >>
    ELSE \E items \in {[n \in 0 .. Len(index) - 1 |-> Item(index[n + 1])]} :
            IF WalksOff(items) THEN run' = "wild" /\ itblk' = << >>
            ELSE run' = "up" /\ itblk' = items

ltsys_init(index) ==
    IF index = NoIndex \/ Bytes = 0 THEN
        run' = "off" /\ itblk' = << >> /\ UNCHANGED disturbed     \* ERROR
    ELSE Built(index) /\ disturbed' = (disturbed \/ ~UpToDate(index))

\* cmd_mkidx has no end of the index file in mind: it stores behind it.
Overruns ==
    /\ idx' \in {Indexed, Written(DefVsNum)}
    /\ run' = "wild" /\ itblk' = << >> /\ disturbed' = TRUE

\* -b, with -i or without.
Start(i) ==
    /\ run # "up"
    /\ IF i /\ Cardinality(VsLines) > DefVsNum THEN Overruns
       ELSE idx' = (IF i THEN cmd_mkidx ELSE idx) /\ ltsys_init(idx')
    /\ UNCHANGED <<text, vs_cur_total, boxes, home, kills>>

\* A kill inside cmd_mkidx. A file it has created and not yet grown is as good as none.
KillIndexing ==
    /\ run # "up" /\ Bytes # 0
    /\ \E j \in 0 .. Cardinality(VsLines) : j <= DefVsNum /\ idx' = Written(j)
    /\ run' = "off" /\ itblk' = << >>
    /\ UNCHANGED <<text, vs_cur_total, boxes, home, disturbed, kills>>

\* "init" of the vs file the program works with. cmd_mkidx refuses to index it.
\* ltsys_deinit frees what the items point to.
cmd_init ==
    /\ run = "up"
    /\ IF AnyJunk THEN run' = "wild" /\ itblk' = << >> /\ UNCHANGED disturbed
       ELSE ltsys_init(idx)
    /\ UNCHANGED <<text, idx, vs_cur_total, boxes, home, kills>>

Stop ==
    /\ run = "up" /\ run' = "off" /\ itblk' = << >>
    /\ UNCHANGED <<text, idx, vs_cur_total, boxes, home, disturbed, kills>>

------------------------------------------------------------------------------
(* Commands *)

SetHome(items, level) ==
    [w \in Words |-> IF \E n \in items : itblk[n] = [word |-> w, whole |-> TRUE]
                     THEN level ELSE home[w]]

\* Mutant: the room in the box alone bounds a load.
WantedOfBox == 1 .. Limit - Len(boxes[0])

\* vs_total - vs_cur_total is unsigned: when more has been loaded than there is, it is huge.
Wanted ==
    LET total == Cardinality(DOMAIN itblk)
    IN  {n \in 1 .. Limit - Len(boxes[0]) : vs_cur_total <= total => n <= total - vs_cur_total}

\* Mutant: as many as are in the box have been loaded.
LoadedInBox == Len(boxes[0])
Loaded == vs_cur_total

cmd_load ==
    /\ run = "up"
    /\ \E n \in Wanted : \E new \in {Loaded .. Loaded + n - 1} :
        /\ IF \E k \in new : k \notin DOMAIN itblk \/ itblk[k] = Junk
           THEN run' = "wild" /\ itblk' = << >> /\ UNCHANGED <<vs_cur_total, boxes, home>>
           ELSE /\ boxes' = [boxes EXCEPT ![0] = @ \o [k \in 1 .. n |-> Loaded + k - 1]]
                /\ vs_cur_total' = vs_cur_total + n
                /\ home' = SetHome(new, 0)
                /\ UNCHANGED <<run, itblk>>
        /\ disturbed' = (disturbed \/ \E k \in new \cap DOMAIN itblk : ~IsVs(k, itblk[k].word))
    /\ UNCHANGED <<text, idx, kills>>

\* A question of "go": the head of a box goes to the tail of another (LtBoxes).
Move(l, m) ==
    /\ run = "up" /\ l # m /\ boxes[l] # <<>>
    /\ boxes' = [boxes EXCEPT ![l] = Tail(@), ![m] = Append(@, Head(boxes[l]))]
    /\ home' = SetHome({Head(boxes[l])}, m)
    /\ UNCHANGED <<text, idx, vs_cur_total, run, itblk, disturbed, kills>>

\* A kill, or CTRL-C, when the head is out of its box and not yet in the other (LtMeta).
LoseInHand(l) ==
    /\ run = "up" /\ boxes[l] # <<>> /\ kills < MaxKills
    /\ boxes' = [boxes EXCEPT ![l] = Tail(@)]
    /\ home' = SetHome({Head(boxes[l])}, NoBox)
    /\ kills' = kills + 1
    /\ \/ run' = "off" /\ itblk' = << >>
       \/ UNCHANGED <<run, itblk>>
    /\ UNCHANGED <<text, idx, vs_cur_total, disturbed>>

\* "lsbox a" prints every item; a box has none that was not walked over.
cmd_lsbox ==
    /\ run = "up" /\ AnyJunk
    /\ run' = "wild" /\ itblk' = << >>
    /\ UNCHANGED <<text, idx, vs_cur_total, boxes, home, disturbed, kills>>

------------------------------------------------------------------------------
VsInit ==
    /\ text = <<>> /\ idx = NoIndex /\ vs_cur_total = 0 /\ boxes = [l \in Boxes |-> <<>>]
    /\ run = "off" /\ itblk = << >>
    /\ home = [w \in Words |-> NoBox] /\ disturbed = FALSE /\ kills = 0

VsNext ==
    \/ InsertLine \/ RemoveLine \/ RemoveIndex
    \/ Start(TRUE) \/ Start(FALSE) \/ KillIndexing \/ cmd_init \/ Stop
    \/ cmd_load \/ cmd_lsbox
    \/ \E l, m \in Boxes : Move(l, m)
    \/ \E l \in Boxes : LoseInHand(l)

VsSpec == VsInit /\ [][VsNext]_vsVars

------------------------------------------------------------------------------
(* What edits do to what has been learnt *)

\* The program never learns that the text was edited, and need not as long as words are
\* added behind those in the boxes, every start finds an index of the text as it is, and
\* what is loaded stands in the text where it did at the start, whatever happens to
\* comments: every word is in the box the user left it in and in no other, over all starts.
KeepsHome ==
    run = "up" /\ ~disturbed =>
        \A w \in Words, l \in Boxes :
            home[w] = l <=> \E n \in Range(boxes[l]) : itblk[n] = [word |-> w, whole |-> TRUE]

\* Nothing but that, or a text of more VSes than the index file has room for, makes it
\* follow a pointer that is none: a list that leads behind itblk, or an item that was never
\* made because its offset has slipped behind a '='; or look for ever, from a '=' on.
WildOnlyDisturbed == run \in {"wild", "hangs"} => disturbed

\* vs_total - vs_cur_total is unsigned, and huge when the text has become shorter than what
\* has been loaded. Such a program gets to its prompt by nothing but the VSes that were in
\* hand at a kill or an interrupt, which no list leads to any more: it is short of no more
\* than those, and without one it is never.
NeverLoadedPast ==
    /\ Held \subseteq 0 .. vs_cur_total - 1
    /\ Cardinality((0 .. vs_cur_total - 1) \ Held) <= kills
    /\ run = "up" => vs_cur_total - Cardinality(DOMAIN itblk) <= kills

==============================================================================
