-------------------------------- MODULE Idr --------------------------------
(***************************************************************************)
(* idr.c: a radix tree from ids to pointers (idr), and the allocator of    *)
(* bare ids made from it (ida), whose leaves point to bitmaps.  A layer has *)
(* Size entries and a bit for each: "a zero bit means space here".         *)
(*                                                                         *)
(* A layer is known by its place <<l, i>>: the i-th of the layers at height *)
(* l, so its entry n is the place <<l - 1, i * Size + n>>, and an entry of  *)
(* a leaf is the slot of an id.  A pointer to a layer is that place; it is  *)
(* not NULL when there is a layer.                                         *)
(***************************************************************************)
EXTENDS Integers, FiniteSets, Sequences, Functions, TLC

CONSTANTS
    Bits,      \* IDR_BITS
    MaxShift,  \* MAX_IDR_SHIFT, the bits of an int without its sign
    Chunk,     \* IDA_BITMAP_BITS
    Ptrs,      \* the pointers of the program, one of them may be Null
    Null,      \* NULL
    Ranges,    \* the <<start, end>> the program asks for
    CyclicRanges, \* those it asks idr_alloc_cyclic for
    Strangers, \* ids it removes and replaces without having them
    Kept,      \* sets of ids it has from the start on and leaves alone
    MaxLive,   \* bound: ids it has besides
    MaxLost    \* bound: trees of MaxLevel layers it destroys

Size     == 2 ^ Bits
MaxLevel == (MaxShift + Bits - 1) \div Bits      \* MAX_IDR_LEVEL
MaxBit   == 2 ^ MaxShift                         \* MAX_IDR_BIT
Ids      == 0 .. MaxBit - 1

MaxFree == MaxLevel * 2                          \* MAX_IDR_FREE

\* The final layer is incomplete, as it is for 31 bits in steps of 8.
ASSUME IdrAssumption ==
    /\ Bits \in Nat \ {0} /\ MaxShift \in Nat /\ MaxShift % Bits # 0
    /\ Chunk \in Nat \ {0} /\ MaxLive \in Nat /\ MaxLost \in Nat
    /\ Ranges \cup CyclicRanges \subseteq Ids \X Ids
    /\ Strangers \subseteq Ids /\ Kept \subseteq SUBSET Ids

VARIABLES
    owner,       \* "idr" or "ida", what the tree is a part of
    idr,         \* struct idr
    free_bitmap, \* of struct ida: there is a spare bitmap
    held,        \* from the ids the program has, by the answers it got, to its pointers
    kept,        \* the ids of Kept
    wasted,      \* history: an allocation was refused since the tree was empty
    lost         \* history: trees of MaxLevel layers that were destroyed

vars == <<owner, idr, free_bitmap, held, kept, wasted, lost>>

EAGAIN == -11
ENOMEM == -12
EINVAL == -22
ENOSPC == -28

NoLayer == <<-1, 0>>

\* struct idr, with id_free for id_free_cnt, and the layers it has taken from
\* idr_layer_cache; slot is what the leaves point to.
idr_init == [top |-> NoLayer, layers |-> 0, layer |-> <<>>, slot |-> [id \in Ids |-> Null],
             hint |-> NoLayer, cur |-> 0, id_free |-> 0, taken |-> 0]

-----------------------------------------------------------------------------
(* Numbers *)

\* A sum that does not fit into an int becomes negative.
Int32(x) == IF x >= MaxBit THEN x - 2 * MaxBit ELSE x

SmallerOf(a, b) == IF a < b THEN a ELSE b
LargerOf(a, b)  == IF a < b THEN b ELSE a
Least(s) == CHOOSE x \in s : \A y \in s : x <= y

idr_max(layers) == 2 ^ SmallerOf(layers * Bits, MaxShift) - 1

Above(id, l) == id \div Size ^ l                 \* id >> (IDR_BITS * l)
Digit(id, l) == Above(id, l) % Size

\* fls(a ^ b): the highest bit in which a and b differ, from 1 on.
fls(a, b) == Cardinality({k \in 0 .. MaxShift : a \div 2 ^ k # b \div 2 ^ k})

\* The height in layers at which a and b part: n is raised to it in steps.
PartAt(a, b) == (fls(a, b) + Bits - 1) \div Bits

-----------------------------------------------------------------------------
(* Layers *)

NewLayer(prefix) == [count |-> 0, bitmap |-> {}, prefix |-> prefix]
IsFull(t, p) == Cardinality(t.layer[p].bitmap) = Size

\* An idr takes its layers from the cache, an ida from its free list.
CanTake(t, own) == own => t.id_free > 0
TakeLayer(t, own, p, layer) ==
    LET u == [t EXCEPT !.layer = @ @@ (p :> layer)]
    IN  IF own THEN [u EXCEPT !.id_free = @ - 1] ELSE [u EXCEPT !.taken = @ + 1]

\* free_layer of the layers ps, which nothing points to any more.
FreeLayers(t, ps) ==
    [t EXCEPT !.layer = Restrict(@, DOMAIN @ \ ps), !.taken = @ - Cardinality(ps),
              !.hint = IF @ \in ps THEN NoLayer ELSE @]

\* The layers on the way from the top to the slot of id, the missing ones too.
Path(t, id) == {<<l, Above(id, l + 1)>> : l \in 0 .. t.top[1]}
Reaches(t, id) == t.top # NoLayer /\ Path(t, id) \subseteq DOMAIN t.layer
Leaf(id) == <<0, Above(id, 1)>>

-----------------------------------------------------------------------------
(* Finding an empty slot *)

\* The loop of sub_alloc in layer p of height l; v is its value when it has ended.
Running == -1
Search(t, id, l, p, pa) == [v |-> Running, t |-> t, id |-> id, l |-> l, p |-> p, pa |-> pa]
Ended(s, v, id) == [s EXCEPT !.v = v, !.id = id]

FromTop(t, id, pa) == Search(t, id, t.layers - 1, t.top, pa)

\* Mutant: never starts from the top again.
GoUpOnly(s) ==
    LET next == Int32((Above(s.id, s.l + 1) + 1) * Size ^ (s.l + 1))
    IN  IF next > idr_max(s.t.layers) THEN Ended(s, EAGAIN, next)
        ELSE Search(s.t, next, s.l + 1, s.pa[s.l + 1], s.pa)

\* No space in this layer from the entry of id on: go to the next id behind it, one
\* layer up, or from the top when that one is not above the id.
GoUp(s) ==
    LET next == Int32((Above(s.id, s.l + 1) + 1) * Size ^ (s.l + 1))
    IN  IF next > idr_max(s.t.layers) THEN Ended(s, EAGAIN, next)
        ELSE IF Above(s.id, s.l + 2) = Above(next, s.l + 2)
               THEN Search(s.t, next, s.l + 1, s.pa[s.l + 1], s.pa)
               ELSE FromTop(s.t, next, s.pa)

\* The layer below entry m, made when it is missing.
GoDown(s, own, id, m) ==
    LET child == <<s.l - 1, s.p[2] * Size + m>>
        made  == [TakeLayer(s.t, own, child, NewLayer(Above(id, s.l) * Size ^ s.l))
                     EXCEPT !.layer[s.p].count = @ + 1]
        trees == IF child \in DOMAIN s.t.layer THEN {s.t} ELSE IF CanTake(s.t, own) THEN {made} ELSE {}
    IN  IF trees = {} THEN Ended(s, ENOMEM, id)
        ELSE Search(CHOOSE t \in trees : TRUE, id, s.l - 1, child, [s.pa EXCEPT ![s.l] = s.p])

SearchOn(s, own) ==
    LET n     == Digit(s.id, s.l)
        zeros == {m \in n .. Size - 1 : m \notin s.t.layer[s.p].bitmap}
        m     == Least(zeros)
        at    == IF m = n THEN s.id ELSE (Above(s.id, s.l + 1) * Size + m) * Size ^ s.l
    IN  IF zeros = {} THEN GoUp(s)
        ELSE IF at >= MaxBit \/ at < 0 THEN Ended(s, ENOSPC, at)
        ELSE IF s.l = 0 THEN Ended([s EXCEPT !.pa[0] = s.p], at, at)
        ELSE GoDown(s, own, at, m)

RECURSIVE Searched(_, _)
Searched(s, own) == IF s.v # Running THEN s ELSE Searched(SearchOn(s, own), own)

sub_alloc(t, own, id) == Searched(FromTop(t, id, [l \in 0 .. MaxLevel |-> NoLayer]), own)

\* Mutant: does not hand the full bit up to a new top.
OnTopUnmarked(t, own, id) ==
    LET p == <<t.layers, 0>>
        layer == [count |-> 1, bitmap |-> {}, prefix |-> Above(id, t.layers + 1) * Size ^ (t.layers + 1)]
    IN  [TakeLayer(t, own, p, layer) EXCEPT !.top = p, !.layers = @ + 1]

\* A layer on top of the tree.
OnTop(t, own, id) ==
    LET p == <<t.layers, 0>>
        layer == [count |-> 1, bitmap |-> IF IsFull(t, t.top) THEN {0} ELSE {},
                  prefix |-> Above(id, t.layers + 1) * Size ^ (t.layers + 1)]
    IN  [TakeLayer(t, own, p, layer) EXCEPT !.top = p, !.layers = @ + 1]

\* An empty top is moved upwards instead.
Raised(t) ==
    LET p == <<t.top[1] + 1, 0>>
    IN  [t EXCEPT !.top = p, !.layers = @ + 1, !.layer = (p :> t.layer[t.top])]

\* Layers on top until id fits; without enough of them the tree stays as it was.
RECURSIVE Grown(_, _, _)
Grown(t, own, id) ==
    LET trees == IF t.layer[t.top].count = 0 THEN {Raised(t)}
                 ELSE IF CanTake(t, own) THEN {OnTop(t, own, id)} ELSE {}
    IN  IF id <= idr_max(t.layers) THEN {t} ELSE UNION {Grown(u, own, id) : u \in trees}

Rooted(t, own) ==
    IF t.top # NoLayer THEN {t}
    ELSE IF CanTake(t, own)
           THEN {[TakeLayer(t, own, <<0, 0>>, NewLayer(0)) EXCEPT !.top = <<0, 0>>, !.layers = 1]}
           ELSE {}

\* One of trees is searched; without one there was no memory.
BuiltUp(trees, own, r) ==
    IF trees = {} THEN [r EXCEPT !.v = ENOMEM]
    ELSE sub_alloc(CHOOSE t \in trees : TRUE, own, r.id)

RECURSIVE EmptySlot(_, _)
EmptySlot(r, own) ==
    IF r.v # EAGAIN THEN r
    ELSE EmptySlot(BuiltUp(UNION {Grown(u, own, r.id) : u \in Rooted(r.t, own)}, own, r), own)

\* Again with a taller tree as long as there is nothing in this one.
idr_get_empty_slot(t, own, id) == EmptySlot([v |-> EAGAIN, t |-> t, id |-> id], own)

\* A layer that becomes full is marked in the one above.
RECURSIVE idr_mark_full(_, _, _, _)
idr_mark_full(t, pa, id, l) ==
    LET u == [t EXCEPT !.layer[pa[l]].bitmap = @ \cup {Digit(id, l)}]
    IN  IF IsFull(u, pa[l]) /\ pa[l + 1] # NoLayer THEN idr_mark_full(u, pa, id, l + 1) ELSE u

\* pa[0]->ary[id & IDR_MASK]
SlotIn(pa, id) == pa[0][2] * Size + (id % Size)

idr_fill_slot(t, ptr, id, pa) ==
    idr_mark_full([t EXCEPT !.hint = pa[0], !.slot[SlotIn(pa, id)] = ptr,
                            !.layer[pa[0]].count = @ + 1], pa, id, 0)

-----------------------------------------------------------------------------
(* The operations on an idr; each gives its value v and the tree t *)

FilledUpTo(max, ptr, r) ==
    IF r.v < 0 THEN [v |-> r.v, t |-> r.t]
    ELSE IF r.v > max THEN [v |-> ENOSPC, t |-> r.t]
    ELSE [v |-> r.v, t |-> idr_fill_slot(r.t, ptr, r.v, r.pa)]

idr_alloc(t, ptr, start, end) ==
    LET max == IF end > 0 THEN end - 1 ELSE MaxBit - 1
    IN  IF start < 0 THEN [v |-> EINVAL, t |-> t]
        ELSE IF max < start THEN [v |-> ENOSPC, t |-> t]
        ELSE FilledUpTo(max, ptr, idr_get_empty_slot(t, FALSE, start))

WithCur(r) == IF r.v >= 0 THEN [r EXCEPT !.t.cur = Int32(r.v + 1)] ELSE r

Anew(r, ptr, start, end) == IF r.v = ENOSPC THEN idr_alloc(r.t, ptr, start, end) ELSE r

idr_alloc_cyclic(t, ptr, start, end) ==
    WithCur(Anew(idr_alloc(t, ptr, LargerOf(start, t.cur), end), ptr, start, end))

\* Below here there is space: the bits of the layers above the leaf are cleared.
ClearAbove(t, id) ==
    [t EXCEPT !.layer = [p \in DOMAIN @ |->
        IF p \in Path(t, id) /\ p[1] > 0
          THEN [@[p] EXCEPT !.bitmap = @ \ {Digit(id, p[1])}] ELSE @[p]]]

\* The heights of the layers that become empty with the slot of id.
Emptied(t, id) == {l \in 0 .. t.top[1] : \A k \in 0 .. l : t.layer[<<k, Above(id, k + 1)>>].count = 1}

sub_remove(t, id) ==
    LET u     == ClearAbove(t, id)
        freed == Emptied(u, id)
        stop  == Cardinality(freed)
        v     == FreeLayers([u EXCEPT !.slot[id] = Null,
                                      !.layer[Leaf(id)].bitmap = @ \ {id % Size}],
                            {<<l, Above(id, l + 1)>> : l \in freed})
    IN  IF ~Reaches(t, id) \/ id % Size \notin t.layer[Leaf(id)].bitmap THEN u
        ELSE IF stop > t.top[1] THEN [v EXCEPT !.top = NoLayer, !.layers = 0]
        ELSE [v EXCEPT !.layer[<<stop, Above(id, stop + 1)>>].count = @ - 1]

\* A top with nothing but its first entry is taken off.
Shrunk(t) ==
    LET left == <<t.top[1] - 1, 0>>
    IN  IF t.layers > 1 /\ t.layer[t.top].count = 1 /\ left \in DOMAIN t.layer
          THEN [FreeLayers(t, {t.top}) EXCEPT !.top = left, !.layers = @ - 1]
          ELSE t

idr_remove(t, id) == IF id < 0 \/ id > idr_max(t.layers) THEN t ELSE Shrunk(sub_remove(t, id))

idr_replace(t, ptr, id) ==
    IF id > idr_max(t.top[1] + 1) \/ ~Reaches(t, id) \/ id % Size \notin t.layer[Leaf(id)].bitmap
      THEN t ELSE [t EXCEPT !.slot[id] = ptr]

idr_find_slowpath(t, id) ==
    IF t.top = NoLayer \/ id > idr_max(t.top[1] + 1) \/ ~Reaches(t, id) THEN Null ELSE t.slot[id]

\* The last leaf allocated from is looked at first.
idr_find(t, id) ==
    IF t.hint # NoLayer /\ (t.hint \in DOMAIN t.layer => id - (id % Size) = t.layer[t.hint].prefix)
      THEN IF t.hint \in DOMAIN t.layer THEN t.slot[t.hint[2] * Size + (id % Size)] ELSE "freed"
      ELSE idr_find_slowpath(t, id)

-----------------------------------------------------------------------------
(* The walks: n is k layers, pa[k] the place at that height, NULL as NoLayer; *)
(* at height 0 it is a slot, <<-1, id>> with a pointer in it.                *)

Below(t, p, n) ==
    LET c == <<p[1] - 1, p[2] * Size + n>>
    IN  IF p[1] > 0 THEN IF c \in DOMAIN t.layer THEN c ELSE <<>>
        ELSE IF t.slot[c[2]] # Null THEN c ELSE <<>>

\* From height k down to bottom, as long as there is something.
RECURSIVE Down(_, _, _, _, _)
Down(t, id, k, pa, bottom) ==
    IF k > bottom /\ pa[k] # <<>>
      THEN Down(t, id, k - 1, [pa EXCEPT ![k - 1] = Below(t, pa[k], Digit(id, k - 1))], bottom)
      ELSE [k |-> k, pa |-> pa]

StartWalk(t) == [k \in 0 .. MaxLevel |-> IF k = t.layers /\ k > 0 THEN t.top ELSE <<>>]

\* The ids idr_for_each calls fn for, in its order.
RECURSIVE Visited(_, _, _, _)
Visited(t, id, k, pa) ==
    IF id < 0 \/ id > idr_max(t.layers) THEN <<>>
    ELSE LET d    == Down(t, id, k, pa, 0)
             next == Int32(id + Size ^ d.k)
         IN  (IF d.pa[d.k] # <<>> THEN <<id>> ELSE <<>>)
                \o Visited(t, next, LargerOf(d.k, PartAt(next, 0)), d.pa)
idr_for_each(t) == Visited(t, 0, t.layers, StartWalk(t))

\* Mutant: adds the size of the layer without aligning.
NextStartUnaligned(id, k) == Int32(id + Size ^ k)

\* round_up(id + 1, 1 << n)
NextStart(id, k) == Int32(Above(id, k) * Size ^ k + Size ^ k)

RECURSIVE NextFrom(_, _, _, _)
NextFrom(t, id, k, pa) ==
    IF id < 0 \/ id > idr_max(t.top[1] + 1) THEN {}
    ELSE LET d    == Down(t, id, k, pa, 0)
             next == NextStart(id, d.k)
         IN  IF d.pa[d.k] # <<>> THEN {id}
             ELSE NextFrom(t, next, LargerOf(d.k, PartAt(next, 0)), d.pa)
idr_get_next(t, id) == IF t.top = NoLayer THEN {} ELSE NextFrom(t, id, t.layers, StartWalk(t))

\* How many layers __idr_remove_all gives back: those it leaves on its way up.
RECURSIVE FreedFrom(_, _, _, _)
FreedFrom(t, id, k, pa) ==
    IF id < 0 \/ id > idr_max(t.layers) THEN 0
    ELSE LET d    == Down(t, id, k, pa, 1)
             next == Int32(id + Size ^ d.k)
             up   == LargerOf(d.k, PartAt(next, id))
             left == {j \in d.k .. SmallerOf(up - 1, MaxLevel) : d.pa[j] # <<>>}
         IN  Cardinality(left) + FreedFrom(t, next, up, d.pa)

idr_destroy(t) ==
    [idr_init EXCEPT !.cur = t.cur,
        !.taken = t.taken - FreedFrom(t, 0, t.layers, StartWalk(t)) - t.id_free]

-----------------------------------------------------------------------------
(* The operations on an ida: a has the tree idr and free_bitmap; a slot of   *)
(* the tree has the bits set in its bitmap, as many as nr_busy.              *)

ida_pre_get(a) ==
    LET more == LargerOf(MaxFree - a.idr.id_free, 0)
    IN  [idr |-> [a.idr EXCEPT !.id_free = @ + more, !.taken = @ + more], free_bitmap |-> TRUE]

\* A layer that was reserved and not needed is given back after each allocation.
OneThrownAway(t) ==
    IF t.id_free > 0 THEN [t EXCEPT !.id_free = @ - 1, !.taken = @ - 1] ELSE t

OffsetIn(found, chunk, offset) == IF found = chunk THEN offset ELSE 0

\* The search goes on in the chunk from offset on; v is the value when it has ended.
Getting(a, chunk, offset) ==
    [v |-> Running, idr |-> a.idr, free_bitmap |-> a.free_bitmap, chunk |-> chunk, offset |-> offset]
GotNone(g, v, t) == [g EXCEPT !.v = v, !.idr = t]

\* A slot without a bitmap gets the spare one.
WithBitmap(g, r) ==
    LET slot == SlotIn(r.pa, r.v)
        t    == [r.t EXCEPT !.slot[slot] = {}, !.layer[r.pa[0]].count = @ + 1]
    IN  [g EXCEPT !.chunk = r.v, !.offset = OffsetIn(r.v, g.chunk, g.offset),
                  !.idr = IF r.t.slot[slot] = Null THEN t ELSE r.t,
                  !.free_bitmap = @ /\ r.t.slot[slot] # Null]

\* The first bit from offset on, or on with the next chunk.
GetBit(g, pa, slot, zeros) ==
    LET busy == [g.idr EXCEPT !.slot[slot] = @ \cup {Least(zeros)}]
        full == Cardinality(busy.slot[slot]) = Chunk
        id   == g.chunk * Chunk + Least(zeros)
    IN  IF zeros = {} THEN Getting(g, g.chunk + 1, 0)
        ELSE IF id >= MaxBit THEN GotNone(g, ENOSPC, g.idr)
        ELSE [g EXCEPT !.v = id,
                 !.idr = OneThrownAway(IF full THEN idr_mark_full(busy, pa, g.chunk, 0) ELSE busy)]

GetIn(g, pa, slot) == GetBit(g, pa, slot, (g.offset .. Chunk - 1) \ g.idr.slot[slot])

GetFrom(g, r) ==
    IF r.v < 0 THEN GotNone(g, IF r.v = ENOMEM THEN EAGAIN ELSE r.v, r.t)
    ELSE IF r.v * Chunk >= MaxBit THEN GotNone(g, ENOSPC, r.t)
    ELSE IF r.t.slot[SlotIn(r.pa, r.v)] = Null /\ ~g.free_bitmap THEN GotNone(g, EAGAIN, r.t)
    ELSE GetIn(WithBitmap(g, r), r.pa, SlotIn(r.pa, r.v))

RECURSIVE Got(_)
Got(g) == IF g.v # Running THEN g ELSE Got(GetFrom(g, idr_get_empty_slot(g.idr, TRUE, g.chunk)))

ida_get_new_above(a, start) == Got(Getting(a, start \div Chunk, start % Chunk))

\* Bits on the way are cleared before it is known whether id is in use.
ida_remove(a, id) ==
    LET slot == id \div Chunk
        u == ClearAbove(a.idr, slot)
        v == [u EXCEPT !.layer[Leaf(slot)].bitmap = @ \ {slot % Size}]
        w == [v EXCEPT !.slot[slot] = @ \ {id % Chunk}]
        last == [w EXCEPT !.layer[Leaf(slot)].bitmap = @ \cup {slot % Size}]
    IN  IF slot > idr_max(a.idr.layers) THEN a
        ELSE IF ~Reaches(a.idr, slot) THEN [a EXCEPT !.idr = u]
        ELSE IF u.slot[slot] = Null THEN [a EXCEPT !.idr = v]
        ELSE IF id % Chunk \notin u.slot[slot] THEN [a EXCEPT !.idr = v]
        ELSE IF w.slot[slot] = {} THEN [idr |-> idr_remove(last, slot), free_bitmap |-> TRUE]
        ELSE [a EXCEPT !.idr = w]

IdaUpTo(max, r) ==
    LET u == ida_remove([idr |-> r.idr, free_bitmap |-> r.free_bitmap], r.v)
    IN  IF r.v > max THEN [v |-> ENOSPC, idr |-> u.idr, free_bitmap |-> u.free_bitmap] ELSE r

\* With more memory again, until it is not memory that is missing.
RECURSIVE SimpleGet(_, _)
SimpleGet(r, start) ==
    IF r.v # EAGAIN THEN r ELSE SimpleGet(ida_get_new_above(ida_pre_get(r), start), start)

ida_simple_get(a, start, end) ==
    IdaUpTo(IF end = 0 THEN MaxBit ELSE end - 1,
            SimpleGet([v |-> EAGAIN, idr |-> a.idr, free_bitmap |-> a.free_bitmap], start))

-----------------------------------------------------------------------------
(* The program *)

ida == [idr |-> idr, free_bitmap |-> free_bitmap]

Ready == kept \subseteq DOMAIN held
MayTake == Ready /\ Cardinality(DOMAIN held \ kept) < MaxLive

IdrInit == /\ owner \in {"idr", "ida"} /\ kept \in Kept /\ held = <<>>
           /\ idr = idr_init /\ free_bitmap = FALSE /\ wasted = FALSE /\ lost = 0

Having(id, ptr) == [i \in DOMAIN held \cup {id} |-> IF i = id THEN ptr ELSE held[i]]

\* The answer of an allocation is an id, or an error and nothing is held.
Answered(r, ptr) == held' = IF r.v >= 0 THEN Having(r.v, ptr) ELSE held

Becomes(t, refused) ==
    /\ idr' = t
    /\ wasted' = ((wasted \/ refused) /\ t.top # NoLayer)
    /\ UNCHANGED <<owner, kept, lost>>
BecomesIda(a, refused) == Becomes(a.idr, refused) /\ free_bitmap' = a.free_bitmap

\* The ids the program keeps are allocated first, one after the other.
Fill == /\ ~Ready
        /\ LET id == Least(kept \ DOMAIN held)
           IN  IF owner = "ida"
                 THEN \E r \in {ida_simple_get(ida, id, id + 1)} :
                        BecomesIda(r, FALSE) /\ Answered(r, Null)
                 ELSE \E ptr \in Ptrs \ {Null} :
                        \E r \in {idr_alloc(idr, ptr, id, id + 1)} :
                          Becomes(r.t, FALSE) /\ Answered(r, ptr) /\ UNCHANGED free_bitmap

IdrAlloc(range, ptr) ==
    /\ owner = "idr" /\ MayTake
    /\ \E r \in {idr_alloc(idr, ptr, range[1], range[2])} :
         Becomes(r.t, r.v < 0) /\ Answered(r, ptr)
    /\ UNCHANGED free_bitmap

IdrAllocCyclic(range, ptr) ==
    /\ owner = "idr" /\ MayTake
    /\ \E r \in {idr_alloc_cyclic(idr, ptr, range[1], range[2])} :
         Becomes(r.t, r.v < 0) /\ Answered(r, ptr)
    /\ UNCHANGED free_bitmap

IdrRemove(id) == /\ owner = "idr" /\ Ready /\ id \notin kept
                 /\ Becomes(idr_remove(idr, id), FALSE)
                 /\ held' = Restrict(held, DOMAIN held \ {id})
                 /\ UNCHANGED free_bitmap

IdrReplace(id, ptr) == /\ owner = "idr" /\ Ready /\ id \notin kept
                       /\ Becomes(idr_replace(idr, ptr, id), FALSE)
                       /\ held' = IF id \in DOMAIN held THEN Having(id, ptr) ELSE held
                       /\ UNCHANGED free_bitmap

IdaPreGet == owner = "ida" /\ Ready /\ BecomesIda(ida_pre_get(ida), FALSE) /\ UNCHANGED held

IdaGetNewAbove(start) ==
    /\ owner = "ida" /\ MayTake
    /\ \E r \in {ida_get_new_above(ida, start)} : BecomesIda(r, r.v < 0) /\ Answered(r, Null)

IdaSimpleGet(range) ==
    /\ owner = "ida" /\ MayTake
    /\ \E r \in {ida_simple_get(ida, range[1], range[2])} :
         BecomesIda(r, FALSE) /\ Answered(r, Null)

IdaRemove(id) == /\ owner = "ida" /\ Ready /\ id \notin kept
                 /\ BecomesIda(ida_remove(ida, id), FALSE)
                 /\ held' = Restrict(held, DOMAIN held \ {id})

\* idr_destroy, or ida_destroy, with whatever ids there are, and init.
Destroy == /\ Ready
           /\ lost' = lost + (IF idr.layers = MaxLevel THEN 1 ELSE 0) /\ lost' <= MaxLost
           /\ idr' = idr_destroy(idr) /\ free_bitmap' = FALSE /\ wasted' = FALSE
           /\ held' = <<>> /\ kept' = {} /\ UNCHANGED owner

IdrNext ==
    \/ Fill \/ Destroy
    \/ \E range \in Ranges, ptr \in Ptrs : IdrAlloc(range, ptr)
    \/ \E range \in CyclicRanges, ptr \in Ptrs : IdrAllocCyclic(range, ptr)
    \/ \E id \in DOMAIN held \cup Strangers : IdrRemove(id)
    \/ \E id \in DOMAIN held \cup Strangers, ptr \in Ptrs : IdrReplace(id, ptr)
    \/ IdaPreGet
    \/ \E range \in Ranges : IdaGetNewAbove(range[1]) \/ IdaSimpleGet(range)
    \/ \E id \in DOMAIN held \cup Strangers : IdaRemove(id)

IdrSpec == IdrInit /\ [][IdrNext]_vars

-----------------------------------------------------------------------------
(* Properties *)

\* Every variable has its type.
IdrTypeOK ==
    /\ owner \in {"idr", "ida"} /\ kept \in Kept \cup {{}}
    /\ DOMAIN held \subseteq Ids /\ \A id \in DOMAIN held : held[id] \in Ptrs \cup {Null}
    /\ free_bitmap \in BOOLEAN /\ wasted \in BOOLEAN /\ lost \in 0 .. MaxLost
    /\ idr.layers \in 0 .. MaxLevel /\ idr.cur \in -MaxBit .. MaxBit - 1
    /\ idr.id_free \in 0 .. MaxFree /\ idr.taken \in Nat
    /\ DOMAIN idr.layer \subseteq (0 .. MaxLevel - 1) \X Ids
    /\ \A p \in DOMAIN idr.layer :
          idr.layer[p].count \in 0 .. Size /\ idr.layer[p].bitmap \subseteq 0 .. Size - 1
    /\ idr.hint \in DOMAIN idr.layer \cup {NoLayer}

LeastIn(from, to) ==
    LET free == (from .. to) \ DOMAIN held IN IF free = {} THEN ENOSPC ELSE Least(free)
RangeMax(range) == IF range[2] = 0 THEN MaxBit - 1 ELSE range[2] - 1

\* "Allocate an id in [start, end)": the least that the program does not have, and -ENOSPC
\* only when there is none, whatever shape earlier calls have left the tree in.
\* idr_alloc_cyclic prefers the ids from cur on, and only then "starts again at the start
\* end of the range": also when cur is past the range or has wrapped.
AllocatesLeast ==
    /\ \A range \in Ranges :
          LeastIn(range[1], RangeMax(range)) =
              IF owner = "ida" THEN ida_simple_get(ida, range[1], range[2]).v
              ELSE idr_alloc(idr, Null, range[1], range[2]).v
    /\ owner = "idr" => \A range \in CyclicRanges :
          LET ahead == LeastIn(LargerOf(range[1], idr.cur), RangeMax(range))
          IN  idr_alloc_cyclic(idr, Null, range[1], range[2]).v =
                  IF ahead # ENOSPC THEN ahead ELSE LeastIn(range[1], RangeMax(range))

\* idr_find gives the pointer of an id the program has and NULL for any other, by way of
\* the hint too, which never leads into a layer that was given back; the bitmaps of an ida
\* have the bits of the ids the program has. A call that is refused or about an id the
\* program does not have changes none of them.
LooksUp ==
    IF owner = "idr"
      THEN \A id \in Ids : idr_find(idr, id) = IF id \in DOMAIN held THEN held[id] ELSE Null
      ELSE \A slot \in Ids :
             LET bits == {bit \in 0 .. Chunk - 1 : slot * Chunk + bit \in DOMAIN held}
             IN  bits = IF Reaches(idr, slot) /\ idr.slot[slot] # Null THEN idr.slot[slot] ELSE {}

LeastFrom(s, from) == {id \in s : id >= from /\ \A other \in s : other >= from => id <= other}

\* The ids of s, in order.
Ascending(s) == [k \in 1 .. Cardinality(s) |->
                    CHOOSE id \in s : Cardinality({other \in s : other < id}) = k - 1]

\* idr_for_each calls fn for each id with a pointer, in order and once; idr_get_next
\* finds the first of them from any id on, aligned or not.
WalksInOrder == owner = "idr" =>
    LET used == {id \in DOMAIN held : held[id] # Null}
    IN  /\ idr_for_each(idr) = Ascending(used)
        /\ \A id \in Ids : idr_get_next(idr, id) = LeastFrom(used, id)

\* There is something in entry n of the layer p: a layer, a pointer or a bitmap.
Occupied(p, n) ==
    LET below == <<p[1] - 1, p[2] * Size + n>>
    IN  IF p[1] > 0 THEN below \in DOMAIN idr.layer
        ELSE IF owner = "idr" THEN below[2] \in DOMAIN held
        ELSE below[2] \in Ids /\ idr.slot[below[2]] # Null

\* "A zero bit means space here": a bit is set when the layer or the bitmap below is full,
\* or in the leaf of an idr when the id is taken, and only then.
BitsExact == \A p \in DOMAIN idr.layer, n \in 0 .. Size - 1 :
    LET below == <<p[1] - 1, p[2] * Size + n>>
    IN  n \in idr.layer[p].bitmap <=>
            /\ Occupied(p, n)
            /\ p[1] > 0 => IsFull(idr, below)
            /\ p[1] = 0 /\ owner = "ida" => Cardinality(idr.slot[below[2]]) = Chunk

\* Each layer that was taken from the cache is in the tree, on the way from the top to
\* some slot, or on the free list, and count is the number of its entries: destroying the
\* tree gives all of them back, but for the top of a tree of MaxLevel layers. "When zero, we
\* can release it": none stays behind empty, but for those that an allocation has built
\* before it was refused.
LayersAccounted ==
    /\ idr.taken = Cardinality(DOMAIN idr.layer) + idr.id_free + lost
    /\ idr.layers = idr.top[1] + 1
    /\ \A p \in DOMAIN idr.layer :
          /\ p = idr.top \/ <<p[1] + 1, p[2] \div Size>> \in DOMAIN idr.layer
          /\ idr.layer[p].count = Cardinality({n \in 0 .. Size - 1 : Occupied(p, n)})
          /\ idr.layer[p].count = 0 => wasted

\* ida_pre_get "preallocates enough memory to satisfy the worst possible allocation": the
\* get that follows never asks for more.
PreGetSuffices == owner = "ida" => \A range \in Ranges :
    ida_get_new_above(ida_pre_get(ida), range[1]).v # EAGAIN

\* Allocation, lookup and walk, and the tree they work on, each with its parts.
Allocates == AllocatesLeast /\ PreGetSuffices
Finds == LooksUp /\ WalksInOrder
TreeSound == IdrTypeOK /\ BitsExact /\ LayersAccounted
=============================================================================
