------------------------------- MODULE CvsPool -------------------------------
(***************************************************************************)
(* cvspool.c, the compact pool of objects of any size, with objvec.c on    *)
(* top of it: trunks of blocks, nodes of whole slots, one list of free     *)
(* nodes in each trunk, guards that tell free neighbours from busy ones,   *)
(* ids of nodes, and the dump and load of a pool.                          *)
(*                                                                         *)
(* The memory of a trunk is kept as its node headers and as the words that *)
(* the pool once wrote as the tail of a free node: what such a word says   *)
(* is read when the node behind it is freed. Words that look like a tail   *)
(* because the program wrote them so, because malloc had them so, or       *)
(* because they lie behind the memory of the trunk are a choice at the     *)
(* time they are read (BehindBusy, AtTheEnd); a length or link of 0xFFF7,  *)
(* the guard itself, is left out. The 4-bit block and the 16-bit offset of *)
(* a link are one slot number.                                             *)
(***************************************************************************)
EXTENDS Integers, Sequences, FiniteSetsExt

CONSTANTS BlockSlots,    \* MAX_BLK_SIZE in slots, 2^16 in the code
          TrunkBlocks,   \* blocks of a trunk, 16 in the code
          SlotsAsked,    \* what pools are created with
          ObjSize,       \* osize of the object vector, in bytes
          Counts,        \* the numbers of objects asked for
          Places,        \* bound: where malloc may put a trunk, in slots
          MaxTrunks      \* bound: trunks of a pool

ASSUME CvsPoolAssumption ==
    /\ BlockSlots \in Nat /\ BlockSlots >= 6 /\ TrunkBlocks \in Nat \ {0}
    /\ SlotsAsked \subseteq Nat \ {0} /\ Places \subseteq Nat
    /\ ObjSize \in Nat \ {0} /\ Counts \subseteq Nat \ {0} /\ MaxTrunks \in Nat \ {0}

VARIABLES trunks,   \* trunk_list in its order
          ocnt,     \* trunk_ocnt
          total, used, mode,
          cached,   \* the id of cached_trunk
          wanted,   \* need_slots of an allocation that goes on rescanning, or 0
          held,     \* the nodes the program holds
          pt,       \* the static of prev_trunk, which lives as long as the process
          strayed,  \* history: how the pool has been led astray, "no" if it has not
          ended     \* "no", or how the process has ended

vars == <<trunks, ocnt, total, used, mode, cached, wanted, held, pt, strayed, ended>>

MIN_NODE_SIZE == 3
MAX_TRUNK_SIZE == BlockSlots * TrunkBlocks

\* Slots are asked for in 32 bits, of which a trunk of 2^20 leaves 4096 at most.
ASSUME SlotsAssumption ==
    \A n \in SlotsAsked : MIN_NODE_SIZE * ((n + MIN_NODE_SIZE) \div MAX_TRUNK_SIZE) <= BlockSlots

free_head == 0                      \* free_head: a node that is never allocated
None == -1
Junk == -2                     \* a length that the program has written over

Least(a, b) == IF a < b THEN a ELSE b
Block(p) == p \div BlockSlots
\* A 16-bit offset is moved, the block stays.
Shifted(p, d) == (Block(p) * BlockSlots) + ((p + d) % BlockSlots)
\* What is left of a length in 16 bits.
Len16(len) == ((len - 1) % BlockSlots) + 1

------------------------------------------------------------------------------
(* Trunks *)

slots_num_adjust(n) ==
    LET room == MAX_TRUNK_SIZE - MIN_NODE_SIZE
        Over[k \in Nat] ==    \* trunks in front of the last one
            LET st == n + (k + 1) * MIN_NODE_SIZE - k * MAX_TRUNK_SIZE
            IN  IF st >= MAX_TRUNK_SIZE /\ st % MAX_TRUNK_SIZE # 0 THEN Over[k + 1] ELSE k
        last == n - Over[0] * room
        tail == (last + MIN_NODE_SIZE) % BlockSlots
    IN  (Over[0] * room) +
        CASE last < MIN_NODE_SIZE -> MIN_NODE_SIZE
          [] last >= MIN_NODE_SIZE /\ tail \in 1 .. MIN_NODE_SIZE - 1 -> last + MIN_NODE_SIZE - tail
          [] OTHER -> last

\* The free nodes a trunk begins with, one in each block.
Starts(t_total) ==
    {MIN_NODE_SIZE} \cup {k * BlockSlots : k \in 1 .. (t_total + MIN_NODE_SIZE - 1) \div BlockSlots}

cvsp_init_trunk(id, t_total, base) ==
    LET starts == Starts(t_total)
        end(p) == Least((Block(p) + 1) * BlockSlots, t_total + MIN_NODE_SIZE)
        len(p) == IF p = free_head THEN MIN_NODE_SIZE ELSE end(p) - p
        Before(p) == {q \in starts : q < p}
        After(p) == {q \in starts : q > p}
    IN  [id |-> id, base |-> base, total |-> t_total, used |-> 0,
         heads |-> [p \in starts \cup {free_head} |->
             [busy |-> FALSE, len |-> len(p),
              prev |-> IF p = free_head THEN Max(starts) ELSE IF Before(p) = {} THEN free_head ELSE Max(Before(p)),
              next |-> IF After(p) = {} THEN free_head ELSE Min(After(p))]],
         tails |-> [s \in {p + len(p) - 1 : p \in starts \cup {free_head}} |->
             CHOOSE n \in 1 .. BlockSlots : \E p \in starts \cup {free_head} : len(p) = n /\ p + n - 1 = s]]

\* The sizes of the trunks of a pool of so many slots.
TrunkSizes(slots) ==
    LET full == MAX_TRUNK_SIZE - MIN_NODE_SIZE
    IN  [k \in 1 .. (slots + full - 1) \div full |-> Least(full, slots - (k - 1) * full)]

Apart(b, len, t) == b + len <= t.base \/ t.base + t.total + MIN_NODE_SIZE <= b
PlacesFor(ts, size) ==
    {b \in Places : \A k \in DOMAIN ts : Apart(b, size + MIN_NODE_SIZE, ts[k])}

NewId(ts) == Len(ts)
add_new_trunk(ts, base) == <<cvsp_init_trunk(NewId(ts), ts[1].total, base)>> \o ts
Expanded(ts) ==
    {add_new_trunk(ts, b) : b \in IF Len(ts) < MaxTrunks THEN PlacesFor(ts, ts[1].total) ELSE {}}

Ids(ts) == {ts[k].id : k \in DOMAIN ts}
ById(ts, id) == CHOOSE k \in DOMAIN ts : ts[k].id = id

------------------------------------------------------------------------------
(* cvsp_alloc: the first node in the list of a trunk that has the size, or leaves a     *)
(* node's size over                                                                     *)

NeedSlots(size) == LET n == (size + 7) \div 4 IN IF n < MIN_NODE_SIZE THEN MIN_NODE_SIZE ELSE n

Fits(len, need) == len = need \/ len >= need + MIN_NODE_SIZE

\* The k-th node of the free list, the head again behind its end.
FreeList(t) ==
    LET f[k \in 0 .. Cardinality(DOMAIN t.heads)] ==
            IF k = 0 THEN t.heads[free_head].next ELSE IF f[k - 1] = free_head THEN free_head ELSE t.heads[f[k - 1]].next
    IN  f

Fitting(t, need) == {k \in DOMAIN FreeList(t) :
    FreeList(t)[k] # free_head /\ Fits(t.heads[FreeList(t)[k]].len, need)}
WithFit(ts, need) == {k \in DOMAIN ts : Fitting(ts[k], need) # {}}

\* The two words of a header that is written at n. Where a node is freed or busied its own
\* header has stood before.
TailsWithout(tails, n) == [s \in DOMAIN tails \ {n, n + 1} |-> tails[s]]

\* Mutant: the node behind still links back to where the free node began.
SplitOneSided(t, p, need) ==
    LET h == t.heads[p]
        n == Shifted(p, need)
        left == [h EXCEPT !.len = h.len - need]
        linked == [t.heads EXCEPT ![h.prev].next = Shifted(@, need)]
    IN  [t EXCEPT !.heads = [q \in DOMAIN linked \cup {n} |->
                                 IF q = n THEN [left EXCEPT !.prev = linked[p].prev] ELSE linked[q]],
                  !.tails = [TailsWithout(t.tails, n) EXCEPT ![p + h.len - 1] = h.len - need]]
Split(t, p, need) ==
    LET h == t.heads[p]
        n == Shifted(p, need)
        left == [h EXCEPT !.len = h.len - need]
        linked == [t.heads EXCEPT ![h.prev].next = Shifted(@, need), ![h.next].prev = Shifted(@, need)]
    IN  [t EXCEPT !.heads = [q \in DOMAIN linked \cup {n} |-> IF q = n THEN left ELSE linked[q]],
                  !.tails = [TailsWithout(t.tails, n) EXCEPT ![p + h.len - 1] = h.len - need]]
Unlinked(t, p) ==
    [t EXCEPT !.heads[t.heads[p].prev].next = t.heads[p].next,
              !.heads[t.heads[p].next].prev = t.heads[p].prev]

\* The user fills the bytes that were asked for: of a word that looked like a tail
\* the guard is gone, or only its length is, or neither.
Filled(t, p, len, size) ==
    LET body == p + 1 .. p + len - 1
        GuardGone(s) == size >= 4 * (s - p) - 1
        LengthGone(s) == size >= 4 * (s - p) - 3
        kept == {s \in DOMAIN t.tails : s \notin body \/ ~GuardGone(s)}
    IN  [t EXCEPT !.tails = [s \in kept |-> IF s \in body /\ LengthGone(s) THEN Junk ELSE t.tails[s]]]

Busied(t, p, need) ==
    [t EXCEPT !.heads[p] = [busy |-> TRUE, len |-> need, prev |-> free_head, next |-> free_head],
              !.used = @ + need]

FirstFit(ts, need) ==
    LET k == Min(WithFit(ts, need))
    IN  [k |-> k, at |-> FreeList(ts[k])[Min(Fitting(ts[k], need))]]

Allocated(ts, f, size) ==
    LET t == ts[f.k]
        need == NeedSlots(size)
        out == IF t.heads[f.at].len = need THEN Unlinked(t, f.at) ELSE Split(t, f.at, need)
    IN  [ts EXCEPT ![f.k] = Filled(Busied(out, f.at, need), f.at, need, size)]

------------------------------------------------------------------------------
(* get_trunk, which believes every trunk to be of the maximal size *)

Address(ts, h) == ts[ById(ts, h.trunk)].base + h.at + 1

InCached(t, a) == a \in t.base .. t.base + t.total + MIN_NODE_SIZE - 1
InListed(t, a) == a \in t.base .. t.base + MAX_TRUNK_SIZE - 1

get_trunk(ts, cache, a) ==
    IF cache # None /\ InCached(ts[ById(ts, cache)], a) THEN ById(ts, cache)
    ELSE Min({k \in DOMAIN ts : InListed(ts[k], a)})

\* The number of the trunk it finds for a node, which is cached_trunk from then on.
FoundIn(ts, cache, h) == ts[get_trunk(ts, cache, Address(ts, h))].id
\* The trunk of another node is taken for that of this one.
Misfound(ts, cache, h) == FoundIn(ts, cache, h) # h.trunk

------------------------------------------------------------------------------
(* cvsp_free *)

NextFree(t, p) ==
    LET n == p + t.heads[p].len
    IN  n \in DOMAIN t.heads /\ ~t.heads[n].busy

\* A word that has the guard of a free tail stands before the node.
GuardBefore(t, p) == p - 1 \in DOMAIN t.tails
PrevOf(t, p) == p - t.tails[p - 1]
\* ... but no free node ends with it.
Misread(t, p) ==
    /\ GuardBefore(t, p)
    /\ t.tails[p - 1] = Junk \/ PrevOf(t, p) \notin DOMAIN t.heads
       \/ (LET h == t.heads[PrevOf(t, p)] IN h.busy \/ h.len # t.tails[p - 1])
\* The word before belongs to a busy node, and has what the program or malloc left there;
\* the header behind lies outside the trunk's memory, and the read at cvspool.c:515 with it.
BehindBusy(t, p) == \E q \in DOMAIN t.heads : t.heads[q].busy /\ q + t.heads[q].len = p
AtTheEnd(t, p) == p + t.heads[p].len = t.total + MIN_NODE_SIZE
PrevFree(t, p) == GuardBefore(t, p) /\ PrevOf(t, p) # free_head

\* The free node that p becomes a part of, and the length it gets.
Merged(t, p) ==
    LET n == p + t.heads[p].len
        at == IF PrevFree(t, p) THEN PrevOf(t, p) ELSE p
        end == IF NextFree(t, p) THEN n + t.heads[n].len ELSE n
    IN  [at |-> at, len |-> end - at]
\* It reaches into another block: its length or the links to it no longer fit.
Crosses(t, p) ==
    LET m == Merged(t, p) IN Block(m.at) # Block(m.at + m.len - 1)

WithoutHead(heads, p) == [q \in DOMAIN heads \ {p} |-> heads[q]]
\* set_fnode_len
Sized(t, p, len) ==
    [t EXCEPT !.heads[p].len = Len16(len), !.heads[p].busy = FALSE,
              !.tails = [s \in DOMAIN t.tails \cup {p + len - 1} |->
                             IF s = p + len - 1 THEN Len16(len) ELSE t.tails[s]]]

MergeBoth(t, p) ==
    LET n == p + t.heads[p].len
        u == Unlinked(t, n)
    IN  Sized([u EXCEPT !.heads = WithoutHead(WithoutHead(u.heads, n), p)],
              PrevOf(t, p), Merged(t, p).len)
MergePrev(t, p) ==
    Sized([t EXCEPT !.heads = WithoutHead(t.heads, p)], PrevOf(t, p), Merged(t, p).len)
MergeNext(t, p) ==
    LET n == p + t.heads[p].len
        h == t.heads[n]
        u == [t EXCEPT !.heads[p].prev = h.prev, !.heads[p].next = h.next]
        linked == [u EXCEPT !.heads[h.prev].next = p, !.heads[h.next].prev = p]
    IN  Sized([linked EXCEPT !.heads = WithoutHead(linked.heads, n)], p, Merged(t, p).len)
AtEnd(t, p) ==
    LET last == t.heads[free_head].prev
        u == [t EXCEPT !.heads[p].prev = last, !.heads[p].next = t.heads[last].next]
        linked == [u EXCEPT !.heads[last].next = p]
    IN  Sized([linked EXCEPT !.heads[free_head].prev = p], p, t.heads[p].len)

Freed(t, p) ==
    [(IF PrevFree(t, p) /\ NextFree(t, p) THEN MergeBoth(t, p)
      ELSE IF PrevFree(t, p) THEN MergePrev(t, p)
      ELSE IF NextFree(t, p) THEN MergeNext(t, p)
      ELSE AtEnd(t, p)) EXCEPT !.used = t.used - t.heads[p].len]

FreedIn(ts, h) == LET k == ById(ts, h.trunk) IN [ts EXCEPT ![k] = Freed(ts[k], h.at)]
LenOf(ts, h) == ts[ById(ts, h.trunk)].heads[h.at].len

------------------------------------------------------------------------------
(* A pool and its life *)

Running == strayed = "no" /\ ended = "no"

\* A new pool in places of malloc's choice.
Created(slots) ==
    LET sizes == TrunkSizes(slots_num_adjust(slots))
        Placed == {b \in [DOMAIN sizes -> Places] :
            \A j, k \in DOMAIN sizes : j < k =>
                \/ b[j] + sizes[j] + MIN_NODE_SIZE <= b[k]
                \/ b[k] + sizes[k] + MIN_NODE_SIZE <= b[j]}
    IN  {[k \in DOMAIN sizes |-> cvsp_init_trunk(k - 1, sizes[k], b[k])] : b \in Placed}

cvsp_init(slots) ==
    /\ trunks' \in Created(slots)
    /\ ocnt' = Len(trunks') /\ total' = slots_num_adjust(slots) /\ used' = 0
    /\ cached' = None /\ held' = {}

CvsPoolInit ==
    \E slots \in SlotsAsked :
        /\ trunks \in Created(slots)
        /\ ocnt = Len(trunks) /\ total = slots_num_adjust(slots) /\ used = 0
        /\ cached = None /\ wanted = 0 /\ held = {}
        /\ mode \in {"fixed", "autoex"} /\ pt = "null"
        /\ strayed = "no" /\ ended = "no"

\* Mutant: the search goes on behind the trunk that was added.
RescanBehindNew(ts, need) == IF WithFit(Tail(ts), need) # {} THEN "fits" ELSE "hangs"
\* One look through all trunks after one more was added.
RescanOf(ts, need) == IF WithFit(ts, need) # {} THEN "fits" ELSE "hangs"

\* What cvsp_alloc comes to: the trunks it leaves, and whether it finds a node, returns
\* NULL, fails the assertion that a node is no longer than a block, or has added a trunk
\* that did not help either and goes back to RESCAN.
Outcomes(need) ==
    LET grown == IF used = total /\ mode = "autoex" THEN Expanded(trunks) ELSE {trunks}
        Ask(ts) ==
            IF used = total /\ mode = "fixed" THEN {[ts |-> ts, how |-> "null"]}
            ELSE IF need > BlockSlots THEN {[ts |-> ts, how |-> "assert"]}
            ELSE IF need > ts[1].total THEN {[ts |-> ts, how |-> "null"]}
            ELSE IF WithFit(ts, need) # {} THEN {[ts |-> ts, how |-> "fits"]}
            ELSE IF mode = "fixed" THEN {[ts |-> ts, how |-> "null"]}
            ELSE {[ts |-> u, how |-> RescanOf(u, need)] : u \in Expanded(ts)}
    IN  UNION {Ask(ts) : ts \in grown}

Total(ts) == total + (Len(ts) - Len(trunks)) * trunks[1].total
Ends(how, need) == ended' = how /\ wanted' = IF how = "hangs" THEN need ELSE 0

objv_alloc(cnt) ==
    /\ Running
    /\ \E o \in Outcomes(NeedSlots(ObjSize * cnt)) :
        /\ total' = Total(o.ts)
        /\ IF o.how = "fits"
           THEN \E f \in {FirstFit(o.ts, NeedSlots(ObjSize * cnt))} :
                    /\ trunks' = Allocated(o.ts, f, ObjSize * cnt)
                    /\ used' = used + NeedSlots(ObjSize * cnt)
                    /\ held' = held \cup {[trunk |-> o.ts[f.k].id, at |-> f.at,
                                           len |-> NeedSlots(ObjSize * cnt)]}
                    /\ UNCHANGED <<wanted, ended>>
           ELSE trunks' = o.ts /\ Ends(o.how, NeedSlots(ObjSize * cnt)) /\ UNCHANGED <<used, held>>
    /\ UNCHANGED <<ocnt, mode, cached, pt, strayed>>

\* The loop of cvsp_alloc at RESCAN: the request is looked for again, "found" would be its
\* end, or one more trunk is added, wherever malloc has it. Bound: one beyond MaxTrunks.
Rescan ==
    /\ strayed = "no" /\ ended = "hangs"
    /\ IF RescanOf(trunks, wanted) = "fits" THEN ended' = "found" /\ UNCHANGED <<trunks, total>>
       ELSE /\ Len(trunks) <= MaxTrunks
            /\ \E b \in {Max({trunks[k].base + trunks[k].total + MIN_NODE_SIZE : k \in DOMAIN trunks})} :
                   trunks' = add_new_trunk(trunks, b)
            /\ total' = Total(trunks') /\ UNCHANGED ended
    /\ UNCHANGED <<ocnt, used, mode, cached, wanted, held, pt, strayed>>

\* How the release of h leads the pool astray, if it does.
Astray(ts, cache, h) ==
    LET t == ts[ById(ts, h.trunk)]
    IN  IF Misfound(ts, cache, h) THEN {"misfound"}
        ELSE IF Misread(t, h.at) THEN {"misread"}
        ELSE {IF Crosses(t, h.at) THEN "crossed" ELSE "no"}
             \cup {w \in {"misread"} : BehindBusy(t, h.at)}
             \cup {w \in {"behind"} : AtTheEnd(t, h.at)}

\* cvsp_free of h, where so much is used and held.
cvsp_free(ts, cache, h, slots, nodes) ==
    /\ strayed' \in Astray(ts, cache, h)
    /\ cached' = FoundIn(ts, cache, h)
    /\ IF strayed' \in {"misfound", "misread", "behind"}
       THEN trunks' = ts /\ used' = slots /\ held' = nodes
       ELSE /\ trunks' = FreedIn(ts, h)
            /\ used' = slots - LenOf(ts, h)
            /\ held' = nodes \ {h}

objv_free(h) ==
    /\ Running
    /\ cvsp_free(trunks, cached, h, used, held)
    /\ UNCHANGED <<ocnt, total, mode, wanted, pt, ended>>

\* The old length is that of the node, in bytes and without its header.
OldLen(h) == 4 * (LenOf(trunks, h) - 1)

\* What follows the allocation: the old objects are freed, or kept.
FreesOld(free_old, ts, cache, h, slots, nodes) ==
    IF free_old THEN cvsp_free(ts, cache, h, slots, nodes)
    ELSE /\ trunks' = ts /\ cached' = cache /\ used' = slots /\ held' = nodes
         /\ strayed' = "no"

\* The length is read through get_trunk, which need not be right for that, and leaves its
\* trunk in the cache. A NULL is looked at by nobody: an adjust_fn writes through it,
\* without one the old objects are freed all the same.
objv_realloc(h, cnt, free_old, adjust_fn) ==
    /\ Running /\ ObjSize * cnt > OldLen(h)
    /\ \E cache \in {FoundIn(trunks, cached, h)}, o \in Outcomes(NeedSlots(ObjSize * cnt)) :
        /\ total' = Total(o.ts)
        /\ \/ /\ o.how = "fits"
              /\ \E f \in {FirstFit(o.ts, NeedSlots(ObjSize * cnt))} :
                 \E ts \in {Allocated(o.ts, f, ObjSize * cnt)} :
                 \E new \in {[trunk |-> ts[f.k].id, at |-> f.at, len |-> NeedSlots(ObjSize * cnt)]} :
                     FreesOld(free_old, ts, cache, h, used + new.len, held \cup {new})
              /\ UNCHANGED <<wanted, ended>>
           \/ /\ o.how = "null" /\ ~adjust_fn
              /\ FreesOld(free_old, o.ts, cache, h, used, held)
              /\ UNCHANGED <<wanted, ended>>
           \/ /\ o.how # "fits" /\ (o.how = "null" => adjust_fn)
              /\ FreesOld(FALSE, o.ts, cache, h, used, held)
              /\ Ends(o.how, NeedSlots(ObjSize * cnt))
    /\ UNCHANGED <<ocnt, mode, pt>>

\* The assertion newlen > oldlen, for a caller who grows a vector that had old objects.
GrowsInsideNode(h, cnt) ==
    /\ Running /\ ObjSize * cnt <= OldLen(h)
    /\ \E old \in Counts : old < cnt /\ NeedSlots(ObjSize * old) = h.len
    /\ ended' = "assert" /\ cached' = FoundIn(trunks, cached, h)
    /\ UNCHANGED <<trunks, ocnt, total, used, mode, wanted, held, pt, strayed>>

id_of_node(h) ==
    /\ Running
    /\ cached' = FoundIn(trunks, cached, h)
    /\ strayed' = IF Misfound(trunks, cached, h) THEN "misfound" ELSE "no"
    /\ UNCHANGED <<ocnt, trunks, total, used, mode, wanted, held, pt, ended>>

\* The way back, by the number of the trunk: it needs no address.
node_from_id(h) ==
    /\ Running /\ cached' = h.trunk
    /\ UNCHANGED <<ocnt, trunks, total, used, mode, wanted, held, pt, strayed, ended>>

cvsp_destroy_init ==
    /\ Running /\ used = 0 /\ held = {}
    /\ \E slots \in SlotsAsked : cvsp_init(slots)
    /\ UNCHANGED <<mode, wanted, pt, strayed, ended>>

------------------------------------------------------------------------------
(* cvsp_for_each_bnode *)

\* iter_bnode goes from header to header and keeps its place in a static, which is NULL
\* again when it has come to the end.
Walked(t) ==
    LET f[k \in 0 .. Cardinality(DOMAIN t.heads)] ==
            IF k = 0 THEN free_head ELSE IF f[k - 1] < t.total THEN f[k - 1] + t.heads[f[k - 1]].len ELSE f[k - 1]
    IN  {f[k] : k \in DOMAIN f}
\* Mutant: the walk ends where a smallest node no longer has room.
iter_bnode_short(t) ==
    IF t.used = 0 THEN {} ELSE {p \in Walked(t) : p < t.total - MIN_NODE_SIZE /\ t.heads[p].busy}
iter_bnode(t) == IF t.used = 0 THEN {} ELSE {p \in Walked(t) : p < t.total /\ t.heads[p].busy}

\* For each trunk of the list it is the first one that is walked.
VisitsOf(h) ==
    IF h.trunk = trunks[1].id /\ h.at \in iter_bnode(trunks[1]) THEN Len(trunks) ELSE 0

------------------------------------------------------------------------------
(* The dump and the load of a pool *)

\* What cvspool_ser writes: the trunks in the order of the list. A load that comes long
\* after its dump, in a later process, leads to the same pool as one that follows at once,
\* so that no dump is kept.
cvspool_ser == [trunks |-> trunks, ocnt |-> ocnt, slots |-> total - (Len(trunks) - ocnt) * trunks[1].total]

\* The trunks are read from the last to the first: into those the new pool was created
\* with, from the last to the first, then into trunks added in front.
LoadedInto(own, dumped) == [own EXCEPT !.used = dumped.used, !.heads = dumped.heads, !.tails = dumped.tails]
\* The number of the dumped trunk that goes into the k-th of n, the first ones added.
Into(k, n, added) == k

Loads(own, dump) ==
    LET added == Len(dump.trunks) - dump.ocnt
        size == own[1].total
        Room == {b \in [1 .. added -> Places] :
            /\ \A k \in 1 .. added : \A j \in DOMAIN own : Apart(b[k], size + MIN_NODE_SIZE, own[j])
            /\ \A j, k \in 1 .. added : j # k => \/ b[j] + size + MIN_NODE_SIZE <= b[k]
                                                 \/ b[k] + size + MIN_NODE_SIZE <= b[j]}
        List(b) == [k \in 1 .. added |-> cvsp_init_trunk(Len(own) + added - k, size, b[k])] \o own
    IN  {[k \in DOMAIN List(b) |-> LoadedInto(List(b)[k], dump.trunks[Into(k, Len(own), added)])] : b \in Room}

objvec_ser == cvspool_ser

\* A pool is created as the dumped one was and takes the dump.
cvspool_deser_high(dump) ==
    /\ \E own \in Created(dump.slots) : trunks' \in Loads(own, dump)
    /\ cached' = None
    /\ pt' = IF Len(dump.trunks) = dump.ocnt THEN "first" ELSE "null"
    /\ UNCHANGED <<ocnt, total, used, mode, wanted, held, strayed, ended>>

\* prev_trunk is called until it returns NULL only if trunks were added: otherwise it
\* stays on the first trunk, and goes on from there when the process loads another pool.
DumpAndLoad(same_process) ==
    /\ Running
    /\ same_process => pt = "null"
    /\ \E dump \in {objvec_ser} : cvspool_deser_high(dump)

LoadBehindFirst ==
    /\ Running /\ pt = "first" /\ ended' = "load"
    /\ UNCHANGED <<trunks, ocnt, total, used, mode, cached, wanted, held, pt, strayed>>

StartAnew ==
    /\ ~Running /\ \E slots \in SlotsAsked : cvsp_init(slots)
    /\ wanted' = 0 /\ pt' = "null" /\ strayed' = "no" /\ ended' = "no"
    /\ UNCHANGED mode

CvsPoolNext ==
    \/ \E cnt \in Counts : objv_alloc(cnt)
    \/ \E h \in held : objv_free(h) \/ id_of_node(h) \/ node_from_id(h)
    \/ \E h \in held, cnt \in Counts : GrowsInsideNode(h, cnt)
    \/ \E h \in held, cnt \in Counts, free_old, adjust_fn \in BOOLEAN :
           objv_realloc(h, cnt, free_old, adjust_fn)
    \/ Rescan
    \/ cvsp_destroy_init \/ StartAnew
    \/ \E same_process \in BOOLEAN : DumpAndLoad(same_process)
    \/ LoadBehindFirst

CvsPoolSpec == CvsPoolInit /\ [][CvsPoolNext]_vars

------------------------------------------------------------------------------
(* What holds until a pool is led astray *)

Nodes(t) == DOMAIN t.heads
Free(t) == {p \in Nodes(t) \ {free_head} : ~t.heads[p].busy}
Busy(t) == {p \in Nodes(t) : t.heads[p].busy}
Listed(t) == {FreeList(t)[k] : k \in DOMAIN FreeList(t)} \ {free_head}

\* Headers tile the trunk; the free list holds each free node once, its back links are
\* those of its links, its nodes end in words that say so and stay in their block; two
\* free nodes are neighbours over the border of a block only; the counters are right.
Sound(t) ==
    /\ \A p \in Nodes(t) : p + t.heads[p].len \in Nodes(t) \cup {t.total + MIN_NODE_SIZE}
    /\ \A p, q \in Nodes(t) : p < q => p + t.heads[p].len <= q
    /\ Listed(t) = Free(t)
    /\ \A p \in Free(t) \cup {free_head} : t.heads[t.heads[p].next].prev = p
    /\ \A p \in Free(t) :
        /\ t.heads[p].len >= MIN_NODE_SIZE /\ Block(p) = Block(p + t.heads[p].len - 1)
        /\ p + t.heads[p].len - 1 \in DOMAIN t.tails
        /\ t.tails[p + t.heads[p].len - 1] = t.heads[p].len
        /\ p + t.heads[p].len \in Free(t) => Block(p + t.heads[p].len) # Block(p)
    /\ t.used = MapThenSumSet(LAMBDA p : t.heads[p].len, Busy(t))

FreeSpaceSound ==
    strayed = "no" =>
        /\ \A k \in DOMAIN trunks : Sound(trunks[k])
        /\ used = MapThenSumSet(LAMBDA k : trunks[k].used, DOMAIN trunks)
        /\ total = MapThenSumSet(LAMBDA k : trunks[k].total, DOMAIN trunks)

\* The nodes the program holds are the busy ones, found under the trunk number their
\* ids are made of, through growth, dumps and loads.
HeldAreBusy ==
    strayed = "no" =>
        /\ Ids(trunks) = 0 .. Len(trunks) - 1
        /\ held = UNION {{[trunk |-> trunks[k].id, at |-> p, len |-> trunks[k].heads[p].len] :
                              p \in Busy(trunks[k])} : k \in DOMAIN trunks}

\* Both: the trunks and what the program has of them.
CvsPoolSound == FreeSpaceSound /\ HeldAreBusy

\* The walk over all nodes that dumps and loads of object vectors make comes to each
\* busy node once, if the pool has one trunk; but the memory of a trunk is longer by the
\* head than the walk believes, and a smallest node at its very end is never seen.
EachBusyNodeOnce ==
    strayed = "no" /\ Len(trunks) = 1 =>
        \A h \in held : VisitsOf(h) = IF h.at < trunks[1].total THEN 1 ELSE 0

\* The loop at RESCAN is left at once or never: a request that the first trunk added does
\* not serve is served by none of those that follow, so that cvsp_alloc goes on until
\* memory is gone, instead of returning NULL.
HangsForGood == ended # "found"
==============================================================================
