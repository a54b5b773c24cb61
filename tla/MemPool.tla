------------------------------- MODULE MemPool -------------------------------
(***************************************************************************)
(* mempool.c: a pool of chunks in one area, each with a header in front of *)
(* it.  The program holds chunks by handle; chunks that are not locked may *)
(* move up to join the free space below them.                              *)
(*                                                                         *)
(* Every call is one or more steps: a loop of the code (the loops around   *)
(* merge_chunks, the slider of alloc_mem_chunk) takes one step for each    *)
(* time round.  Addresses count from the start of the area.                *)
(***************************************************************************)
EXTENDS Integers, FiniteSetsExt

CONSTANTS Chunks,    \* chunks the program says it needs
          Size,      \* bytes it says it needs
          NoSplit,   \* a fragment that wastes no more is used as it is
          Hdr,       \* sizeof(mem_chunk_t)
          Requests,  \* sizes the program asks for
          MaxLive    \* bound: chunks the program holds at a time

\* A nosplit below zero is left out: mempool.c:51 compares it as a size_t, so that it is
\* not raised to the size of a header.
ASSUME PoolAssumption ==
    /\ Chunks \in Nat \ {0} /\ Size \in Nat /\ NoSplit \in Nat /\ Hdr \in Nat \ {0}
    /\ Requests \subseteq Int /\ MaxLive \in Nat

VARIABLES pool,     \* mem_pool_t, the handles, the headers and the bytes of the area
          op,       \* where the call under way goes on
          handle,   \* the handle of the merge loop
          chunk,    \* the chunk of the slider
          want,     \* the size alloc_mem_chunk is called with
          out,      \* what alloc_mem_chunk has just returned, and for which size
          written   \* history: the handles whose memory the program has filled

vars == <<pool, op, handle, chunk, want, out, written>>

Null == -1
Handles == 0 .. 2 * Chunks - 1
Area == Size + 2 * Chunks * Hdr
Addresses == 0 .. Area - 1
Sigs == {"FREE", "ALOC", "LOCK"}
Keep == IF NoSplit < Hdr THEN Hdr ELSE NoSplit

\* A handle with ptr NULL; its other fields are not read before they are set.
NoHandle == [ptr |-> Null, status |-> "FREE", size |-> 0]
\* What merge_chunks makes of a header it merges away.
NoHeader == [guard |-> "none", next |-> Null, prev |-> Null, handle |-> 0]
NoOut == [size |-> 0, handle |-> Null]

Payload(p, h) == p.handles[h].ptr + Hdr .. p.handles[h].ptr + Hdr + p.handles[h].size - 1
Used(p) == {h \in Handles : p.handles[h].ptr # Null}
Headers(p) == {a \in Addresses : p.chunks[a] # NoHeader}
Free(p) == {h \in Used(p) : p.handles[h].status = "FREE"}
Held(p) == Used(p) \ Free(p)

\* <<a, h>> in bytes: address a has what the program stored in the chunk of h. Every
\* other byte is part of a header or of memory nobody will read.
init_mem_pool ==
    [handles |-> [h \in Handles |->
        IF h = 0 THEN [ptr |-> 0, status |-> "FREE", size |-> Area - Hdr] ELSE NoHandle],
     chunks  |-> [a \in Addresses |->
        IF a = 0 THEN [guard |-> "FREE", next |-> Null, prev |-> Null, handle |-> 0] ELSE NoHeader],
     last |-> 0, alloced |-> 0, free |-> Area - Hdr, bytes |-> {}]

-----------------------------------------------------------------------------
(* Headers *)

\* A whole header stored at a: the bytes it covers are gone.
PutHeader(p, a, header) ==
    [p EXCEPT !.chunks[a] = header,
              !.bytes = {b \in @ : b[1] \notin a .. a + Hdr - 1}]

\* "Stay on top of last chunk if it changed", or fix up the next chunk's prev.
Linked(p, a) ==
    LET next == p.chunks[a].next
    IN  IF next = Null THEN [p EXCEPT !.last = a] ELSE [p EXCEPT !.chunks[next].prev = a]

SetStatus(p, h, sig) ==
    [p EXCEPT !.handles[h].status = sig, !.chunks[p.handles[h].ptr].guard = sig]

\* Mutant: no bonus for the header that is gone.
AbsorbFlat(p, h, g) ==
    LET a == p.handles[h].ptr
        b == p.handles[g].ptr
        joined == Linked([p EXCEPT !.chunks[a].next = p.chunks[b].next], a)
    IN  [joined EXCEPT
            !.chunks[b] = NoHeader,
            !.handles[h].size = @ + p.handles[g].size + Hdr,
            !.handles[g] = NoHandle]

\* The chunk of h takes in the one of g, which is next to it.
Absorb(p, h, g) ==
    LET a == p.handles[h].ptr
        b == p.handles[g].ptr
        joined == Linked([p EXCEPT !.chunks[a].next = p.chunks[b].next], a)
    IN  [joined EXCEPT
            !.chunks[b] = NoHeader,
            !.handles[h].size = @ + p.handles[g].size + Hdr,
            !.handles[g] = NoHandle,
            !.free = @ + Hdr]

\* Merging with the next chunk; merged is what the call returns otherwise.
MergeNext(p, h, merged) ==
    LET next == p.chunks[p.handles[h].ptr].next
        g == p.chunks[next].handle
    IN  IF next # Null /\ p.handles[g].status = "FREE"
        THEN [pool |-> Absorb(p, h, g), result |-> h]
        ELSE [pool |-> p, result |-> merged]

\* Mutant: returns the handle whether or not it was merged.
merge_chunks_always(p, h) == [pool |-> MergeNext(p, h, 0).pool, result |-> h]

\* The pool after merge_chunks and the handle it returns: 0 says that nothing was
\* merged, or that all was merged into the chunk of handle 0.
merge_chunks(p, h) ==
    LET prev == p.chunks[p.handles[h].ptr].prev
        g == p.chunks[prev].handle
    IN  IF prev # Null /\ p.handles[g].status = "FREE"
        THEN MergeNext(Absorb(p, g, h), g, g)
        ELSE MergeNext(p, h, 0)

-----------------------------------------------------------------------------
(* Taking memory without moving any *)

\* The smallest fragment that is large enough, the last of these; 0 is none.
SmallHandle(p, size) ==
    LET fits == {h \in Free(p) \ {0} : p.handles[h].size >= size}
    IN  Max({0} \cup {h \in fits : \A g \in fits : p.handles[h].size <= p.handles[g].size})

UnusedHandle(p) == Max({0} \cup (Handles \ Used(p)))

AsIs(p, h) == [SetStatus(p, h, "ALOC") EXCEPT
                  !.alloced = @ + p.handles[h].size, !.free = @ - p.handles[h].size]

\* A piece off the end of the free chunk of f, for handle u.
TakeEnd(p, f, u, size) ==
    LET a == p.handles[f].ptr
        b == a + (p.handles[f].size - size)
        cut == Linked(PutHeader(p, b, [guard |-> "ALOC", next |-> p.chunks[a].next,
                                       prev |-> a, handle |-> u]), b)
    IN  [cut EXCEPT !.handles[u] = [ptr |-> b, status |-> "ALOC", size |-> size],
                    !.handles[f].size = @ - (size + Hdr),
                    !.chunks[a].next = b,
                    !.alloced = @ + size, !.free = @ - (size + Hdr)]

\* The front of the free chunk of f; the rest, for handle u, is to join the next.
TakeFront(p, f, u, size) ==
    LET a == p.handles[f].ptr
        b == a + size + Hdr
        rest == Linked(PutHeader(p, b, [guard |-> "FREE", next |-> p.chunks[a].next,
                                        prev |-> a, handle |-> u]), b)
    IN  [rest EXCEPT !.handles[u] = [ptr |-> b, status |-> "FREE",
                                     size |-> p.handles[f].size - size - Hdr],
                     !.handles[f] = [ptr |-> a, status |-> "ALOC", size |-> size],
                     !.chunks[a].guard = "ALOC", !.chunks[a].next = b,
                     !.alloced = @ + size, !.free = @ - (size + Hdr)]

NextIsFree(p, h) ==
    LET next == p.chunks[p.handles[h].ptr].next
    IN  next # Null /\ p.chunks[next].guard = "FREE"

\* The locals of a call that has returned are gone.
Forget == chunk' = Null /\ want' = 0

Return(p, size, result) ==
    /\ pool' = p /\ op' = "idle" /\ out' = [size |-> size, handle |-> result]
    /\ handle' = 0 /\ Forget

Corrupt == op' = "corrupt" /\ UNCHANGED <<pool, handle, chunk, want, out>>

\* A split goes on with the merge loop.  With every handle in use the code takes
\* handle 0 for the new piece and loses the chunk that has it: the end of the model.
Split(p, f, size) ==
    LET u == UnusedHandle(p)
        front == NextIsFree(p, f)
    IN  IF u = 0 THEN Corrupt
        ELSE /\ pool' = IF front THEN TakeFront(p, f, u, size) ELSE TakeEnd(p, f, u, size)
             /\ op' = "merge" /\ Forget
             /\ handle' = IF front THEN u ELSE f
             /\ out' = [size |-> size, handle |-> IF front THEN f ELSE u]

FromZero(p, size) == SmallHandle(p, size) = 0 /\ p.handles[0].size >= size + Hdr

CanAttempt(p, size) == SmallHandle(p, size) # 0 \/ FromZero(p, size)

attempt_to_alloc(p, size) ==
    LET small == SmallHandle(p, size) IN
    \/ /\ FromZero(p, size)
       /\ IF UnusedHandle(p) = 0 THEN Corrupt
          ELSE Return(TakeEnd(p, 0, UnusedHandle(p), size), size, UnusedHandle(p))
    \/ /\ small # 0 /\ size >= p.handles[small].size - Keep
       /\ Return(AsIs(p, small), size, small)
    \/ /\ small # 0 /\ size < p.handles[small].size - Keep
       /\ Split(p, small, size)

-----------------------------------------------------------------------------
(* Calls *)

Quiet == out' = NoOut /\ UNCHANGED <<handle, chunk, want>>

\* The program locks a chunk and fills it.
lock_mem_chunk(h) ==
    /\ op = "idle" /\ h \in Held(pool) /\ pool.handles[h].status = "ALOC"
    /\ pool' = [SetStatus(pool, h, "LOCK") EXCEPT
                   !.bytes = @ \cup (Payload(pool, h) \X {h})]
    /\ written' = written \cup {h}
    /\ Quiet /\ UNCHANGED op

release_mem_chunk(h) ==
    /\ op = "idle" /\ h \in Held(pool) /\ pool.handles[h].status = "LOCK"
    /\ pool' = SetStatus(pool, h, "ALOC")
    /\ Quiet /\ UNCHANGED <<op, written>>

\* Handle 0 would end the loop at once, but is never given out.
free_mem_chunk(h) ==
    /\ op = "idle" /\ h \in Held(pool) /\ pool.handles[h].status = "ALOC"
    /\ pool' = [SetStatus(pool, h, "FREE") EXCEPT
                   !.alloced = @ - pool.handles[h].size,
                   !.free = @ + pool.handles[h].size,
                   !.bytes = {b \in @ : b[2] # h}]
    /\ op' = "merge" /\ handle' = h
    /\ written' = written \ {h}
    /\ out' = NoOut /\ UNCHANGED <<chunk, want>>

\* while (handle = merge_chunks(pool, handle)) {}
MergeLoop ==
    /\ op = "merge"
    /\ \E m \in {merge_chunks(pool, handle)} :
        /\ pool' = m.pool /\ handle' = m.result
        /\ op' = IF m.result = 0 THEN "idle" ELSE "merge"
    /\ UNCHANGED <<chunk, want, out, written>>

\* free_mem_pool: area, handles and pool are given back; then a new pool is made.
free_mem_pool ==
    /\ op = "idle"
    /\ op' = "freed" /\ pool' = init_mem_pool /\ written' = {}
    /\ Quiet

NewPool ==
    /\ op = "freed"
    /\ op' = "idle"
    /\ UNCHANGED <<pool, handle, chunk, want, out, written>>

\* alloc_mem_chunk(0), or more than is free in the pool.
Refuse(size) ==
    /\ op = "idle"
    /\ size <= 0 \/ pool.free < size
    /\ Return(pool, size, 0)
    /\ UNCHANGED written

alloc_mem_chunk(size) ==
    /\ op = "idle" /\ Cardinality(Held(pool)) < MaxLive
    /\ size > 0 /\ pool.free >= size
    /\ \/ attempt_to_alloc(pool, size)
       \/ /\ ~CanAttempt(pool, size)
          /\ op' = "slide" /\ want' = size /\ chunk' = pool.last
          /\ out' = NoOut /\ UNCHANGED <<pool, handle>>
    /\ UNCHANGED written

\* Mutant: memcpy from the front, which copies over what it has not yet read.
ContentsForward(p, h, up) ==
    LET source == {b \in p.bytes : b[1] \in Payload(p, h)}
    IN  {b \in p.bytes \ source : b[1] - up \notin Payload(p, h)}
        \cup {<<b[1] + up, b[2]>> : b \in {s \in source : s[1] - up \notin Payload(p, h)}}

\* memmove of the contents of a chunk by up bytes.
ContentsMoved(p, h, up) ==
    LET source == {b \in p.bytes : b[1] \in Payload(p, h)}
    IN  {b \in p.bytes \ source : b[1] - up \notin Payload(p, h)}
        \cup {<<b[1] + up, b[2]>> : b \in source}

\* c and the free chunk behind it change places; memmove first, then the headers.
slide_chunk_up(p, c) ==
    LET h == p.chunks[c].handle
        f == p.chunks[c].next
        g == p.chunks[f].handle
        newchunk == c + p.handles[g].size + Hdr
        moved == [p EXCEPT !.bytes = ContentsMoved(p, h, newchunk - c), !.chunks[f] = NoHeader]
        header == [guard |-> p.chunks[c].guard, next |-> p.chunks[f].next, prev |-> c, handle |-> h]
        placed == Linked(PutHeader(moved, newchunk, header), newchunk)
    IN  [placed EXCEPT !.chunks[c].guard = "FREE", !.chunks[c].next = newchunk,
                       !.chunks[c].handle = g,
                       !.handles[g].ptr = c, !.handles[h].ptr = newchunk]

\* Mutant: moves locked chunks too.
MovableHeld(p, c) == /\ p.chunks[c].guard # "FREE" /\ p.chunks[c].next # Null
                     /\ p.chunks[p.chunks[c].next].guard = "FREE"

Movable(p, c) == /\ p.chunks[c].guard = "ALOC" /\ p.chunks[c].next # Null
                 /\ p.chunks[p.chunks[c].next].guard = "FREE"

\* Mutant: goes on with the chunk it has just merged away.
SlideFromHere(p, c, merged) == p.chunks[c].prev

\* Where the slider goes on: before the last chunk after a merge, and before the
\* free chunk if there was none or it was into the chunk of handle 0.
SlideFrom(p, c, merged) == p.chunks[IF merged # 0 THEN p.last ELSE c].prev

\* Once round the slider.
SlidePast ==
    /\ op = "slide" /\ chunk # Null /\ ~Movable(pool, chunk)
    /\ chunk' = pool.chunks[chunk].prev
    /\ UNCHANGED <<pool, op, handle, want, out, written>>

SlideMove ==
    /\ op = "slide" /\ chunk # Null /\ Movable(pool, chunk)
    /\ \E slid \in {slide_chunk_up(pool, chunk)} :
       \E m \in {merge_chunks(slid, slid.chunks[chunk].handle)} :
        LET enough == m.pool.handles[m.result].size >= want + Hdr IN
        \/ enough /\ attempt_to_alloc(m.pool, want)
        \/ /\ ~enough
           /\ chunk' = SlideFrom(m.pool, chunk, m.result)
           /\ pool' = m.pool /\ UNCHANGED <<op, handle, want, out>>
    /\ UNCHANGED written

SlideEnd ==
    /\ op = "slide" /\ chunk = Null
    /\ Return(pool, want, 0)
    /\ UNCHANGED written

-----------------------------------------------------------------------------
PoolInit ==
    /\ pool = init_mem_pool /\ op = "idle" /\ handle = 0 /\ chunk = Null /\ want = 0
    /\ out = NoOut /\ written = {}

Inside == MergeLoop \/ SlidePast \/ SlideMove \/ SlideEnd

PoolNext ==
    \/ \E h \in Handles : lock_mem_chunk(h) \/ release_mem_chunk(h) \/ free_mem_chunk(h)
    \/ \E size \in Requests : Refuse(size) \/ alloc_mem_chunk(size)
    \/ free_mem_pool \/ NewPool
    \/ Inside

\* A call that is under way goes on.
PoolSpec == PoolInit /\ [][PoolNext]_vars /\ WF_vars(Inside)

-----------------------------------------------------------------------------
(* Properties *)

\* Every variable has its type.
PoolTypeOK ==
    /\ pool.handles \in [Handles -> [ptr : Addresses \cup {Null}, status : Sigs, size : 0 .. Area]]
    /\ pool.chunks \in [Addresses -> [guard : Sigs \cup {"none"}, next : Addresses \cup {Null},
                                      prev : Addresses \cup {Null}, handle : Handles]]
    /\ pool.last \in Addresses /\ pool.alloced \in 0 .. Area /\ pool.free \in 0 .. Area
    /\ pool.bytes \subseteq Addresses \X Handles
    /\ op \in {"idle", "merge", "slide", "corrupt", "freed"}
    /\ handle \in Handles /\ chunk \in Addresses \cup {Null}
    /\ out.handle \in Handles \cup {Null} /\ written \subseteq Handles

\* What mem_pool_stats looks for, at every step: the chunks cover the area with no
\* byte between them and none twice, from handle 0 at its start to pool->last; the
\* two chains agree, and header and handle point at each other.
Tiled ==
    /\ pool.handles[0].ptr = 0 /\ pool.chunks[0].prev = Null
    /\ \A a \in Headers(pool) :
        LET c == pool.chunks[a]
            end == a + Hdr + pool.handles[c.handle].size
        IN  /\ pool.handles[c.handle].ptr = a /\ pool.handles[c.handle].status = c.guard
            /\ IF c.next = Null THEN end = Area /\ pool.last = a
               ELSE c.next = end /\ end \in Headers(pool) /\ pool.chunks[end].prev = a
    /\ \A h \in Used(pool) : pool.handles[h].ptr \in Headers(pool)

\* pool->free and pool->alloced are the bytes of the free and of the other chunks.
Accounts ==
    LET SizeOf(h) == pool.handles[h].size
    IN  /\ pool.free = MapThenSumSet(SizeOf, Free(pool))
        /\ pool.alloced = MapThenSumSet(SizeOf, Held(pool))

\* What the program has stored in a chunk is there until it frees the chunk, wherever
\* slides have taken it and whatever headers were written.
ContentsSurvive ==
    \A h \in written : h \in Held(pool) /\ \A a \in Payload(pool, h) : <<a, h>> \in pool.bytes

\* Between calls no two free chunks are neighbours: two calls of merge_chunks at most
\* were enough after a free, a split or a slide.
NoFreeNeighbours ==
    op = "idle" => \A h \in Free(pool) : ~NextIsFree(pool, h)

\* A chunk is split only with an unused handle for the piece: "if we have sufficient
\* handles remaining, split and return handle, otherwise, just return handle". The
\* code does not look, so this rests on twice as many handles as the chunks the
\* program said it needs, and fails for one that holds more.
HandlesSuffice == op # "corrupt"

\* alloc_mem_chunk gives up only when the free bytes are too few, or when no chunk
\* that can move is left with free space behind it and no free chunk holds the
\* request and one more header.
RefusesRightly ==
    (out.handle = 0 /\ out.size > 0) =>
        \/ pool.free < out.size
        \/ /\ \A c \in Headers(pool) : ~Movable(pool, c)
           /\ \A h \in Free(pool) : pool.handles[h].size < out.size + Hdr

\* All of it: types, chains, sums, no free neighbours, and a handle for every piece.
PoolSound == PoolTypeOK /\ Tiled /\ Accounts /\ NoFreeNeighbours /\ HandlesSuffice

\* A chunk stays where it is while it is locked, as long as there is a pool.
LockedStay ==
    [][op' # "freed" =>
       \A h \in Held(pool) : pool.handles[h].status = "LOCK" =>
          h \in Held(pool') /\ pool'.handles[h].ptr = pool.handles[h].ptr]_vars

\* Every call comes to its end: the slider, which starts again from the last chunk
\* after a merge, and the merge loops.
CallsReturn == (op \in {"merge", "slide"}) ~> (op = "idle")
=============================================================================
