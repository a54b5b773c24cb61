------------------------------ MODULE ObjPool ------------------------------
(***************************************************************************)
(* objpool.c: objects of one size in slabs.  Behind each object is a word, *)
(* the free pointer: the next free object of the slab, or, while the       *)
(* program has the object, the slab itself.  A pool is serialised with the *)
(* addresses it has and patched to new ones when it is loaded.             *)
(*                                                                         *)
(* An address is a pair of the place malloc gave a slab and an offset in   *)
(* it: 0 is the slab, i its i-th object.  Adding the difference of two     *)
(* places to an address moves it from one to the other; to any other word  *)
(* it makes an address that is Wild.                                       *)
(***************************************************************************)
EXTENDS Integers, FiniteSets, Sequences

CONSTANTS ObjNum,   \* OBJ_NUM
          Places,   \* bound: the places malloc has for slabs
          MaxDumps, \* bound: dumps of one pool
          Null,     \* NULL
          Wild      \* any address that is not one of this pool

ASSUME ObjPoolAssumption ==
    /\ ObjNum \in Nat \ {0} /\ MaxDumps \in Nat \ {0}
    /\ IsFiniteSet(Places) /\ Null \notin Places /\ Wild \notin Places /\ Null # Wild
    /\ Null \notin Places \X (0 .. ObjNum) /\ Wild \notin Places \X (0 .. ObjNum)

VARIABLES pool,     \* objpool_t
          slabs,    \* slab_t at each place
          freeptr,  \* the word behind each object
          slab_idr, \* the dump whose memory slab_ser_ctx points to, for each slab id
          dumps,    \* dumps made of this pool
          file,     \* the last dump
          up,       \* the process has not crashed
          held      \* history: the objects the program has

mem == <<pool, slabs, freeptr>>
vars == <<pool, slabs, freeptr, slab_idr, dumps, file, up, held>>

MaxSlabs == Cardinality(Places)
Ids == 0 .. MaxSlabs - 1
SlabPtr(s) == <<s, 0>>
ObjectsOf(s) == {s} \X (1 .. ObjNum)
Objects == Places \X (1 .. ObjNum)

NoSlab == [id |-> 0, next |-> Null, free |-> Null]
NoFile == [slabs |-> <<>>]

objpool_init == [slab_nr |-> 0, obj_nr |-> 0, free_obj_nr |-> 0,
                 slab_head |-> Null, recent_slab |-> Null]

\* The slabs from slab_head on: slab_nr of them, the last with next NULL.
Chain ==
    LET from[n \in 0 .. MaxSlabs] ==
            IF n = 0 THEN <<>>
            ELSE LET c == from[n - 1]
                     s == IF c = <<>> THEN pool.slab_head ELSE slabs[c[Len(c)]].next
                 IN  IF s = Null THEN c ELSE Append(c, s)
    IN  from[MaxSlabs]

InChain == LET chain == Chain IN {chain[k] : k \in 1 .. Len(chain)}

\* The object of slab s that comes after o, for a slab all of whose objects are free.
InitFree(o) == IF o[2] = ObjNum THEN Null ELSE <<o[1], o[2] + 1>>

-----------------------------------------------------------------------------
(* Allocation *)

\* Takes the first free object of slab s in the memory <<p, sl, fp>>.
Take(p, sl, fp, s) ==
    LET o == sl[s].free IN
    /\ pool' = [p EXCEPT !.free_obj_nr = @ - 1]
    /\ slabs' = [sl EXCEPT ![s].free = fp[o]]
    /\ freeptr' = [fp EXCEPT ![o] = SlabPtr(s)]
    /\ held' = held \cup {o}
    /\ UNCHANGED <<slab_idr, dumps, file, up>>

RecentHasRoom == pool.recent_slab # Null /\ slabs[pool.recent_slab].free # Null

\* Mutant: looks at the newest slab only.
WithRoomAtHead(chain) == {k \in 1 .. Len(chain) : k = 1 /\ slabs[chain[k]].free # Null}
WithRoom(chain) == {k \in 1 .. Len(chain) : slabs[chain[k]].free # Null}

AllocFromRecent ==
    /\ up /\ RecentHasRoom
    /\ Take(pool, slabs, freeptr, pool.recent_slab)

\* The first slab with a free object becomes the recent one.
AllocFromChain ==
    /\ up /\ ~RecentHasRoom
    /\ LET chain == Chain IN \E k \in WithRoom(chain) :
        /\ \A j \in WithRoom(chain) : k <= j
        /\ Take([pool EXCEPT !.recent_slab = chain[k]], slabs, freeptr, chain[k])

NewId(p) == p.slab_nr

\* malloc has a place for a new slab; recent_slab stays what it is.
AllocFromNew ==
    /\ up /\ ~RecentHasRoom /\ WithRoom(Chain) = {}
    /\ \E s \in Places \ InChain :
        Take([pool EXCEPT !.slab_head = s, !.slab_nr = @ + 1, !.obj_nr = @ + ObjNum,
                          !.free_obj_nr = @ + ObjNum],
             [slabs EXCEPT ![s] = [id |-> NewId(pool), next |-> pool.slab_head, free |-> <<s, 1>>]],
             [o \in Objects |-> IF o[1] = s THEN InitFree(o) ELSE freeptr[o]],
             s)

objpool_alloc == AllocFromRecent \/ AllocFromChain \/ AllocFromNew

objpool_free(o) ==
    LET s == freeptr[o][1] IN
    /\ up /\ o \in held
    /\ freeptr' = [freeptr EXCEPT ![o] = slabs[s].free]
    /\ slabs' = [slabs EXCEPT ![s].free = o]
    /\ pool' = [pool EXCEPT !.free_obj_nr = @ + 1]
    /\ held' = held \ {o}
    /\ UNCHANGED <<slab_idr, dumps, file, up>>

-----------------------------------------------------------------------------
(* Serialisation *)

\* Each slab is written with the address it has.  idr_alloc for an id that is taken
\* fails and leaves the context of an earlier dump in place.
\* recent_slab is followed without a look: NULL ends the process, with no whole file.
objpool_ser ==
    LET chain == Chain IN
    /\ up /\ dumps < MaxDumps
    /\ dumps' = dumps + 1
    /\ slab_idr' = [id \in Ids |->
          IF slab_idr[id] = 0 /\ (\E k \in 1 .. Len(chain) : slabs[chain[k]].id = id)
          THEN dumps + 1 ELSE slab_idr[id]]
    /\ IF pool.recent_slab = Null THEN up' = FALSE /\ file' = NoFile
       ELSE /\ up' = TRUE
            /\ file' = [recent_slab |-> slabs[pool.recent_slab].id,
                        free_obj_nr |-> pool.free_obj_nr,
                        slabs |-> [k \in 1 .. Len(chain) |->
                            [at |-> chain[k], slab |-> slabs[chain[k]],
                             freeptr |-> [i \in 1 .. ObjNum |-> freeptr[<<chain[k], i>>]]]],
                        held |-> held]
    /\ UNCHANGED <<mem, held>>

\* Mutant: patches the end of the free list too.
PatchedNull(word, old, new) == IF word # Null /\ word[1] = old THEN <<new, word[2]>> ELSE Wild

\* A word of a slab that was at old and is at new now: the null tail stays.
Patched(word, old, new) ==
    CASE word = Null -> Null
      [] word # Null /\ word[1] = old -> <<new, word[2]>>
      [] OTHER -> Wild

LoadedFree(f) == f.free_obj_nr

\* Loads the file into a pool that has just been created.  The loop goes from the
\* last slab in the file, the oldest, to the first: slab k gets the place at[k], and
\* the slab loaded before it, at[k + 1], as its next.
objpool_deser_high ==
    LET n == Len(file.slabs) IN
    /\ up /\ pool = objpool_init /\ n > 0
    /\ \E at \in [1 .. n -> Places] :
        /\ \A j, k \in 1 .. n : at[j] = at[k] => j = k
        /\ LET Loaded(k) ==
                 LET was == file.slabs[k] IN
                 [id |-> was.slab.id,
                  next |-> IF was.slab.next # Null /\ k < n THEN at[k + 1] ELSE Null,
                  free |-> Patched(was.slab.free, was.at, at[k])]
               Word(k, i) == Patched(file.slabs[k].freeptr[i], file.slabs[k].at, at[k])
               Of(s) == CHOOSE k \in 1 .. n : at[k] = s
               places == {at[k] : k \in 1 .. n}
           IN  /\ slabs' = [s \in Places |-> IF s \in places THEN Loaded(Of(s)) ELSE slabs[s]]
               /\ freeptr' = [o \in Objects |->
                      IF o[1] \in places THEN Word(Of(o[1]), o[2]) ELSE freeptr[o]]
               /\ pool' = [slab_head |-> at[1], slab_nr |-> n, obj_nr |-> n * ObjNum,
                           free_obj_nr |-> LoadedFree(file),
                           recent_slab |-> at[CHOOSE k \in 1 .. n :
                                                file.slabs[k].slab.id = file.recent_slab]]
               /\ held' = UNION {{<<at[k], o[2]>> : o \in file.held \cap ObjectsOf(file.slabs[k].at)} :
                                 k \in 1 .. n}
    /\ UNCHANGED <<slab_idr, dumps, file, up>>

-----------------------------------------------------------------------------
Fresh ==
    /\ pool' = objpool_init
    /\ slabs' = [s \in Places |-> NoSlab] /\ freeptr' = [o \in Objects |-> Null]
    /\ slab_idr' = [id \in Ids |-> 0] /\ dumps' = 0 /\ up' = TRUE /\ held' = {}

\* destroy_objpool and create_objpool, in this process or in the next.
Recreate == Fresh /\ UNCHANGED file

ObjPoolInit ==
    /\ pool = objpool_init
    /\ slabs = [s \in Places |-> NoSlab] /\ freeptr = [o \in Objects |-> Null]
    /\ slab_idr = [id \in Ids |-> 0] /\ dumps = 0 /\ up = TRUE /\ held = {}
    /\ file = NoFile

ObjPoolNext ==
    \/ objpool_alloc
    \/ \E o \in Objects : objpool_free(o)
    \/ objpool_ser
    \/ objpool_deser_high
    \/ Recreate

ObjPoolSpec == ObjPoolInit /\ [][ObjPoolNext]_vars

-----------------------------------------------------------------------------
(* Properties *)

\* Every variable has its type.
ObjPoolTypeOK ==
    /\ pool.slab_head \in Places \cup {Null} /\ pool.recent_slab \in Places \cup {Null}
    /\ pool.slab_nr \in 0 .. MaxSlabs
    /\ \A s \in Places : slabs[s].id \in Ids /\ slabs[s].next \in Places \cup {Null}
                         /\ slabs[s].free \in Objects \cup {Null}
    /\ freeptr \in [Objects -> Objects \cup {SlabPtr(s) : s \in Places} \cup {Null}]
    /\ slab_idr \in [Ids -> 0 .. MaxDumps] /\ dumps \in 0 .. MaxDumps
    /\ up \in BOOLEAN /\ held \subseteq Objects

\* The objects on the free list of s, in its order.
FreeList(s) ==
    LET from[n \in 0 .. ObjNum] ==
            IF n = 0 THEN <<slabs[s].free>>
            ELSE LET c == from[n - 1] IN
                 IF c[Len(c)] \in Objects THEN Append(c, freeptr[c[Len(c)]]) ELSE c
    IN  from[ObjNum]

\* The free list of a slab goes through exactly those of its objects the program does
\* not have and ends; the word behind every other object leads objpool_free to its
\* slab. So no object is handed out twice and none is lost, before a dump and after
\* the load of one.
FreeListsExact == \A s \in InChain :
    LET list == FreeList(s)
        free == {list[k] : k \in 1 .. Len(list)} \ {Null}
    IN  /\ list[Len(list)] = Null
        /\ free = ObjectsOf(s) \ held
        /\ \A o \in held \cap ObjectsOf(s) : freeptr[o] = SlabPtr(s)

\* slab_nr, obj_nr and free_obj_nr count the slabs of the chain, their objects and
\* the ones the program does not have, as the unit tests expect; the chain has
\* every object the program has.
CountsRight ==
    /\ pool.slab_nr = Cardinality(InChain) /\ pool.obj_nr = ObjNum * pool.slab_nr
    /\ pool.free_obj_nr = pool.obj_nr - Cardinality(held)
    /\ {o[1] : o \in held} \subseteq InChain

\* The chain has the slabs slab_nr - 1 down to 0 in this order, so that the number
\* a dump has in place of recent_slab names one slab, after a load and growth too.
SlabsNumbered ==
    /\ LET chain == Chain IN \A k \in 1 .. Len(chain) : slabs[chain[k]].id = Len(chain) - k
    /\ pool.recent_slab \in InChain \cup {Null}

\* All of it: types, free lists, counters and the numbers of the slabs.
ObjPoolExact == ObjPoolTypeOK /\ FreeListsExact /\ CountsRight /\ SlabsNumbered

\* A slab is added only when every object is in use.
GrowsOnlyWhenFull ==
    [][(pool'.slab_nr > pool.slab_nr /\ pool # objpool_init) => pool.free_obj_nr = 0]_vars
=============================================================================
