--------------------------------- MODULE Msm ---------------------------------
(***************************************************************************)
(* msm.c, the dump of all registered data sources into one file and its    *)
(* load: the root structure and its references, the registration of        *)
(* sources, the two maps of pool ids, the stores of a dump one by one, at  *)
(* any of which the process may be killed, and what a later load makes of  *)
(* the file. Lengths and offsets are in units: one for the header, one for *)
(* each entry of the summary, and for the detail of a source its length.   *)
(***************************************************************************)
EXTENDS Integers, Sequences, FiniteSets, FiniteSetsExt

CONSTANTS Sources,     \* the names of data sources
          LongNames,   \* those that fill all of sse_name, which then has no end
          WithoutId,   \* those whose pools take no id from poolidr
          MaxLen,      \* bound: the length of a detail
          MaxSources,  \* bound: sources registered at a time
          MaxRefs      \* bound: references the program holds

ASSUME MsmAssumption ==
    /\ IsFiniteSet(Sources)
    /\ LongNames \subseteq Sources /\ WithoutId \subseteq Sources
    /\ MaxLen \in Nat \ {0} /\ MaxRefs \in Nat \ {0}
    /\ MaxSources \in Nat \ {0}

VARIABLES srd,      \* only_srd, or NoSrd
          pools,    \* what the pool of each source holds; its detail is as long
          poolid,   \* the id that pool has got from poolidr, or NoId
          file,     \* the file on disk
          dump,     \* how far the dump under way has come
          refs,     \* references the program has got and not put
          result    \* what the last call of msm_load came to

vars == <<srd, pools, poolid, file, dump, refs, result>>

NoSrd == <<>>
HeadLen == 1
NoId == 0
NotWritten == 0
Idle == [at |-> "idle", i |-> 0]

EmptyMap == [x \in {} |-> x]
NewSrd == [ds |-> <<>>, refcnt |-> 0, rdonly |-> FALSE, poolidr |-> EmptyMap, ididr |-> EmptyMap]

\* sums and dets are what has been written of the summary and of the details; meant is
\* what the dump that wrote the file was to save.
NoFile == [size |-> -1, cnt |-> 0, sums |-> <<>>, dets |-> <<>>, meant |-> EmptyMap]
Truncated(meant) == [size |-> 0, cnt |-> 0, sums |-> <<>>, dets |-> <<>>, meant |-> meant]

Registered == {srd.ds[k] : k \in DOMAIN srd.ds}
Length(s) == pools[s]

------------------------------------------------------------------------------
(* The root structure *)

MsmInit ==
    /\ srd = NoSrd /\ pools = [s \in Sources |-> 0] /\ poolid = [s \in Sources |-> NoId]
    /\ file = NoFile /\ dump = Idle /\ refs = 0 /\ result = "none"

Idling == dump = Idle /\ result # "dies"

msm_get_no_ref == IF srd = NoSrd THEN NewSrd ELSE srd

msm_get ==
    /\ Idling /\ refs < MaxRefs
    /\ refs' = refs + 1
    /\ srd' = [msm_get_no_ref EXCEPT !.refcnt = @ + 1]
    /\ UNCHANGED <<pools, poolid, file, dump, result>>

\* Mutant: the last reference frees the structure.
PutLast(r) == IF r.refcnt = 1 THEN NoSrd ELSE [r EXCEPT !.refcnt = @ - 1]
\* The count is tested before it is taken down: a put too many frees the structure.
Put(r) == IF r.refcnt = 0 THEN NoSrd ELSE [r EXCEPT !.refcnt = @ - 1]

\* Nothing keeps the program from putting more than it has got. The pools it has then
\* live on, but no structure knows of them any more, the one the next msm_get makes
\* neither: they are followed no further.
msm_put ==
    /\ Idling /\ srd # NoSrd
    /\ srd' = Put(srd)
    /\ \/ refs > 0 /\ refs' = refs - 1 /\ UNCHANGED <<pools, poolid>>
       \/ /\ refs = 0 /\ UNCHANGED refs
          /\ pools' = [s \in Sources |-> 0] /\ poolid' = [s \in Sources |-> NoId]
    /\ UNCHANGED <<file, dump, result>>

\* idr_alloc from POOLID_MIN on (Idr)
LeastId(map) == Min(1 .. Cardinality(Sources) + 1 \ DOMAIN map)
WithId(map, s) ==
    IF s \in WithoutId THEN map
    ELSE [id \in DOMAIN map \cup {LeastId(map)} |-> IF id \in DOMAIN map THEN map[id] ELSE s]
NewId(map, s) == IF s \in WithoutId THEN NoId ELSE LeastId(map)
Removed(map, id) == [i \in DOMAIN map \ {id} |-> map[i]]

\* A pool is created, which takes its id, and registered.
msm_register_ds(s) ==
    /\ Idling /\ srd # NoSrd /\ s \notin Registered /\ Len(srd.ds) < MaxSources
    /\ srd' = [srd EXCEPT !.ds = Append(@, s), !.poolidr = WithId(@, s)]
    /\ pools' = [pools EXCEPT ![s] = 0]
    /\ poolid' = [poolid EXCEPT ![s] = NewId(srd.poolidr, s)]
    /\ UNCHANGED <<file, dump, refs, result>>

\* The pool of a source is destroyed and another one, which is empty, put in its place.
msm_change_ds_pt(s) ==
    /\ Idling /\ srd # NoSrd /\ s \in Registered
    /\ srd' = [srd EXCEPT !.poolidr = WithId(Removed(@, poolid[s]), s)]
    /\ pools' = [pools EXCEPT ![s] = 0]
    /\ poolid' = [poolid EXCEPT ![s] = NewId(Removed(srd.poolidr, poolid[s]), s)]
    /\ UNCHANGED <<file, dump, refs, result>>

\* The program works on the pool.
Work(s) ==
    /\ Idling /\ srd # NoSrd /\ s \in Registered
    /\ \E len \in 1 .. MaxLen : pools' = [pools EXCEPT ![s] = len]
    /\ UNCHANGED <<srd, poolid, file, dump, refs, result>>

------------------------------------------------------------------------------
(* msm_dump into a file, one store at a time *)

ser_osz == HeadLen + Len(srd.ds) + MapThenSumSet(Length, Registered)

\* open truncates the file; then the mapping may fail.
DumpOpen ==
    /\ file' = Truncated([s \in Registered |-> pools[s]])
    /\ \/ dump' = [at |-> "extend", i |-> 0]
       \/ UNCHANGED dump

\* A structure that has loaded something is never dumped again.
msm_dump ==
    /\ Idling /\ srd # NoSrd /\ ~srd.rdonly
    /\ DumpOpen
    /\ UNCHANGED <<srd, pools, poolid, refs, result>>

DumpExtend ==
    /\ dump.at = "extend"
    /\ \/ /\ file' = [file EXCEPT !.size = ser_osz]
          /\ dump' = [at |-> "head", i |-> 0]
       \/ dump' = Idle /\ UNCHANGED file
    /\ UNCHANGED <<srd, pools, poolid, refs, result>>

\* The next of the entries, or what follows the last one.
Next(at, i, then) ==
    IF i < Len(srd.ds) THEN [at |-> at, i |-> i + 1]
    ELSE IF then = "idle" THEN Idle ELSE [at |-> then, i |-> 1]
AfterHead == IF srd.ds = <<>> THEN Idle ELSE [at |-> "summary", i |-> 1]

\* The count in the header is 0 until the first entry is complete.
DumpHead ==
    /\ dump.at = "head" /\ dump' = AfterHead
    /\ UNCHANGED <<srd, pools, poolid, file, refs, result>>

DumpSummary ==
    /\ dump.at = "summary"
    /\ file' = [file EXCEPT !.sums = Append(@, [name |-> srd.ds[dump.i], off |-> NotWritten, len |-> 0])]
    /\ dump' = [dump EXCEPT !.at = "count"]
    /\ UNCHANGED <<srd, pools, poolid, refs, result>>

DumpCount ==
    /\ dump.at = "count"
    /\ file' = [file EXCEPT !.cnt = @ + 1]
    /\ dump' = Next("summary", dump.i, "detail")
    /\ UNCHANGED <<srd, pools, poolid, refs, result>>

DumpDetail ==
    /\ dump.at = "detail"
    /\ \E s \in {srd.ds[dump.i]} :
        file' = [file EXCEPT !.dets = Append(@, [holds |-> pools[s], id |-> poolid[s]]),
                             !.sums[dump.i].len = Length(s)]
    /\ dump' = [dump EXCEPT !.at = "offset"]
    /\ UNCHANGED <<srd, pools, poolid, refs, result>>

\* The units of the details in front of the i-th, and where it is.
InFront(f, i) == {u \in (1 .. i - 1) \X (1 .. MaxLen) : u[2] <= f.sums[u[1]].len}
DetailAt(f, n, i) == HeadLen + n + Cardinality(InFront(f, i))

\* Mutant: the offset is taken behind the detail.
OffsetBehind(f, n, i) == DetailAt(f, n, i + 1)
Offset(f, n, i) == DetailAt(f, n, i)

DumpOffset ==
    /\ dump.at = "offset"
    /\ file' = [file EXCEPT !.sums[dump.i].off = Offset(file, Len(srd.ds), dump.i)]
    /\ dump' = Next("detail", dump.i, "idle")
    /\ UNCHANGED <<srd, pools, poolid, refs, result>>

\* The process is killed, or ends; the next one has nothing but the file.
Kill ==
    /\ srd' = NoSrd /\ pools' = [s \in Sources |-> 0] /\ poolid' = [s \in Sources |-> NoId]
    /\ dump' = Idle /\ refs' = 0 /\ result' = "none"
    /\ UNCHANGED file

------------------------------------------------------------------------------
(* msm_load *)

Entries(f) == 1 .. f.cnt
\* find_dsn_by_name never returns NULL: a name that is not there is some other memory.
Found(f, k) == f.sums[k].name \in Registered \ LongNames
Saved(f) == {k \in Entries(f) : f.sums[k].len # 0}

\* Mutant: a detail whose place is not recorded is taken where the last one ended.
PlacedLoosely(f, k) == f.sums[k].off \in {NotWritten, DetailAt(f, f.cnt, k)}
Placed(f, k) == f.sums[k].off = DetailAt(f, f.cnt, k)

\* The slot of the id of the pool that was dumped must be free in ididr.
Mapped(f, ids, k) == f.dets[k].id \in ids \/ \E j \in Saved(f) : j < k /\ f.dets[j].id = f.dets[k].id

Dies(f) ==
    \/ \E k \in Entries(f) : ~Found(f, k) \/ ~Placed(f, k)
    \/ \E k \in Saved(f) : Mapped(f, DOMAIN srd.ididr, k)

LoadedPool(f, s) ==
    LET from == {k \in Saved(f) : f.sums[k].name = s}
    IN  IF from = {} THEN pools[s] ELSE f.dets[CHOOSE k \in from : TRUE].holds
MappedIds(f) == {f.dets[k].id : k \in Saved(f)}
\* Mutant: the old pool is believed to keep its id.
SameId(f, id) == id
NewIdFor(f, id) == poolid[f.sums[CHOOSE k \in Saved(f) : f.dets[k].id = id].name]

\* mmap_file: a file that is empty, or is not there, cannot be mapped.
Mappable(f) == f.size > 0

\* A file that is extended but has no count yet loads as one that has no sources. The
\* flags are set before anything is read, for good.
msm_load ==
    /\ Idling /\ srd # NoSrd
    /\ IF ~Mappable(file)
       THEN result' = "fails" /\ UNCHANGED <<srd, pools>>
       ELSE IF Dies(file)
       THEN result' = "dies" /\ UNCHANGED <<srd, pools>>
       ELSE /\ result' = "loaded"
            /\ pools' = [s \in Sources |-> LoadedPool(file, s)]
            /\ srd' = [srd EXCEPT !.rdonly = TRUE,
                   !.ididr = [id \in DOMAIN @ \cup MappedIds(file) |->
                                  IF id \in DOMAIN @ THEN @[id] ELSE NewIdFor(file, id)]]
    /\ UNCHANGED <<poolid, file, dump, refs>>

get_new_pool_pt(old_id) == srd.poolidr[srd.ididr[old_id]]

MsmNext ==
    \/ msm_get \/ msm_put \/ msm_load \/ Kill
    \/ \E s \in Sources : msm_register_ds(s) \/ msm_change_ds_pt(s) \/ Work(s)
    \/ msm_dump \/ DumpExtend \/ DumpHead \/ DumpSummary \/ DumpCount \/ DumpDetail \/ DumpOffset

MsmSpec == MsmInit /\ [][MsmNext]_vars

------------------------------------------------------------------------------
(* What a dump is worth *)

\* A load that returns 0 has read everything the dump was to save, whatever the dump was
\* killed at; or nothing at all, when the file was no more than extended.
LoadsAllOrNothing ==
    [][msm_load /\ result' = "loaded" =>
         \/ \A s \in DOMAIN file.meant : file.meant[s] # 0 => pools'[s] = file.meant[s]
         \/ file.cnt = 0 /\ pools' = pools]_vars

Complete(f) ==
    /\ Len(f.dets) = Cardinality(DOMAIN f.meant)
    /\ \A k \in DOMAIN f.sums : f.sums[k].off # NotWritten

\* A dump that was completed is loaded by every process that has registered its sources,
\* in any order and with any ids, if their names are short enough, at most one of the
\* pools has no id, and the process has not loaded anything before.
LoadsBack ==
    [][/\ msm_load /\ file.size > 0 /\ Complete(file)
       /\ DOMAIN file.meant \subseteq Registered \ LongNames
       /\ Cardinality(DOMAIN file.meant \cap WithoutId) <= 1
       /\ srd.ididr = EmptyMap
       => result' = "loaded"]_vars

\* While a load runs the id a pool had when it was dumped leads to the pool that has
\* been loaded from it.
IdsLeadHome ==
    [][msm_load /\ result' = "loaded" =>
         \A k \in Saved(file) : file.dets[k].id # NoId =>
             get_new_pool_pt(file.dets[k].id)' = file.sums[k].name]_vars

\* Pools hold no reference to the structure that holds their ids, and the program may put
\* all it has got while pools live: unless it puts more than that, each living pool is
\* found under its id in the structure of the process.
PoolsFound ==
    \A s \in Sources : poolid[s] # NoId =>
        srd # NoSrd /\ poolid[s] \in DOMAIN srd.poolidr /\ srd.poolidr[poolid[s]] = s

==============================================================================
