# TLA+ verification of leitner

`leitner` is a single-threaded C program (x86-64, built with `-O0 -g`) that
drills vocabulary with the Leitner method: "VSes" (a vocabulary in a sentence)
climb through six boxes as the user answers. Around it the repository keeps a
stack of memory and serialisation components for language data ("glue").

## 1. Inventory

| Component | Source | State | Operations | Hard behaviour | Module |
|---|---|---|---|---|---|
| Boxes and go-session | `vs.c`, `ltsys.c` (`cmd_go`, `cmd_load`) | `lt_boxes[]`, `*pug_cnt`, `firstwhile`, the C stack | `move_to_lbox`, `go_lbox_internal`, `go_lbox`, `cmd_load`, `cmd_go`, `sigh` | mutual recursion on shared boxes and on one count, CTRL-C by `siglongjmp`, termination of two loops | `LtBoxes`, `LtSession` |
| Meta file | `vs.c` (`ltsys_meta_init`), the stores of `move_to_lbox` and `cmd_load` | chains and counters in a `MAP_SHARED` mapping | walk of the chains at start, stores | the process killed between two stores | `LtMeta` |
| Vs file and index | `vs.c` (`ltsys_init`), `ltsys.c` (`cmd_mkidx`, `cmd_init`, `cmd_load`, `cmd_lsbox`) | three files, `itblk` | index, start, re-init, load | the text edited under an old index and an old meta file | `VsFiles` |
| Command loop | `main.c`, the signals of `cmd_go`, the reset of `cmd_init` | `i`, `fp`, the streams and pids of `struct ltsys`, signal actions | `setup_redirect`, `output_command_to_pids`, the commands, `restore_sanity` | state that outlives its line, processes that are waited for, handlers left behind | `Shell` |
| Tags | `ltsys.c` (`command_init`, `cmd_modify`), `main.c` (completion) | stage files, `tg_list`, `tag_list.mod`, the generators' statics | gather, new, write, empty, complete | memory, file and stage changed by different means with an editor in between | `Tags` |
| Memory pool | `mempool.c` | handles, chunks in one area | alloc, free, lock, release, slide, merge | moving chunks, handles running out | `MemPool` |
| Object pool | `objpool.c` | slabs, free lists, recent slab | alloc, free, ser, deser | free-list pointers patched on load | `ObjPool` |
| Variable-size pool, object vectors | `cvspool.c`, `objvec.c` | trunks of blocks of slots, nodes, cached trunk, static iterators | alloc, grow, free, merge, iterate, ids, ser, deser | guards read from memory the user writes, borders of blocks, statics shared by all pools | `CvsPool` |
| ID allocators | `idr.c` | layered radix tree, bitmaps, free layers | alloc, remove, find, ida | growing and shrinking layers | `Idr` |
| Mapped serialisation | `msm.c` | registry of sources, pool ids, reference count, the file | get, put, register, dump, load | an interrupted dump, ids of another process | `Msm` |
| Parser | `parser.c` | static brace count and line flags | parse a line | statics that survive an error | - |
| Glue | `glue*.c` | static tables | conversions | none | - |
| Bitmaps, rbtree, list, log, util, crc | taken over from Linux, or formatting | - | - | - | - |

(All sources are under `src/src/`.) The command loop calls the commands one after
the other, with their output redirected; `cmd_go` enters the recursion of `vs.c`,
which calls `cmd_load` back. All three write the boxes in memory and the meta file
together. The memory stack is layered: `msm` serialises object pools and cvs pools,
whose ids it keeps with `idr`; `idr` takes its layers from an object pool, `objvec`
its vectors from a cvs pool. The memory pool stands alone.

What makes each correct: boxes - every loaded VS in exactly one box, counters
that describe the lists, a session that keeps its books and comes back; meta file -
what a kill may cost and no more; vs file - a word stays in the box the user left it
in, whatever is edited around it; command loop - output goes where the line said and
the prompt comes back; tags - stage, memory and file agree; pools - no byte handed out
twice, contents and locks kept, free space found again, the same after a load; idr - an
id names one live object; msm - a load gives all that was dumped or says no.

## 2. Modules

### LtBoxes - what the boxes promise
`box[l]` is `lt_boxes[l].i_list`, `loaded` is `vs_cur_total`. `Load(n)` is
`cmd_load`, `Move(from, to)` is `move_to_lbox` with the places the answers can
send a VS. It is the abstract specification of the two modules below.

### LtSession - the go-session
The C stack is a sequence of frames, one for each active `go_lbox`,
`go_lbox_internal` and `move_to_lbox`, with the locals that outlive a nested
call and a place `at` to go on from. One action runs from a call, return or
question to the next: `GoEnter` (full next box first), `GoBox`, `GoStop`,
`GoMore` (box 1 down to `MIN_VIS_IN_LBOX0_TO_RELOAD`), `GoLoad`, `GoWhile`,
`GoCircle`, `GoNext` (the circles 01, 012, ...), `GoReturn`; `Answer`,
`InternalReturn`; `MakeWay`, `MoveReturn`. `CmdLoad`, `CmdGo`, `CmdExit`,
`Interrupt` (CTRL-C), `Eof` (CTRL-D) and `Restart` are the prompt and the
process. `pug` and `ugc` are `*pug_cnt` and `ugc_original`.

Abstractions: the three tries at a VS are one `Answer` with the value
`wrong_pos` gets; CTRL-C comes between two actions, never between two stores of
one (`LtMeta` has those); which words a VS has is left out; `MaxAsks` bounds the questions of a
session and nothing else.

### LtMeta - the meta file, store by store
The same moves and loads taken apart into the stores the code makes, in its
order, to the file (`first`, `cnt`, `busy`, `next`, `cur`) and to memory
(`list`, `level`). `Kill` may come between any two stores, and so may `Interrupt`, the
CTRL-C of a session, which leaves memory as it is to the next command; the two copies
of a counter and the pointers of one list operation count as one store. `Restart` is
`ltsys_meta_init`: it walks each chain for `vs_cnt + vs_busy_cnt` steps. A walk
that leaves `itblk`, a VS put on two lists, the head of a list that is empty against its
counter (`MoveAstray`, `LinkAstray`) makes the process `broken`, where the behaviour ends. `Garbage` is the word `container_of` reads in front of a
list head. A kill is the end of the process: the stores it has made are in the
page cache and stay (a crash of the machine, where the mapping may be written
in part, is not modelled).

### MemPool - chunks that move
One record `pool` has what `mem_pool_t` and the area have: `handles`, the headers
at their addresses (`chunks`), `last`, the two accounts and `bytes`, which says
where the program's contents are. The helpers follow the code: `Linked` is the
"stay on top of last chunk" that occurs five times, `Absorb` one half of
`merge_chunks`, `TakeEnd` both splits that carve a piece off the end, `TakeFront` the
one that leaves the rest for the next chunk. `TakeFront` is never needed:
`NoFreeNeighbours` says why. Each time round a loop is a step: `MergeLoop`,
`SlidePast`, `SlideMove`, `SlideEnd`. A split without an unused handle makes the pool
`corrupt`, where the behaviour ends: what the code does next reads headers that
were never written. A header is `Hdr` bytes and both guards are one field, since
they are always stored together. Locking a chunk stands for locking and filling it.
`num_allocs` and `num_slides` are left out, and so is a `nosplit` below zero, which `mempool.c:51` compares as a
`size_t` and does not raise to the size of a header.

### ObjPool - slabs, and their way through a file
An address is a pair of the place malloc gave a slab and an offset in it. The code
patches a pointer by the difference of two places: `Patched` moves an address of the
old place to the new one, leaves the null tail, and gives `Wild` for anything else. `AllocFromRecent`,
`AllocFromChain` and `AllocFromNew` are the three ways through `objpool_alloc`,
`objpool_free` follows the word behind the object. `objpool_ser` writes the chain with
the addresses it has; `objpool_deser_high` loads it into a pool just created,
malloc choosing any places, also the old ones in another order. `slab_idr` keeps
the number of the dump a context belongs to, in place of its address.

### Idr - ids in a radix tree
`idr` is `struct idr`. A layer is known by its place, height and number, and a pointer to
it is that place, so moving the top upwards (`Raised`) moves a place, and a `hint` that
outlives its layer leads nowhere. `slot` has what the leaves point to: pointers of the
program in an idr, bitmaps in an ida. One loop of the code is one `RECURSIVE` operator
over one step: `SearchOn` is one round of `sub_alloc` with its backtracking buffer `pa`,
`GoUp` and `GoDown` its two ways on; `Grown` builds layers on top, `Down` is the way down
of the three walks, which share it. An allocation, a removal, a walk is one action or
one operator: nothing comes between, the program is single-threaded. `held` is what
the program knows from the answers it got; the properties compare the tree with it,
and ask in every state what the next allocation, lookup or walk would answer.
`kept` is a set of ids that is there from the start (`Fill`), so that the few ids the program
then plays with (`MaxLive`) meet full layers. `taken` counts layers out of `idr_layer_cache`.

### Shell - lines, streams and signals
`pc` is where `main` is on the line under way; its values are the waits and calls
between which something else may happen. A stream is one open FILE with the process that
reads it and the shell popen has started, so it also stands for their pids. `i` and
`fp` are the globals of `main.c`, `pls` the fields `restore_sanity` works on. `ToFile`,
`ToPipe`, `ToStdpipe`, `ShellCommand` and `LetThrough` are the ends of `setup_redirect`;
`output_command_to_pids` finds a process by name in a listing of ps: the reader of any
stream, any other process of the terminal (`Other`), or none. `line` is a history variable: what
the line under way asks for, the stream it opened, and the one a line before left to it. The commands are
taken by what they do here: `RunInit` clears `struct ltsys` (`ltsys_deinit`), `RunGo`,
`GoEnds` and `Signal` are the signal actions of `cmd_go`. `restore_sanity` is
`CloseStdpipe`, `ClosePipe`, `WaitPipe`, `WaitShell`, `CloseFile`. `killed` and `wild` (a
jump into a frame that has returned) are bad ends, from which only `Start` leads on.

### CvsPool - trunks, nodes and guards
A trunk is its node headers (`heads`) and the words that look like the tail of a free
node (`tails`): `cvsp_free` reads the word in front of a node and cannot know who wrote it,
so `Filled` says what the user of a node leaves of such words, and a header written over
them erases them (`TailsWithout`). What the last word of a busy node holds, and what lies behind the memory of
a trunk, no state of the pool tells: there `Astray` has both outcomes (`BehindBusy`, `AtTheEnd`). `Split`, `MergeBoth`,
`MergePrev`, `MergeNext` and `AtEnd` are the ways through `cvsp_alloc` and `cvsp_free`,
with a 16-bit offset that stays in its block (`Shifted`, `Len16`). `objvec.c` is the
program that uses the pool: `objv_alloc`, `objv_realloc`, `objv_free`, and its dump and
load. A request ends in a node, in NULL, in the assertion that no node is longer than a block
(`cvspool.c:302`), or in another round of the loop at `RESCAN`, which `Rescan` follows trunk by
trunk (`Outcomes`). A NULL ends a vector's allocation; in `objv_realloc` nothing looks at it: `adjust_fn`
writes through it, or without one the old objects are freed and the process goes on. Where the code takes the wrong trunk, misreads a word or merges over the border of a
block, the pool is `strayed` and the model says nothing more of it; `CvsPoolSound` says it
is sound until then.

### Msm - a dump, store by store
`srd` is `only_srd` with its sources and its two maps of ids (which are what `Idr` shows
of an idr). A dump is an action for each store another process can find missing
(`msm_dump`, `DumpExtend`, `DumpHead`, `DumpSummary`, `DumpCount`, `DumpDetail`, `DumpOffset`);
`Kill` may come anywhere, and the open and the mapping may fail. `msm_put` may come whenever there is a structure,
also when the program holds no reference any more; that one frees the structure, and the pools
the program still has are then followed no further (`poolid` forgets them). The pool of a source is
a number, its contents, and its detail is as long. `file.meant` is a history variable: what
the dump was to save.

### Tags - stage, memory and tag list
`stage` has the lines of each stage file, `tg_list` the list with its head first, `tagfile`
`tag_list.mod`. `command_init` takes the entries of a directory in any order; `Edit` is the
shell command that truncates the file before the editor starts, `NewDone` and `WriteDone`
what follows when the editor has ended; `Leave` may kill it half-way. `Within` is the
relation sed's patterns match by. `completing` is a completion under way: `command_generator`
and `cmd_modify_n_generator` are called by readline until they return NULL. `unbooked` is
a history variable, the objects the file may miss, by the ways `MissesOnlyUnbooked` names.

### VsFiles - the text under its index
`text` is the vs file as lines of words and comments, `idx` the offsets `cmd_mkidx` made,
`boxes` and `vs_cur_total` the meta file, `itblk` the items by line number. `Item` is what
an offset leads to in the text as it is now: a whole VS, the end of one, or what malloc
left (`Junk`). `InsertLine`, `RemoveLine` and `RemoveIndex` are the user between (and
during) runs; `Start` is the program with and without `-i`. `home` is a history variable,
where the user has each word; `disturbed` becomes true at the edits, starts and loads after which
the three files no longer belong together, none of which the code ever notices. `cmd_mkidx` has three
outcomes: the index, an index killed half-way (`KillIndexing`: the first entries are new, the count
is the old one), and with more VSes than `DEF_VS_NUM` stores behind the end of the file (`Overruns`), which are taken
for the end of the program, whatever they hit. An offset that leads to a '=' makes a VS without a
word, for which `replace_str2` searches for ever ("hangs"). `LoseInHand` is the kill, or CTRL-C, that
costs a VS; what other stores of a move or a load leave behind is in `LtMeta`, whose text does not change.

## 3. Runs

| Run | Shows |
|---|---|
| `session_small` | all safety properties of the session, that it implements `LtBoxes`, and that without a number it always gets to a question or to the prompt |
| `session_real` | the table the program is built with, 18 VSes, a user who is always right: the session ends, and only with everything learnt |
| `session_hang` (violation) | "go 4" can loop for ever in `move_to_lbox` |
| `meta_kills` | two kills or CTRL-C anywhere: what they can cost, and where; until the first one the stores implement `LtBoxes` |
| `mempool_core` | no overlap, contents, accounts, locks, handles, refusals and the end of every call, in a pool for three chunks |
| `objpool_core` | free lists, counters, chain, numbers and growth through alloc, free, dump and load |
| `idr` | the least free id, lookups with the hint, walks, full bits, layers, reserved layers, after any calls on an idr or an ida |
| `shell` | where output goes, which streams are lost and how, which handlers a session leaves, and that, if sessions and readers end, every line gets back to the prompt unless it waits in vain in one of three ways |
| `cvspool` | the pool and its vectors through every split, merge, growth, dump and load; what the walk visits; that a pool which grows for a request it has no room for grows for ever |
| `msm` | a load gives all or nothing at whatever store the dump was killed; complete dumps load; ids lead to the pools loaded; every living pool is found under its id, over all gets and puts up to one too many |
| `tags` | stage, list and file agree between commands; what the file may miss; completion |
| `vsfiles` | words keep their box through every edit, start and load but those that disturb the files, wild pointers and endless searches come of nothing else, and how short a program at its prompt can be of what it has loaded |

Several properties are conjunctions of parts with a name and a comment each:
`QuestionsAccounted` (the count and the report of a session), `CountsDescribeLists` (with
the types of the meta file), `HurtsOnlyInWindow` (a walk finds the boxes, bystanders are
intact, a broken file comes of the window), `PoolSound` (types, tiling, accounts, free
neighbours, handles), `ObjPoolExact` (types, free lists, counters, numbers), `Allocates`,
`Finds` and `TreeSound` of `Idr`, `WritesWhereTold` (with the types), `CvsPoolSound`
(free space, held nodes), `StageIsListed` (agreement, what may be missing).

Bounds. `session_small` has four boxes, the smallest number with a box (1) that
has a limited box on both sides and a last one without limit; the limits 1, 3, 2
are below the four VSes in number, so box 0 is full and has busy VSes, and box 1
and 2 fill and make way. Five questions are enough to fill box 1 and to
nest two rounds of making way. `session_real` uses the real table because its
quotas decide whether a circle empties a box. `meta_kills` has three boxes of
limit 1, so every box below the last gets busy VSes, and two kills or interruptions, so that
a file or a memory left by one meets another. `mempool_core` has an area of 16 bytes with headers of 2 and
requests of 0, 1, 3 and 4: fragments are used as they are with and without waste and
are split, slides merge before, behind and into the chunk of handle 0, and locked
chunks stand in the way. `objpool_core` has two objects in a slab, enough for a free
list in either order, and three places, so that the chain has a middle and a slab
is loaded where it was, where another was, or where none was. The places are
symmetric: malloc may choose any of them, and no code compares addresses.
`MaxDumps` bounds the dumps of one pool: the second one goes wrong (section 4), so
one is what can be relied upon.
`idr` has layers of four entries and ids of five bits, the smallest with an incomplete last
layer (of three) and with a search that goes up more than one layer; the kept ids are none, one full
layer, and all but the ends of four; two more are enough to fill those ends and be on
the other side. Bitmaps of an ida have three bits, so that the last one is cut off by
the last id. The ranges begin at 0, within a bitmap, at the edge of a layer and at the last
id; `MaxLost` bounds the trees of full height that are destroyed.

`shell` has two streams: one that is held and one that is lost, or that a later line
opens while the first still has its processes. A line is begun only while a number
is free, which is the bound; a number is free again when nothing refers to it (`Forget`).
The commands stand for all of them by what they do to this state.
`cvspool` has blocks of nine slots, three nodes of the smallest size, and the head of the list
takes three of the first block. The vectors need three, three, four, five and ten slots: the last
is longer than a block, two lengths share a node, so one can grow within it, and four and five are two and one short of
what the first block has, where no remainder fits. A trunk has two blocks, so nodes meet over a border, and two
trunks are at two places, so that the one `get_trunk` believes to be longest overlaps the
other, and a pool of one trunk grows to two, or is created with two. The loop of a request
without room goes on to one trunk more than `MaxTrunks`: the first round that adds one, and one that
looks at it in vain.
`msm` has two of five sources at a time: two that go by the book, one whose name fills
its field, and two whose pools have no id; details of one and two units, so that an
offset that is one off meets another detail; two references, so that a put meets a count of two, one
and none. Sources of a kind are symmetric: the code compares their names with each other only.
`tags` has the names a, ab, ba - one begins with another, and one has another within
without beginning with it - of one or two lines and at most three tags, so that a name can
have two. `vsfiles` has three words and comments in at most four lines, two boxes and a
box 0 that holds two, so that the box and the text each bound a load; the words are
symmetric. The index has room for two (`DEF_VS_NUM` is 1280), so a text of three runs over its end.
VSes of four bytes, two of them the word, and comments of one let an old offset fall on the beginning
of another VS, into its word, on its '=' and behind it, on a comment, and behind the text. One kill
loses a VS, which is enough for a list that no longer has the last number that was loaded.

Fairness. `WF(Run)` of the session: the process runs on unless it waits for the user; nothing
else can stop a single-threaded program. `session_real` assumes a user who
answers (`WF(Answer)`), without which no session ends. CTRL-C, CTRL-D and
answers are never assumed in `session_small` and `session_hang`. `WF(Inside)` in `MemPool` is the
same: a call that is under way runs on. In `Shell` the program goes on by itself but for a session
(`go` may loop for ever, as `session_hang` shows) and for a foreign process it waits for; and a shell
whose command has ended ends too. That a session ends and that a reader ends is not fairness but
the hypothesis of `BackToPrompt` (`SessionsEnd`, `ReadersEnd`): less with the options of `main.c:31-38` stays until its user leaves
it, unless all fits on one screen, and it is its user who may not. Nothing is assumed of a process the program does not feed,
and nothing of the user who types the next line.

CHECK_DEADLOCK is FALSE in one run: in `meta_kills` a broken process stops, and once
everything is learnt and the kills are used up nothing is left to do.

## 4. What the models show of the code

One finding has a run: `vs.c:102` - with the number used up `go_lbox_internal` gets a quota
of 0, asks nothing, and the loop that makes way never ends (`session_hang`).

The rest are behaviours the models have because the code has them. The properties state
what holds around them, and where a property has an exception, this is it.

Session and boxes
* `vs.c:208` against `ltsys.c:67`: a question accounted for in `move_to_lbox` may take
  `*pug_cnt` to 0 without ending the loop, which goes on below 0: "go 4" asks a fifth.
* `vs.c:152` (`Eof`): CTRL-D exits the process, where the help of `go` promises the end of
  the session (`ltsys.c:66`).
* A kill costs one VS outside of `KillWindow`, which nothing brings back, and a broken
  file inside of it; CTRL-C between two stores costs the same, and more in `CtrlCWindow`: a
  VS that is on a list but not counted, or that believes to be in its old box, or a load that
  draws a VS a second time (`LostOnePerKill`, `HurtsOnlyInWindow`). Each store named in the
  two windows is needed there: without it TLC finds a property violated.

Files (`VsFiles`)
* The index is made only with `-i`; a text edited afterwards is read by the old offsets,
  and nothing compares them (`disturbed`). A program that starts on a shorter text may read
  behind it; a comment in front shifts every offset; an offset on a '=' makes `replace_str2`
  look for "" for ever (`vs.c:292`, `:455`).
* `ltsys.c:331-353`: a text of more than `DEF_VS_NUM` VSes is indexed over the end of the mapping. An
  `mkidx` killed before it stores the count leaves the old count over new offsets, or 0.
* `ltsys.c:175`: when the last VS that was loaded was lost to a kill, its line is cut and the text
  is indexed again, no list leads behind `itblk`, the program comes to its prompt and
  `vs_total - vs_cur_total` wraps. `NeverLoadedPast` says that it takes a lost VS for each one it is short of.
* `cmd_init` of the vs file at hand: `cmd_mkidx` says that it is the current one and
  leaves the old index.
* The command `mkidx` passes its vector of arguments for a name (`ltsys.c:308`), finds no
  such file, and ends the process.

Command loop (`Shell`)
* `ltsys.c:230`: both ways out of `cmd_go` give the old action of SIGINT to SIGTERM;
  CTRL-C at the prompt after a session that ended by itself jumps into a frame that has
  returned (`HandlersLeftBehind` says exactly when).
* A line whose command is unknown is redirected, but nothing is put back (`main.c:610`);
  a line that begins with its redirection runs the command of the line before.
* "init" clears the whole of `struct ltsys`, with the stream its own output goes to and
  with `my_tty` (`LosesOnlyThere`).
* `restore_sanity` waits for the program itself when the shell has become the command,
  whose parent the program is, for the reader of a stream that is lost, or for a process of the terminal
  that only has the name of the command (`WaitsInVain`).
* A reader that quits early kills the program by SIGPIPE (`WriteToNobody`).

Tags (`Tags`)
* `tag_list.mod` is truncated at every start, and its first line is written only if the first
  entry readdir returns is a stage file, since sed appends nothing to an empty file.
* sed changes or deletes every line in which the name occurs (`Overwritten`).
* The tag of an emptied object stays in memory; "n" overwrites the stage file of that name
  and adds a second tag; an editor killed half-way leaves an empty stage file.
* A stage file without ".ltd" ends the process (not modelled).

Memory pool (`MemPool`)
* `mempool.c:431`: a fragment is split without looking whether a handle is left. A program
  that holds more chunks than it said turns handle 0 into its piece (`corrupt`).
* `mempool.c:508`: a merged fragment must hold a header more than is needed, or the request
  is refused; `RefusesRightly` allows for it.

Object pool (`ObjPool`)
* `objpool.c:261`: the dump reads `recent_slab`, which is NULL until a search has found a slab.
* `objpool.c:246`: a second dump finds the contexts of the first under its ids, since
  `idr_alloc` of a taken id fails unnoticed.

Variable-size pool and vectors (`CvsPool`)
* `cvspool.c:529-553`: two free nodes are merged also over the border of a block, where the
  length and the links no longer fit ("crossed").
* `cvspool.c:520-524`: a word the user or malloc wrote, or an old one nobody wrote over, is taken for the
  tail of a free node ("misread"); behind the last node the guard is read outside of the memory of the
  trunk ("behind", `cvspool.c:515`).
* `cvspool.c:383`: `get_trunk` takes every trunk for one of the largest size and may find
  the wrong one ("misfound").
* `cvspool.c:332-335`: a pool that may grow adds trunks for ever for a request no new trunk
  has room for: once one is added in vain no other helps (`HangsForGood`).
* `objvec.c:79-86`: a NULL of `cvsp_alloc` is not looked at; `objv_realloc` without an `adjust_fn` frees the old
  objects all the same and returns NULL.
* `cvspool.c:458`, `:484`: the walk ends a head too early, and walks the first trunk once for
  each trunk (`EachBusyNodeOnce` is stated for one trunk).
* `cvspool.c:616`: the static of `prev_trunk` stays on the first trunk after a load that
  added none; the next load in the process goes on behind it (`LoadBehindFirst`).
* `objvec.c:76`: a vector that grows within the slots of its node fails an assertion
  (`GrowsInsideNode`).

Mapped serialisation (`Msm`)
* The old file is lost when the new one is opened; an extended file without a count loads
  as one with no sources, and an empty one fails.
* A structure that has loaded is never dumped again; a second load in one process, or two
  pools without ids in one file, meets a slot of `ididr` that is taken, and asserts.
* A name that fills its field, or one the process has not registered, is looked up in vain,
  and what `find_dsn_by_name` then returns is no source.
* The count is tested before it is taken down (`msm.c:381`): a put too many frees the structure with the ids of the pools
  that live. Destroying one of those makes a new structure and takes an id from that (`cvspool.c:273-279`).

ID allocators (`Idr`)
* `idr_destroy` of a tree of `MAX_IDR_LEVEL` layers does not give its top back
  (`idr.c:654`), where `idr.c:665` promises to "release all cached layers"; `TreeSound`
  counts it as `lost`, and no id of this program is large enough to meet it.

## 5. Proofs

41 theorems in eight modules, one for each component that is proved about and one for the
two command modules (`Shell` and `Tags`), checked with
SMT (Z3), Zenon and LS4. They hold for every value of the constants that the named
assumption of the component's module allows; TLC evaluates these assumptions in every run.
What a component needs beyond that is said below. An invariant a run checks
is seldom inductive; each part below names the one that is, and what had to be added.

**`LtSessionProofs`**: first of the abstract boxes `BoxesHoldEachOnce`:
`BoxesSpec => [](BoxesTypeOK /\ EachOnce)` for every number of boxes and every vs file, from
`BoxesAssumption` (at least two boxes, a number of VSes). That invariant is inductive as it
stands. The argument follows each place of a box after a step back to the place its VS had
before: `Shifted` and `Extended` describe a move and a load place by place (`HeadTail`,
`AppendAt`, `ConcatAt`); `ShiftedPlaces` and `ShiftedInjective` give `NoDuplicate` and
`OnlyLoaded`, `ShiftedCovers` gives `AllLoaded`.

Then, for every number of boxes, limits and vs file, and for any `MaxAsks`,
`SessionKeepsTypes`, `SessionKeepsCounts` (`CountsAgree`), `SessionImplementsBoxes`
(`SessionSpec => BoxesSpec`), from it `SessionHoldsEachOnce`, and on top
`SessionAccountsForQuestions`, `SessionRelievesFull` and `SessionComesBackDone`. Three layers:

* `SessionInv == DataOK /\ StackOK /\ NumbersOK`. The counters alone are not inductive: an
  answer moves the head of a list, which is there only because `vs_cnt` was positive
  when the frame that asks was on top, and a move needs a target box, which exists
  only because no frame asks the last box. `StackOK` says so: each frame on
  the C stack is of one of three kinds (`GoFrames`, `InternalFrames`, `MoveFrames`),
  whose levels are those of `Asked`, the boxes below the last. The lemmas
  go from the data (`LoadKeepsData`, `MoveKeepsData`) and the stack (`CallTyped`,
  `ContinueTyped`, `GotoTyped`) to the groups of actions (`AtThePrompt`, `Answered`,
  `Returns`, `MakesWay`, `GoesOn`, `Loads`), which `StepInv` puts together; each of
  these also shows that the step is one of `LtBoxes` or leaves the boxes alone, so
  one case analysis serves the invariant and the refinement.
* `Accounted == TalliesOK /\ RelievesOK`. What has been asked is spread over the
  locals of the active frames, `*pug_cnt` and `ugc_original`, and the nested calls hand it
  on by return values. A *tally* is a sequence `t` as long as the stack in which
  `t[p]` is the count of frame `p` on top of `t[p + 1]` and `t[1]` is what was asked: each call
  extends it and each return folds its last two entries, so every question is counted once.
  `RelievesOK` says that until a session is cut a full box above box 0 has a frame of
  `move_to_lbox` that makes way in it, and that the frames which wait on others
  (`Patient`) are at the place the loop of the code resumes at.
* `Learning`, for `ComesBackDone`. The stack has layers (`Layered`): the calls of `go_lbox` for box 0,
  all of which but the topmost wait for another of them, after a load or in the circles
  (`Waits`), and above these the calls for other boxes, which load nothing (`Aside`). So
  when a call for box 0 comes to load it is on top, and `RoomOK` says that it has moved
  a VS out of box 0 before: a load of nothing then means that nothing is left
  (`NothingLeft`). `CirclesOK` says what the global `firstwhile` means with all the nested
  calls that share it: it is set only while one of them is in the circles, or once the user's number is reached
  and they all come back one by one (`Unwinds`). Hence the outermost call, which is in no
  circle when it returns, has seen every VS in the last box.

  The theorem has one hypothesis, `KnowsAll`: no answer sends a VS back (one that is
  wrong at the last try only does not), and `num_per_load` is not 0. It is what
  `session_real` assumes of its user; the number given to `go` may be any. Without it the
  invariant is not kept, since wrong answers fill box 0 and a full box 0 makes
  `cmd_load` draw nothing; and for some tables the property itself fails:
  with two boxes asked for, limits 1 and 2, quotas 1 and 2 (PUSH), 0 and 1 (CLEAN), 1 and 1 (MAKEWAY),
  `ReloadMin` 2 and `num_per_load` 1, TLC finds a session over four VSes that comes
  back with three of them loaded and learnt. Of wrong answers under the table of
  the program nothing is proved or checked.

**`LtMetaProofs`**: for any boxes, limits, vs file and numbers of kills and interrupts
`MetaCountsDescribeLists`, `MetaHurtsOnlyInWindow`, `MetaLostOnePerKill`, `MetaLostForGood` and
`MetaImplementsBoxes`. `MetaInv == Typed /\ UpFits /\ DownFits /\ (broken => fatal)`.
`ListsFit` says for each control place `at` between two stores what the two counters, the two
chain ends and the place of the VS in hand then are: it is the table a reader of
`move_to_lbox` would draw beside its stores. `UpFits` is that table while the process lives, `DownFits` what a
kill at a place leaves for the walks: from it `Found`, the lists the walks return, is
shown to be the lists that were there but for the VS in hand. `MetaLostForGood` compares what is out of
reach of the lists in memory with what is out of reach of the chains in the file, over the kill and over the
restart that rebuilds the one from the other. `MetaLostOnePerKill` compares
`Cardinality(Lost)` with the kills and interrupts so far; the refinement lemma `StepIsBoxes`
maps each store to a move, a load or a stutter of `LtBoxes` by way of `InFile`, the boxes
as the file has them.

**`CommandProofs`**, of `Shell`: for every number of streams `ShellWritesWhereTold`,
`ShellHandlersLeftBehind` and the action property `ShellLosesOnlyThere`.
`ShellInv == ProgramTypeOK /\ FpIsHeld /\ PlsOK /\ HandlersOK`, and beside it `LineTypeOK /\ LineOK`, which follow the
line under way: `LineOK` ties `fp` to the stream the line has opened, from `setup_redirect` to
`restore_sanity`, and to what a line of an unknown command has left to the next. `PlsOK` says at which `pc`
and on which lines `struct ltsys` has a pipe or a stdpipe, `HandlersOK` relates the saved signal action and
the handler in place to how the sessions ended, during a session the last but one as well.

**`MsmProofs`**: for any finite set of sources `MsmLoadsAllOrNothing`, `MsmLoadsBack`, `MsmIdsLeadHome`
as action properties and `MsmPoolsFound`. `MsmInv == RootOK /\ FileOK /\ DumpOK`:
`DumpOK` says how far (`Progress`) a dump under way has got and that what it has written so far
fits what it is still to write (`Follows`); a kill turns this into `FileOK`.

**`VsFilesProofs`**: for any words, limits and text `VsNeverLoadedPast`, `VsWildOnlyDisturbed` and
`VsKeepsHome`. `VsInv`: the boxes hold numbers below `vs_cur_total`, and those that are missing are no
more than the kills (`LossesOK`); at the prompt each number held has an item, so what the items are short of
is missing from the boxes. While the files are
undisturbed an index of the text, or of the text before lines were inserted, leads to the
n-th word (the relation `Has`), and that word's home is the box of n.

**`CommandProofs`**, of `Tags`: for any names, patterns and orders of a directory `TagsStageIsListed` and
`TagsCompletesRight`. `TagsInv == TagsTyped /\ AgreeInv /\ CompletingInv`. The list puts
a new tag in front and the file behind, so the invariant relates the *first* tag of an
object in the list to the *last* line of it in the file; an object that is missing from the
file is in `unbooked`. For the generators, the names returned are those that fit and rank below
the place kept in the static variable.

**`MemPoolProofs`**: for a pool of any size, any requests and any sequence of calls
`PoolTiled`, `PoolAccounts`, `PoolContentsSurvive`, `PoolNoFreeNeighbours`,
`PoolRefusesRightly` and the action property `PoolLockedStay`; for programs that hold no more
chunks than they said (`MaxLive <= Chunks`, which is what the argument `chunks` of `init_mem_pool` says)
also `PoolHandlesSuffice` and with it `PoolIsSound`, all of `PoolSound`. `PoolInv` has

* `SoundPool`: the chain of chunks as the headers have it, both ways, with headers and handles
  one to one and no chunk reaching into one behind it. Tiling follows from it;
* `Kept`: contents are in their chunk, `Accounted`: the two accounts are the sums over the free
  and the held chunks, each split and merge paying or gaining one header;
* `MergeInv`: the only free neighbours are the two beside the chunk the merge loop works on
  (`FreeBeside`); `SlideInv`: no chunk behind the slider could have moved, and no free chunk
  would do; `Refused`, what is left of it when the slider has seen every chunk;
* `RestOK`, the types of the rest (the bounds of sizes and accounts follow, `Bounded`).

Each helper of the model (`Absorb`, `TakeEnd`, `Swapped`, ...) has one lemma saying that it
`Carries` these from the pool before to the pool after; `StepHolds` has a step for each action and gives the
invariant and `LockedStay` together. `TakeFront` turns out never to be taken. That handles suffice
is an injection: without free neighbours each free chunk but the one at 0 has a held
one in front of it. Sums are over finite sets, taken apart by expanding `MapThenSumSet`.

**`ObjPoolProofs`**: for any number of objects in a slab, any places malloc may choose and any number
of dumps `ObjPoolIsExact`, all of `ObjPoolExact`, and the action property
`ObjPoolGrowsOnlyWhenFull`. `ObjPoolInv` names what the code only follows: there is a sequence `c`
of the slabs, and for each slab a sequence `l` of its free objects, with

* `ChainOK`: no slab twice, `slab_head` and each `next` lead from one place of `c` to the
  following, the ids count down to 0, the recent slab is one of them;
* `ListOK`: no object twice, `l` has exactly the objects of the slab that are not given out, the head
  and each word behind a free object lead to the following;
* `CountsOK`: the counters are the lengths, every object given out is in a slab of the chain.

`Sound(p, sl, fp, h, c)` says this of any memory and not only of the variables, so that `FileOK` can
say it of the memory a file was dumped from; a load is then a lemma about two memories
(`LoadedSound`): each slab at its new place has the old list with its addresses moved
(`MovedSound`), and as many objects are given out, by a bijection (`MovedHeld`). Taking, putting
back and growing change the front of one sequence (`TakeSound`, `PutSound`, `GrowSound`). That the
walks of the model, `Chain` and `FreeList`, find these sequences is `ChainFound` and `ListFound`.
A pool grows only when each list is empty, and then the product of slabs and places counts
what is given out (`NoRoom`). The assumption asks of the addresses only that NULL and a wild one are not
in a slab.

**`CvsPoolProofs`**: for blocks of any size from six slots, trunks of any number of blocks, any vectors
and any places malloc may choose `CvsPoolIsSound`, all of `CvsPoolSound`, `WalkFindsHeld`
(`EachBusyNodeOnce`) and `HangsForever` (`HangsForGood`). They need
`SlotsAssumption` besides `CvsPoolAssumption`: `slots_num_adjust` moves the border of the last
trunk once for every trunk in front of it, and the assumption says that a pool has not so many
trunks that this comes to more than a block. Slots are asked for in 32 bits and a trunk has
2^20, so the code is far from it. Three layers:

* `Body` is what a trunk is, said of its headers `H` and words `T` alone: nodes tile it (`Tiled`), a sequence
  `c` is the free list both ways (`Ring`) and has exactly the free nodes, free nodes lie in one
  block, say so with their last word and have no free neighbour in it (`Marked`), and the slots in use
  are the sum over the busy nodes. `AllocationKeepsTrunk` and `FreeingKeepsTrunk` carry this
  over a node taken whole, a split, and each of the four ways of a release; what the user writes
  into a node can only take words away (`TailsKept`). A new trunk has it: `Starts` never leaves a last block
  too short for a node, since `slots_num_adjust` saw to that (`SizeOk`, `AdjustedIs`).
* `PoolOK` is a sequence of trunks: the last `q + 1` were created, with sizes that follow from
  `q` and `z` (`TotalOf`), the ones in front were added; `IdAt` gives the numbers. Slots, slots in use and the
  nodes held are sums and unions along the sequence. `CvsPoolInv` (`PoolIsKept`) is that there
  are such `q` and `z`, until the pool is led astray. `AdjustedStays` is the point of a load: a
  pool created for the slots a dump reports has the trunks the dumped one was created with.
* On top, `WalkedAre` finds each node by the number of nodes in front of it. `HangInv` is the invariant of the loop at
  `RESCAN`: no trunk serves the request, and the first of the list is as it was made (`Barren`); a trunk
  added like that one does not serve it either (`AddedIsBarren`).

The proof corrected the model twice: a request longer than a block in a trunk longer than that fails the
assertion, which the model had as NULL or a hang, and a load in the same process did not ask that the pool
was still running.

Where an argument is by induction (a chain, a walk, a sum), it is put as the least counterexample
(`LeastOf`, `Smallest`): the induction theorems of the library take an operator, which the
provers at hand cannot instantiate.

Only model-checked:

* everything under fairness (`SessionEnds`, `GetsBackWithoutNumber`, `CallsReturn`,
  `BackToPrompt`), which the prover does not reach;
* `Idr`, whose loops are `RECURSIVE` operators.

## 6. Plan

CTRL-C inside of a list operation, and between the two copies of a counter.

## 7. Not modelled

The parser: nothing in the program calls it but its own tests. `bitmap.c` and `rbtree.c`: taken over
from Linux; what `idr.c` uses of bitmaps is in `Idr` as operators on sets, and nothing uses the
tree. `list.h`: a list is a sequence in the models. The tables of `glue*.c`, formatting,
colours, logging, CRC, the words themselves, the shell tools in `bin/`, the tests. Memory that
malloc refuses. A crash of the machine, where a mapping may be written in part. Each component
of `PROJECT.json` says what is left out of it.
