-------------------------------- MODULE Tags --------------------------------
(***************************************************************************)
(* The tags of objects that are written but not committed (ltsys.c): the   *)
(* files of ../conf/stage, the list of tags in memory that command_init    *)
(* gathers from them and cmd_modify works on, and the tag list file, which *)
(* the program edits with sed.  The user's editor runs for as long as it   *)
(* likes; the program may be killed meanwhile.                             *)
(***************************************************************************)
EXTENDS Integers, Sequences, FiniteSets, SequencesExt

CONSTANTS
    TagNames,   \* names of tags
    Within,     \* <<p, n>>: the pattern p occurs in the name n
    Begins,     \* <<p, n>>: the name n begins with the text p
    Cmds,       \* the names of the commands, in the order of the table
    MaxLines,   \* bound: lines of an object
    MaxTags     \* bound: tags in memory

ASSUME TagsAssumption ==
    /\ IsFiniteSet(TagNames)
    /\ \A t \in TagNames : <<t, t>> \in Within /\ <<t, t>> \in Begins
    /\ Begins \subseteq Within /\ Within \subseteq TagNames \X TagNames
    /\ Cmds \in Seq(TagNames)
    /\ MaxLines \in Nat \ {0} /\ MaxTags \in Nat \ {0}

VARIABLES
    stage,      \* the lines of <tag>.ltd, or NoFile
    tg_list,    \* the tags in memory, the head of the list first
    tagfile,    \* the lines of tag_list.mod
    running,    \* the program is up
    editing,    \* the object in the editor and the branch of cmd_modify that waits
    completing, \* a completion under way: what of, its text, where the
                \* static place is, what was returned
    unbooked    \* history: tags the tag list file does not show, by the ways named below

tagVars == <<stage, tg_list, tagfile, running, editing, completing, unbooked>>

NoFile == -1
NotEditing == [how |-> "none"]
Nothing == [how |-> "none"]

\* The elements of s whose places are in S, in their order.
Those(s, S) ==
    [n \in 1 .. Cardinality(S) |-> s[CHOOSE k \in S : Cardinality({j \in S : j <= k}) = n]]

Tag(t, n) == [name |-> t, lines |-> n]
Staged == {t \in TagNames : stage[t] # NoFile}
Names(list) == {list[k].name : k \in DOMAIN list}
FirstOf(list, t) == SelectInSeq(list, LAMBDA tag : tag.name = t)
LastOf(list, t) == SelectLastInSeq(list, LAMBDA tag : tag.name = t)
AtPrompt == running /\ editing = NotEditing /\ completing = Nothing

------------------------------------------------------------------------------
(* command_init *)

Orders(S) == {s \in [1 .. Cardinality(S) -> S] : IsInjective(s)}

\* The tag list file is truncated before it is read, so nothing is booked. readdir
\* returns the stage files, ".", ".." and tag_list.mod in any order. The first entry
\* alone may start the file: sed appends nothing to an empty one.
Gathered(order) == [k \in DOMAIN order |-> Tag(order[k], stage[order[k]])]
Booked(order, first) == IF first THEN Gathered(order) ELSE <<>>

command_init ==
    /\ ~running /\ running' = TRUE
    /\ \E order \in Orders(Staged), first \in BOOLEAN :
        /\ tg_list' = Reverse(Gathered(order))
        /\ tagfile' = Booked(order, first)
        /\ unbooked' = IF first THEN {} ELSE Staged
    /\ UNCHANGED <<stage, editing, completing>>

\* The program ends or is killed, in the editor perhaps; the shell has emptied the file.
Leave ==
    /\ running /\ running' = FALSE
    /\ tg_list' = <<>> /\ editing' = NotEditing /\ completing' = Nothing
    /\ UNCHANGED <<stage, tagfile, unbooked>>

\* Between two runs objects come from elsewhere and are taken away.
Exported(t, n) ==
    /\ ~running /\ stage' = [stage EXCEPT ![t] = n]
    /\ UNCHANGED <<tg_list, tagfile, running, editing, completing, unbooked>>

------------------------------------------------------------------------------
(* cmd_modify *)

\* Its shell command opens the stage file for writing before the editor starts.
Edit(how, t) ==
    /\ AtPrompt
    /\ editing' = [how |-> how, tag |-> t]
    /\ stage' = [stage EXCEPT ![t] = 0]
    /\ UNCHANGED <<tg_list, tagfile, running, completing, unbooked>>

ModifyNew(t) == Edit("new", t)
ModifyWrite(t) == Edit(IF t \in Names(tg_list) THEN "write" ELSE "new", t)

Emptied(t) == stage' = [stage EXCEPT ![t] = NoFile]

\* list_add puts a tag at the head, even if there is one with its name.
Added(t, n) == <<Tag(t, n)>> \o tg_list

\* echo > into an empty file, sed '$a' on any other.
Appended(line) == Append(tagfile, line)

NewDone(n) ==
    /\ running /\ editing.how = "new"
    /\ \/ /\ n = 0 /\ Emptied(editing.tag)
          /\ UNCHANGED <<tg_list, tagfile, unbooked>>
       \/ /\ n > 0 /\ Len(tg_list) < MaxTags
          /\ stage' = [stage EXCEPT ![editing.tag] = n]
          /\ tg_list' = Added(editing.tag, n)
          /\ tagfile' = Appended(Tag(editing.tag, n))
          /\ unbooked' = unbooked \ {editing.tag}
    /\ editing' = NotEditing
    /\ UNCHANGED <<running, completing>>

\* sed '/tag/d' and sed '/tag/c': every line in which the name occurs.
Deleted(t) == Those(tagfile, {k \in DOMAIN tagfile : <<t, tagfile[k].name>> \notin Within})
\* Mutant: the first of them only.
ChangedFirst(t, n) ==
    [k \in DOMAIN tagfile |->
        IF k = SelectInSeq(tagfile, LAMBDA line : <<t, line.name>> \in Within)
        THEN Tag(t, n) ELSE tagfile[k]]
Changed(t, n) ==
    [k \in DOMAIN tagfile |->
        IF <<t, tagfile[k].name>> \in Within THEN Tag(t, n) ELSE tagfile[k]]

Overwritten(t) == {u \in TagNames \ {t} : <<t, u>> \in Within}

\* The tag of an object that was emptied stays in memory.
WriteDone(n) ==
    /\ running /\ editing.how = "write"
    /\ \/ /\ n = 0 /\ Emptied(editing.tag)
          /\ tagfile' = Deleted(editing.tag)
          /\ UNCHANGED tg_list
       \/ /\ n > 0
          /\ stage' = [stage EXCEPT ![editing.tag] = n]
          /\ tg_list' = [tg_list EXCEPT ![FirstOf(tg_list, editing.tag)].lines = n]
          /\ tagfile' = Changed(editing.tag, n)
    /\ unbooked' = unbooked \cup Overwritten(editing.tag)
                            \cup (IF n = 0 THEN {editing.tag} ELSE {})
    /\ editing' = NotEditing
    /\ UNCHANGED <<running, completing>>

------------------------------------------------------------------------------
(* The generators of the completion, which readline calls until they return NULL *)

Offered(of) == IF of = "command" THEN Cmds ELSE [k \in DOMAIN tg_list |-> tg_list[k].name]

\* Mutant: from s_tgn on, and not from the one behind it.
SearchedAgain(c) ==
    {k \in DOMAIN Offered(c.of) : k >= c.at /\ <<c.text, Offered(c.of)[k]>> \in Begins}
Searched(c) == {k \in DOMAIN Offered(c.of) : k > c.at /\ <<c.text, Offered(c.of)[k]>> \in Begins}

\* The first word of a line is a command, the one behind "mo w" a tag.
ltsys_completion(text, of) ==
    /\ AtPrompt
    /\ completing' = [how |-> "asked", of |-> of, text |-> text, at |-> 0, out |-> <<>>]
    /\ UNCHANGED <<stage, tg_list, tagfile, running, editing, unbooked>>

Generates(of) ==
    /\ completing.how = "asked" /\ completing.of = of
    /\ \E found \in {Searched(completing)} :
        completing' =
            IF found = {} THEN [completing EXCEPT !.how = "ended"]
            ELSE [completing EXCEPT !.at = Min(found), !.out = Append(@, Offered(of)[Min(found)])]
    /\ UNCHANGED <<stage, tg_list, tagfile, running, editing, unbooked>>

command_generator == Generates("command")
cmd_modify_n_generator == Generates("tag")

Completed ==
    /\ completing.how = "ended" /\ completing' = Nothing
    /\ UNCHANGED <<stage, tg_list, tagfile, running, editing, unbooked>>

------------------------------------------------------------------------------
TagsInit ==
    /\ stage = [t \in TagNames |-> NoFile] /\ tg_list = <<>> /\ tagfile = <<>>
    /\ running = FALSE /\ editing = NotEditing /\ completing = Nothing /\ unbooked = {}

TagsNext ==
    \/ command_init \/ Leave \/ command_generator \/ cmd_modify_n_generator \/ Completed
    \/ \E t \in TagNames :
        \/ \E n \in NoFile .. MaxLines : Exported(t, n)
        \/ ModifyNew(t) \/ ModifyWrite(t)
        \/ \E of \in {"command", "tag"} : ltsys_completion(t, of)
    \/ \E n \in 0 .. MaxLines : NewDone(n) \/ WriteDone(n)

TagsSpec == TagsInit /\ [][TagsNext]_tagVars

------------------------------------------------------------------------------
(* What the three places that know of an object agree on *)

\* cmd_modify takes the first tag of a name, and a name may have several; sed takes
\* every line. Between commands: an object on the stage has a tag, the first one with
\* its name has its lines, every line of the tag list file is for a name in memory, and
\* the last line for a name says what the first tag does.
TagsAgree ==
    running /\ editing = NotEditing =>
        /\ \A t \in Staged :
            /\ t \in Names(tg_list)
            /\ tg_list[FirstOf(tg_list, t)].lines = stage[t]
        /\ \A t \in Names(tagfile) :
            /\ t \in Names(tg_list)
            /\ tagfile[LastOf(tagfile, t)] = tg_list[FirstOf(tg_list, t)]

\* An object is missing in the tag list file only if readdir did not return a stage file
\* first when the program started, if an object whose name occurs in its own has been
\* modified since, or if it was once modified to nothing and taken up again by "w": never
\* after it was made by "n".
MissesOnlyUnbooked ==
    running /\ editing = NotEditing => Staged \ Names(tagfile) \subseteq unbooked

\* Both: what memory and the tag list file say of the stage.
StageIsListed == TagsAgree /\ MissesOnlyUnbooked

\* A generator keeps its place in a static variable between its calls, s_tgn a pointer
\* into the list of tags and list_index a number of the table of commands: each name that
\* begins with the text is returned once, in their order.
CompletesRight ==
    completing # Nothing =>
        \E names \in {Offered(completing.of)} :
        \E all \in {Those(names, {k \in DOMAIN names : <<completing.text, names[k]>> \in Begins})} :
            /\ IsPrefix(completing.out, all)
            /\ completing.how = "ended" => completing.out = all

==============================================================================
