----------------------------- MODULE LtSession -----------------------------
(***************************************************************************)
(* The go-session of the Leitner box: cmd_go, go_lbox, go_lbox_internal    *)
(* and move_to_lbox (src/src/vs.c), which call one another recursively     *)
(* while the user answers, with cmd_load (src/src/ltsys.c) in the middle.  *)
(*                                                                         *)
(* The C stack is the variable `stack`, top first, one frame per active    *)
(* call with the locals that outlive a nested call.  An action runs from   *)
(* one call, return or question to the next.  The stores of a move or a    *)
(* load are one step here; LtMeta takes them apart.                        *)
(***************************************************************************)
EXTENDS LtBoxes, FiniteSets

CONSTANTS
    Limit,       \* vs_limit of a box below the last: column 0 of box_leve_max_vs
    MaxGo,       \* MaxGo[type][l]: the other columns, 0 for "no limit"
    ReloadMin,   \* MIN_VIS_IN_LBOX0_TO_RELOAD
    NumPerLoad,  \* num_per_load
    GoArgs,      \* the numbers the user gives to "go", 0 for none
    LoadArgs,    \* the numbers the user gives to "load"
    Answers,     \* the answers of the user, values of wrong_pos
    MaxAsks      \* bound: questions asked in one session

Asked  == 0 .. MaxLevel - 1      \* boxes whose VSes are asked for
GoTypes == {"PUSH", "CLEAN", "MAKEWAY"}

ASSUME SessionAssumption ==
    /\ MaxLevel > 1
    /\ Limit \in [Asked -> Nat \ {0}]
    /\ MaxGo \in [GoTypes -> [Asked -> Nat]]
    /\ \A l \in Asked : MaxGo["MAKEWAY"][l] > 0
    /\ ReloadMin \in Nat /\ NumPerLoad \in Nat
    /\ Answers \subseteq {-1, 1, 2, 3}
    /\ GoArgs \subseteq Int /\ LoadArgs \subseteq Int
    /\ MaxAsks \in Nat

VARIABLES
    cnt,         \* vs_cnt of every box
    busy,        \* vs_busy_cnt of every box
    proc,        \* "idle" at the prompt, "go" in a session, "down" exited
    stack,       \* active calls of the session, top first
    pug,         \* *pug_cnt, what is left of the number given by the user
    ugc,         \* ugc_original, the number given by the user
    firstwhile,  \* the global of vs.c
    asked,       \* history: questions asked in the last session
    report,      \* history: "We have goed %d VS items", NoReport when cut short
    cut          \* history: some session was ended by SIGINT or CTRL-D

data    == <<box, loaded, cnt, busy>>
control == <<proc, stack, pug, ugc, firstwhile, asked, report, cut>>
vars    == <<data, control>>

NoReport == -1

-----------------------------------------------------------------------------
(* Frames.  The return value of a callee is added to ret of go_lbox and    *)
(* move_to_lbox, and subtracted from cnt2go of go_lbox_internal.           *)

GoFrame(l, type) == [fn |-> "go_lbox", lv |-> l, type |-> type, at |-> "enter",
                     i |-> 1, j |-> 0, k |-> 0, ret |-> 0]
InternalFrame(l, n) == [fn |-> "internal", lv |-> l, at |-> "loop",
                        cnt2go |-> n, start |-> n]
MoveFrame(l) == [fn |-> "move", lv |-> l, at |-> "while", ret |-> 1]

Top     == Head(stack)
Callers == Tail(stack)
In(fn, at) == proc = "go" /\ stack # <<>> /\ Top.fn = fn /\ Top.at = at

Goto(at)        == [Top EXCEPT !.at = at]
Continue(f)     == stack' = <<f>> \o Callers
Call(callee, f) == stack' = <<callee, f>> \o Callers

\* The caller's frame when its callee has returned v.
Resume(f, v) == IF f.fn = "internal" THEN [f EXCEPT !.cnt2go = @ - v]
                                     ELSE [f EXCEPT !.ret = @ + v]

\* Return v to the caller, or from the session to the prompt.
Return(v) ==
    IF Callers = <<>>
      THEN stack' = <<>> /\ proc' = "idle" /\ report' = v
      ELSE /\ stack' = <<Resume(Head(Callers), v)>> \o Tail(Callers)
           /\ UNCHANGED <<proc, report>>

Calm == UNCHANGED <<proc, report>>    \* no return to the prompt

-----------------------------------------------------------------------------
(* Boxes *)

\* lbox_is_full: the last box never is.
Full(c, l) == l # MaxLevel /\ ~(c[l] < Limit[l])

SmallerOf(a, b) == IF a < b THEN a ELSE b

\* How many VSes cmd_load draws.  The number is compared as an unsigned with
\* the room in box 0, so a negative argument asks for as many as there is room.
LoadCount(arg) ==
    LET want == SmallerOf(NumPerLoad, arg)
        room == Limit[0] - cnt[0]
    IN  SmallerOf(IF want < 0 THEN room ELSE SmallerOf(want, room), Total - loaded)

\* cmd_load, when it draws n VSes.
DoLoad(n) == /\ box' = [box EXCEPT ![0] = @ \o Drawn(n)]
             /\ cnt' = [cnt EXCEPT ![0] = @ + n]
             /\ loaded' = loaded + n
             /\ UNCHANGED busy

\* Mutant: a VS leaving a full box does not let a busy one in.
CountsLeftLazy(old) == [c |-> [cnt EXCEPT ![old] = @ - 1], b |-> busy]

\* The counters once the head of box `old` has left: one busy VS gets its place.
CountsLeft(old) ==
    IF busy[old] # 0 THEN [c |-> cnt, b |-> [busy EXCEPT ![old] = @ - 1]]
                     ELSE [c |-> [cnt EXCEPT ![old] = @ - 1], b |-> busy]

\* The counters of move_to_lbox: the newcomer of a full box is busy.
CountsMoved(old, new) ==
    LET left == CountsLeft(old)
    IN  IF Full(left.c, new)
          THEN [left EXCEPT !.b[new] = @ + 1]
          ELSE [left EXCEPT !.c[new] = @ + 1]

\* Mutant: a wrong answer at the last try sends a VS back as well, one box down.
NewLevelBack(l, wrong_pos) == IF wrong_pos \in {1, 2} /\ l > 0 THEN l - 1 ELSE l + 1

\* Where the answers to a VS of box l send it; wrong_pos is the first of the
\* three tries that was wrong, -1 when none was.
NewLevel(l, wrong_pos) == IF wrong_pos \in {1, 2} THEN 0 ELSE l + 1

-----------------------------------------------------------------------------
SessionInit ==
    /\ BoxesInit
    /\ cnt = [l \in Levels |-> 0] /\ busy = [l \in Levels |-> 0]
    /\ proc = "idle" /\ stack = <<>>
    /\ pug = 0 /\ ugc = 0 /\ firstwhile = 0
    /\ asked = 0 /\ report = NoReport /\ cut = FALSE

-----------------------------------------------------------------------------
(* The prompt *)

\* "load [num]".
CmdLoad == /\ proc = "idle"
           /\ \E arg \in LoadArgs : DoLoad(LoadCount(arg))
           /\ UNCHANGED control

\* Mutant: firstwhile survives from the session before.
FirstWhileKept == firstwhile

\* cmd_go resets the global, whatever the session before has left there.
FirstWhileAtStart == 0

\* "go [num]": go_lbox(lts, 0, GO_LBTYPE_PUSH, &cnt, cnt).
CmdGo == /\ proc = "idle"
         /\ \E n \in GoArgs : pug' = n /\ ugc' = n
         /\ proc' = "go"
         /\ stack' = <<GoFrame(0, "PUSH")>>
         /\ firstwhile' = FirstWhileAtStart
         /\ asked' = 0 /\ report' = NoReport
         /\ UNCHANGED <<data, cut>>

\* "exit".
CmdExit == /\ proc = "idle"
           /\ proc' = "down"
           /\ UNCHANGED <<data, stack, pug, ugc, firstwhile, asked, report, cut>>

\* A new process finds the boxes in the meta file (see LtMeta).
Restart == /\ proc = "down"
           /\ proc' = "idle"
           /\ firstwhile' = 0 /\ pug' = 0 /\ ugc' = 0
           /\ asked' = 0 /\ report' = NoReport
           /\ UNCHANGED <<data, stack, cut>>

\* CTRL-C: sigh jumps back into cmd_go, which returns to the prompt.
Interrupt == /\ proc = "go"
             /\ proc' = "idle" /\ stack' = <<>> /\ cut' = TRUE
             /\ UNCHANGED <<data, pug, ugc, firstwhile, asked, report>>

-----------------------------------------------------------------------------
(* go_lbox_internal *)

\* The question loop waits for the user: its condition holds.
Asking == In("internal", "loop") /\ Top.cnt2go # 0 /\ cnt[Top.lv] # 0

\* CTRL-D: fgets returns NULL and ERROR exits the process.
Eof == /\ Asking
       /\ proc' = "down" /\ stack' = <<>> /\ cut' = TRUE
       /\ UNCHANGED <<data, pug, ugc, firstwhile, asked, report>>

\* Mutant: leaves the accounting to the loop, which will not do it either.
GoOnUnaccounted(new) == Call(MoveFrame(new), Top) /\ UNCHANGED pug

\* move_to_lbox has filled the box: it accounts for the question itself.
GoOnToMakeWay(new) == Call(MoveFrame(new), Top) /\ pug' = pug - 1

\* Otherwise the loop accounts for it, and breaks at the user's number.
AccountHere == /\ pug' = pug - 1
               /\ Continue([Top EXCEPT !.cnt2go = @ - 1,
                                       !.at = IF pug = 1 THEN "break" ELSE @])

\* The three tries at the head of the box have been answered, and the VS
\* moves.
Answer(wrong_pos) ==
    /\ Asking /\ asked < MaxAsks
    /\ LET lv  == Top.lv
           new == NewLevel(lv, wrong_pos)
           now == CountsMoved(lv, new)
       IN  /\ box' = Moved(lv, new)
           /\ cnt' = now.c /\ busy' = now.b
           /\ IF Full(now.c, new) THEN GoOnToMakeWay(new) ELSE AccountHere
    /\ asked' = asked + 1
    /\ Calm /\ UNCHANGED <<loaded, ugc, firstwhile, cut>>

InternalReturn ==
    /\ In("internal", "break") \/ (In("internal", "loop") /\ ~Asking)
    /\ Return(Top.start - Top.cnt2go)
    /\ UNCHANGED <<data, pug, ugc, firstwhile, asked, cut>>

\* cnt2go at the start: what the level allows and what the user's number allows.
Quota(max) == IF max = 0 THEN (IF ugc = 0 THEN -1 ELSE pug)
              ELSE IF ugc = 0 THEN max ELSE SmallerOf(max, pug)

-----------------------------------------------------------------------------
(* move_to_lbox, once the VS is in a box it has filled *)

\* Mutant: the loop gives up after one round of making way.
MakeWayAtOnce(l) == "done"

\* Box 0 gets one round of making way, any other box as many as it takes.
MakeWayAt(l) == IF l = 0 THEN "done" ELSE "while"

MakeWay == /\ In("move", "while") /\ Full(cnt, Top.lv)
           /\ Call(GoFrame(Top.lv, "MAKEWAY"), Goto(MakeWayAt(Top.lv)))
           /\ Calm /\ UNCHANGED <<data, pug, ugc, firstwhile, asked, cut>>

MoveReturn == /\ In("move", "done") \/ (In("move", "while") /\ ~Full(cnt, Top.lv))
              /\ Return(Top.ret)
              /\ UNCHANGED <<data, pug, ugc, firstwhile, asked, cut>>

-----------------------------------------------------------------------------
(* go_lbox *)

\* Nothing but the stack changes.
Internal == Calm /\ UNCHANGED <<data, pug, ugc, firstwhile, asked, cut>>

\* "if ((ugc_original>0) && (*puser_gave_cnt==0)) return gl_ret;"
NumberReached == ugc > 0 /\ pug = 0

\* A full next box goes first, in the same way.
GoEnter == /\ In("go_lbox", "enter")
           /\ IF Full(cnt, Top.lv + 1)
                THEN Call(GoFrame(Top.lv + 1, Top.type), Goto("box"))
                ELSE Continue(Goto("box"))
           /\ Internal

GoBox == /\ In("go_lbox", "box")
         /\ Call(InternalFrame(Top.lv, Quota(MaxGo[Top.type][Top.lv])), Goto("more"))
         /\ Internal

\* Only box 0, and not while making way, goes on to reload.
GoStop == /\ In("go_lbox", "more")
          /\ NumberReached \/ Top.lv # 0 \/ Top.type = "MAKEWAY"
          /\ Return(Top.ret)
          /\ UNCHANGED <<data, pug, ugc, firstwhile, asked, cut>>

\* Before reloading, box 1 is brought down to ReloadMin.
GoMore == /\ In("go_lbox", "more")
          /\ ~NumberReached /\ Top.lv = 0 /\ Top.type # "MAKEWAY"
          /\ IF cnt[1] > ReloadMin
               THEN Call(InternalFrame(1, Quota(cnt[1] - ReloadMin)), Goto("load"))
               ELSE Continue(Goto("load"))
          /\ Internal

\* What it loads goes first; with nothing left to load the circles start.
GoLoad == /\ In("go_lbox", "load") /\ ~NumberReached
          /\ LET n == LoadCount(NumPerLoad)
             IN  /\ DoLoad(n)
                 /\ IF n > 0 THEN Call(GoFrame(0, "PUSH"), Goto("return"))
                             ELSE Continue(Goto("while"))
          /\ Calm /\ UNCHANGED <<pug, ugc, firstwhile, asked, cut>>

GoWhile == /\ In("go_lbox", "while")
           /\ firstwhile = 0 /\ cnt[MaxLevel] < loaded
           /\ firstwhile' = 1
           /\ Continue([Top EXCEPT !.at = "for", !.i = 1, !.j = 0])
           /\ Calm /\ UNCHANGED <<data, pug, ugc, asked, cut>>

\* One box of the circles 01 -> 012 -> ...; the very first 0 is passed over.
GoCircle == /\ In("go_lbox", "for")
            /\ IF Top.k = 0
                 THEN Continue([Top EXCEPT !.k = 1, !.at = "next"])
                 ELSE Call(GoFrame(Top.j, "CLEAN"), Goto("next"))
            /\ Internal

\* Mutant: the last circle leaves out its last box.
NextInCircleShort(f) ==
    IF f.j < f.i THEN [f EXCEPT !.j = @ + 1, !.at = "for"]
    ELSE IF f.i < MaxLevel - 2 THEN [f EXCEPT !.i = @ + 1, !.j = 0, !.at = "for"]
    ELSE [f EXCEPT !.at = "while"]

\* Mutant: one more circle, over the last box too.
NextInCircleLong(f) ==
    IF f.j < f.i THEN [f EXCEPT !.j = @ + 1, !.at = "for"]
    ELSE IF f.i < MaxLevel THEN [f EXCEPT !.i = @ + 1, !.j = 0, !.at = "for"]
    ELSE [f EXCEPT !.at = "while"]

\* The counting of the two for loops.
NextInCircle(f) ==
    IF f.j < f.i THEN [f EXCEPT !.j = @ + 1, !.at = "for"]
    ELSE IF f.i < MaxLevel - 1 THEN [f EXCEPT !.i = @ + 1, !.j = 0, !.at = "for"]
    ELSE [f EXCEPT !.at = "while"]

\* "if (j==5) firstwhile=0;" holds whenever the loops have run to their end.
FirstWhileAfter(at) == IF at = "while" THEN 0 ELSE firstwhile

GoNext == /\ In("go_lbox", "next") /\ ~NumberReached
          /\ LET f == NextInCircle(Top)
             IN  /\ Continue(f)
                 /\ firstwhile' = FirstWhileAfter(f.at)
          /\ Calm /\ UNCHANGED <<data, pug, ugc, asked, cut>>

GoReturn == /\ \/ In("go_lbox", "return")
               \/ In("go_lbox", "load") /\ NumberReached
               \/ In("go_lbox", "next") /\ NumberReached
               \/ In("go_lbox", "while") /\ ~(firstwhile = 0 /\ cnt[MaxLevel] < loaded)
            /\ Return(Top.ret)
            /\ UNCHANGED <<data, pug, ugc, firstwhile, asked, cut>>

-----------------------------------------------------------------------------
\* The steps the program takes by itself.
Run == \/ InternalReturn \/ MakeWay \/ MoveReturn
       \/ GoEnter \/ GoBox \/ GoStop \/ GoMore \/ GoLoad
       \/ GoWhile \/ GoCircle \/ GoNext \/ GoReturn

SessionNext ==
    \/ CmdLoad \/ CmdGo \/ CmdExit \/ Restart \/ Interrupt
    \/ Eof \/ \E wrong_pos \in Answers : Answer(wrong_pos)
    \/ Run

SessionSpec == SessionInit /\ [][SessionNext]_vars

\* The process runs on unless it waits for the user: nothing else can stop it,
\* and nothing is assumed of the user.
FairSessionSpec == SessionSpec /\ WF_vars(Run)

\* A user who stays with the session and answers every question.
StudiousSpec == FairSessionSpec /\ WF_vars(\E wrong_pos \in Answers : Answer(wrong_pos))

-----------------------------------------------------------------------------
Frames == [fn : {"go_lbox"}, lv : Asked, type : GoTypes,
           at : {"enter", "box", "more", "load", "while", "for", "next", "return"},
           i : Asked, j : Asked, k : {0, 1}, ret : Int]
          \cup [fn : {"internal"}, lv : Asked, at : {"loop", "break"},
                cnt2go : Int, start : Int]
          \cup [fn : {"move"}, lv : Asked, at : {"while", "done"}, ret : Int]

SessionTypeOK ==
    /\ BoxesTypeOK
    /\ cnt \in [Levels -> Nat] /\ busy \in [Levels -> Nat]
    /\ proc \in {"idle", "go", "down"}
    /\ stack \in Seq(Frames) /\ (stack # <<>> <=> proc = "go")
    /\ pug \in Int /\ ugc \in Int
    /\ firstwhile \in {0, 1}
    /\ asked \in Nat /\ report \in Int /\ cut \in BOOLEAN

\* The two counters of a box describe its list: vs_cnt + vs_busy_cnt items,
\* at most vs_limit of them counted, and none busy while there is room.  The
\* question loop reads vs_cnt alone and takes the head of the list on faith.
CountsAgree == \A l \in Levels :
    /\ Len(box[l]) = cnt[l] + busy[l]
    /\ l # MaxLevel => cnt[l] <= Limit[l]
    /\ busy[l] > 0 => Full(cnt, l)

\* Each question is accounted for once, in move_to_lbox or in the loop, through all
\* returns: the number printed with it, ugc_original - *pug_cnt + 1, is its number,
\* whatever nested calls asked in between, and "We have goed %d VS items" tells at the
\* end how many were asked.
QuestionsAccounted ==
    /\ proc = "go" => pug = ugc - asked
    /\ proc = "idle" /\ report # NoReport => report = asked

\* A session comes back by itself only when the user's number is reached or
\* when the whole vs file has been learnt (it is in the last box).
ComesBackDone == proc = "idle" /\ report # NoReport =>
    \/ ugc > 0 /\ asked = ugc
    \/ Len(box[MaxLevel]) = Total

\* Unless a session was cut short, a box above the first is full only while a
\* call of move_to_lbox is making way in it.
FullIsRelieved == ~cut => \A l \in Asked \ {0} :
    Full(cnt, l) => \E p \in 1 .. Len(stack) :
                        stack[p].fn = "move" /\ stack[p].lv = l

\* The session always gets back to the user: to a question or to the prompt.
GetsBackToUser == []<>(Asking \/ proc # "go")

\* A session without a number always gets back to the user, whatever the answers:
\* making way and the circles end by themselves.
GetsBackWithoutNumber == []<>(Asking \/ proc # "go" \/ ugc > 0)

\* A session without a number, and a user who knows all the answers: it ends
\* (ComesBackDone says with what).  The quotas of the levels, the circles and
\* firstwhile never leave a VS behind that is not asked for again.
SessionEnds == proc = "go" ~> proc # "go"
=============================================================================
