-------------------------------- MODULE Shell --------------------------------
(***************************************************************************)
(* main.c with cmd_go's signals and cmd_init's reset (ltsys.c): a line is  *)
(* read, its redirection set up, its command run and everything put back.  *)
(* Around it are the processes that read what a command writes, the shells *)
(* popen starts for them, and the signals of the terminal.                 *)
(*                                                                         *)
(* A stream is one open FILE of the program; for a pipe it stands for the  *)
(* reading process and its shell as well, whose pids it therefore is.      *)
(***************************************************************************)
EXTENDS Integers, Sequences

CONSTANTS MaxStreams   \* bound: streams that are open or still have a process

ASSUME ShellAssumption == MaxStreams \in Nat \ {0}

VARIABLES pc,        \* where main is; "killed" and "wild" are its bad ends
          redir,     \* the redirection the line under way asks for, until it is set up
          i,         \* the index into Cmds: it outlives the line
          fp,        \* the stream commands write to
          pls,       \* the fields of struct ltsys that restore_sanity works on
          streams,   \* the streams and what reads them
          tty,       \* my_tty is the terminal of the program
          handler,   \* what SIGINT and SIGTERM do
          oact,      \* what the last cmd_go found SIGINT to do
          sessions,  \* history: how the last session and the one before it ended
          line       \* history: what the line under way asks for, the stream opened for it,
                     \* and the one a line before it has left to it

vars == <<pc, redir, i, fp, pls, streams, tty, handler, oact, sessions, line>>

Streams == 1 .. MaxStreams
Stdout == 0
Null == 0
Self == MaxStreams + 1     \* the pid of the program itself
Other == MaxStreams + 2    \* the pid of a process that reads no stream of the program

\* Commands that differ in what they do to this state; "load" stands for clear, load
\* and modify, "lsbox" for lsbox and help.
Known == {"init", "load", "go", "lsbox", "mkidx", "exit"}
Unknown == "unknown"
Paged == {"lsbox"}
\* "pipe>" is a pipe into a command line that has a '>' or a '!' in it, "bad" a
\* redirection that fails, "shell" a line that begins with '!'.
Redirections == {"none", "file", "pipe", "pipe>", "bad", "shell"}
Lines ==
    {l \in [cmd : Known \cup {Unknown, ""}, redir : Redirections] :
        /\ l.cmd = "" => l.redir \notin {"none", "shell"}
        /\ l.redir = "shell" => l.cmd = Unknown}

Unused == [kind |-> "none", open |-> FALSE, cmd |-> FALSE, sh |-> "none"]
NoRedirect == [stdpipe |-> Null, stdpipe_pid |-> Null, pipe |-> Null,
               pipe_pid |-> Null, pipe_shell_pid |-> Null, ofile |-> Null]

\* Which number a stream gets does not matter: the least one that can be used.
Fresh(s) == streams[s] = Unused /\ \A u \in 1 .. s - 1 : streams[u] # Unused

NoLine == [asks |-> "none", opened |-> Null, before |-> Null]

Open == {s \in Streams : streams[s].open}
Held == {pls.stdpipe, pls.pipe, pls.ofile} \ {Null}
Lost == Open \ Held
Stopped == {"gone", "killed", "wild"}

------------------------------------------------------------------------------
\* The state of a program that has just come to its prompt. i is the descriptor the
\* index file was opened with, which is 3, the number of "go".
ShellInit ==
    /\ pc = "prompt" /\ redir = "none" /\ i = "go"
    /\ fp = Stdout /\ pls = NoRedirect /\ streams = [s \in Streams |-> Unused]
    /\ tty = TRUE /\ handler = [INT |-> "default", TERM |-> "default"] /\ oact = "default"
    /\ sessions = <<"none", "none">> /\ line = NoLine

Start ==
    /\ pc \in Stopped
    /\ pc' = "prompt" /\ redir' = "none" /\ i' = "go"
    /\ fp' = Stdout /\ pls' = NoRedirect /\ streams' = [s \in Streams |-> Unused]
    /\ tty' = TRUE /\ handler' = [INT |-> "default", TERM |-> "default"] /\ oact' = "default"
    /\ sessions' = <<"none", "none">> /\ line' = NoLine

\* A line that begins with its redirection names no command and leaves i alone.
NextIndex(c) == IF c = "" THEN i ELSE c

ReadLine ==
    /\ pc = "prompt"
    /\ \E s \in Streams : streams[s] = Unused       \* bound
    /\ \E l \in Lines : /\ redir' = l.redir /\ i' = NextIndex(l.cmd)
                       /\ line' = [line EXCEPT !.asks = l.redir]
    /\ pc' = "redirect"
    /\ UNCHANGED <<fp, pls, streams, tty, handler, oact, sessions>>

EndOfInput ==
    /\ pc = "prompt" /\ pc' = "gone"
    /\ UNCHANGED <<redir, i, fp, pls, streams, tty, handler, oact, sessions, line>>

------------------------------------------------------------------------------
(* setup_redirect *)

\* setup_redirect is called for the line.
IsRedirected == i \in Known \/ redir \in {"file", "pipe>", "shell"}

LetThrough ==
    /\ pc = "redirect"
    /\ ~IsRedirected \/ redir = "bad" \/ (redir = "none" /\ i \notin Paged)
    /\ pc' = "dispatch"
    /\ redir' = "none"
    /\ UNCHANGED <<i, fp, pls, streams, tty, handler, oact, sessions, line>>

ShellCommand ==
    /\ pc = "redirect" /\ redir = "shell" /\ pc' = "prompt"
    /\ redir' = "none"
    /\ UNCHANGED <<i, fp, pls, streams, tty, handler, oact, sessions, line>>

ToFile ==
    /\ pc = "redirect" /\ IsRedirected /\ redir = "file"
    /\ \E s \in Streams :
        /\ Fresh(s)
        /\ streams' = [streams EXCEPT ![s] = [Unused EXCEPT !.kind = "file", !.open = TRUE]]
        /\ fp' = s /\ pls' = [pls EXCEPT !.ofile = s]
        /\ line' = [line EXCEPT !.opened = s]
    /\ pc' = "dispatch"
    /\ redir' = "none"
    /\ UNCHANGED <<i, tty, handler, oact, sessions>>

\* The shell either waits for the command or has become it.
ToPipe ==
    /\ pc = "redirect" /\ IsRedirected /\ redir \in {"pipe", "pipe>"}
    /\ \E s \in Streams, sh \in {"runs", "none"} :
        /\ Fresh(s)
        /\ streams' = [streams EXCEPT
               ![s] = [kind |-> "pipe", open |-> TRUE, cmd |-> TRUE, sh |-> sh]]
        /\ fp' = s /\ pls' = [pls EXCEPT !.pipe = s, !.pipe_pid = Null, !.pipe_shell_pid = Null]
        /\ line' = [line EXCEPT !.opened = s]
    /\ pc' = "find pids"
    /\ redir' = "none"
    /\ UNCHANGED <<i, tty, handler, oact, sessions>>

\* lsbox and help go through less; pipe() or fork() may fail.
ToStdpipe ==
    /\ pc = "redirect" /\ i \in Paged /\ redir = "none"
    /\ \/ \E s \in Streams :
            /\ Fresh(s)
            /\ streams' = [streams EXCEPT
                   ![s] = [kind |-> "stdpipe", open |-> TRUE, cmd |-> TRUE, sh |-> "none"]]
            /\ fp' = s /\ pls' = [pls EXCEPT !.stdpipe = s, !.stdpipe_pid = s]
            /\ line' = [line EXCEPT !.opened = s]
       \/ UNCHANGED <<fp, pls, streams, line>>
    /\ pc' = "dispatch"
    /\ redir' = "none"
    /\ UNCHANGED <<i, tty, handler, oact, sessions>>

\* ps lists the processes of the terminal, the oldest first: the first one whose name
\* begins like the command is taken, and its parent for the shell. It may be the reader of
\* any stream, or a process the program knows nothing of; or there is none yet.
output_command_to_pids ==
    /\ pc = "find pids" /\ pc' = "dispatch"
    /\ \/ /\ tty
          /\ \E s \in {u \in Streams : streams[u].cmd} :
                 pls' = [pls EXCEPT
                     !.pipe_pid = s,
                     !.pipe_shell_pid = IF streams[s].sh = "none" THEN Self ELSE s]
       \/ /\ tty
          /\ \E parent \in {Self, Other} :
                 pls' = [pls EXCEPT !.pipe_pid = Other, !.pipe_shell_pid = parent]
       \/ UNCHANGED pls
    /\ UNCHANGED <<redir, i, fp, streams, tty, handler, oact, sessions, line>>

------------------------------------------------------------------------------
(* The command *)

\* The stream of the line under way, or that of the last line before it whose command was
\* unknown, if no command was run since then.
WhereTold == IF line.opened # Null THEN line.opened ELSE line.before

\* What cannot be looked up gets cmd_disp, and nothing is put back.
NotACommand ==
    /\ pc = "dispatch" /\ i = Unknown /\ pc' = "prompt"
    /\ line' = [NoLine EXCEPT !.before = WhereTold]
    /\ UNCHANGED <<redir, i, fp, pls, streams, tty, handler, oact, sessions>>

\* A write into a pipe nobody reads any more is SIGPIPE, which nothing handles.
WriteToNobody ==
    /\ pc = "dispatch" \/ pc = "go"
    /\ i \notin {"init", "mkidx"}
    /\ fp # Stdout /\ streams[fp].kind # "file" /\ ~streams[fp].cmd
    /\ pc' = "killed"
    /\ UNCHANGED <<redir, i, fp, pls, streams, tty, handler, oact, sessions, line>>

RunPlain ==
    /\ pc = "dispatch" /\ i \in {"load", "lsbox", "init"} /\ pc' = "restore"
    /\ UNCHANGED <<redir, i, fp, pls, streams, tty, handler, oact, sessions, line>>

\* ltsys_deinit clears the whole of struct ltsys.
RunInit ==
    /\ pc = "dispatch" /\ i = "init" /\ pc' = "restore"
    /\ pls' = NoRedirect /\ tty' = FALSE
    /\ UNCHANGED <<redir, i, fp, streams, handler, oact, sessions, line>>

\* exit, mkidx, which takes the vector of its arguments for a name and finds no such
\* file, and an init that cannot open one of its files.
RunLast ==
    /\ pc = "dispatch" /\ i \in {"exit", "mkidx", "init"} /\ pc' = "gone"
    /\ UNCHANGED <<redir, i, fp, pls, streams, tty, handler, oact, sessions, line>>

RunGo ==
    /\ pc = "dispatch" /\ i = "go" /\ pc' = "go"
    /\ oact' = handler.INT /\ handler' = [handler EXCEPT !.INT = "sigh"]
    /\ UNCHANGED <<redir, i, fp, pls, streams, tty, sessions, line>>

\* Mutant: the old action goes back to where it came from.
LeaveGoRestoring(h, how) ==
    /\ handler' = [h EXCEPT !.INT = oact]
    /\ sessions' = <<how, sessions[1]>> /\ pc' = "restore"
\* Both ways out of cmd_go: the old action of SIGINT becomes that of SIGTERM.
LeaveGo(h, how) ==
    /\ handler' = [h EXCEPT !.TERM = oact]
    /\ sessions' = <<how, sessions[1]>> /\ pc' = "restore"

GoEnds ==
    /\ pc = "go" /\ LeaveGo(handler, "finished")
    /\ UNCHANGED <<redir, i, fp, pls, streams, tty, oact, line>>

\* SA_RESETHAND: sigh is run once. It jumps into env_sig, whose frame is that of cmd_go.
Signal(sig) ==
    /\ pc \notin Stopped
    /\ \/ handler[sig] = "default" /\ pc' = "killed" /\ UNCHANGED <<handler, sessions>>
       \/ /\ handler[sig] = "sigh" /\ pc = "go"
          /\ LeaveGo([handler EXCEPT ![sig] = "default"], sig)
       \/ handler[sig] = "sigh" /\ pc # "go" /\ pc' = "wild" /\ UNCHANGED <<handler, sessions>>
    /\ UNCHANGED <<redir, i, fp, pls, streams, tty, oact, line>>

------------------------------------------------------------------------------
(* restore_sanity *)

\* Mutant: the descriptor of a pipe stays open.
ClosedFile(s) == IF streams[s].kind = "file" THEN [streams EXCEPT ![s] = Unused] ELSE streams
Closed(s) == [streams EXCEPT ![s] =
    IF @.kind = "file" THEN Unused ELSE [@ EXCEPT !.open = FALSE]]

\* Mutant: fp is left alone.
SaneFpKept == fp
SaneFp == Stdout

\* Mutant: less is waited for before its input is closed.
CloseStdpipeLate ==
    /\ pc = "restore" /\ (pls.stdpipe # Null => ~streams[pls.stdpipe].cmd)
    /\ fp' = SaneFp /\ pc' = "wait stdpipe"
    /\ IF pls.stdpipe = Null THEN UNCHANGED <<pls, streams>>
       ELSE streams' = Closed(pls.stdpipe) /\ pls' = [pls EXCEPT !.stdpipe = Null]
    /\ line' = NoLine
    /\ UNCHANGED <<redir, i, tty, handler, oact, sessions>>
CloseStdpipe ==
    /\ pc = "restore" /\ fp' = SaneFp /\ pc' = "wait stdpipe"
    /\ IF pls.stdpipe = Null THEN UNCHANGED <<pls, streams>>
       ELSE /\ streams' = Closed(pls.stdpipe)
            /\ pls' = [pls EXCEPT !.stdpipe = Null]
    /\ line' = NoLine
    /\ UNCHANGED <<redir, i, tty, handler, oact, sessions>>

\* less is waited for, which stays until its user leaves it unless all fits on one
\* screen (-F without -E); then the pipe is closed.
ClosePipe ==
    /\ pc = "wait stdpipe"
    /\ pls.stdpipe_pid # Null => ~streams[pls.stdpipe_pid].cmd
    /\ IF pls.pipe = Null
       THEN pls' = [pls EXCEPT !.stdpipe_pid = Null] /\ pc' = "close file" /\ UNCHANGED streams
       ELSE /\ pls' = [pls EXCEPT !.stdpipe_pid = Null, !.pipe = Null]
            /\ streams' = Closed(pls.pipe) /\ pc' = "wait pipe"
    /\ UNCHANGED <<redir, i, fp, tty, handler, oact, sessions, line>>

\* A process the program does not feed ends when it likes, or never.
WaitPipe ==
    /\ pc = "wait pipe"
    /\ pls.pipe_pid \in Streams => ~streams[pls.pipe_pid].cmd
    /\ pc' = "wait shell"
    /\ UNCHANGED <<redir, i, fp, pls, streams, tty, handler, oact, sessions, line>>

WaitShell ==
    /\ pc = "wait shell"
    /\ pls.pipe_shell_pid # Self
    /\ pls.pipe_shell_pid \in Streams => streams[pls.pipe_shell_pid].sh # "runs"
    /\ pls' = [pls EXCEPT !.pipe_pid = Null, !.pipe_shell_pid = Null]
    /\ pc' = "close file"
    /\ UNCHANGED <<redir, i, fp, streams, tty, handler, oact, sessions, line>>

CloseFile ==
    /\ pc = "close file" /\ pc' = "prompt"
    /\ IF pls.ofile = Null THEN UNCHANGED <<pls, streams>>
       ELSE streams' = Closed(pls.ofile) /\ pls' = [pls EXCEPT !.ofile = Null]
    /\ UNCHANGED <<redir, i, fp, tty, handler, oact, sessions, line>>

------------------------------------------------------------------------------
(* The other processes *)

\* A reader ends at the end of its input, or when the user quits it.
ReaderEnds(s) ==
    /\ streams[s].cmd
    /\ streams' = [streams EXCEPT ![s].cmd = FALSE]
    /\ UNCHANGED <<pc, redir, i, fp, pls, tty, handler, oact, sessions, line>>

ShEnds(s) ==
    /\ streams[s].sh = "runs" /\ ~streams[s].cmd
    /\ streams' = [streams EXCEPT ![s].sh = "ended"]
    /\ UNCHANGED <<pc, redir, i, fp, pls, tty, handler, oact, sessions, line>>

\* The number of a stream that is closed, read by no process and waited for by nobody
\* can be used again.
Forget(s) ==
    /\ streams[s] # Unused /\ ~streams[s].open /\ ~streams[s].cmd /\ streams[s].sh # "runs"
    /\ s \notin {fp, pls.stdpipe_pid, pls.pipe_pid, pls.pipe_shell_pid}
    /\ streams' = [streams EXCEPT ![s] = Unused]
    /\ UNCHANGED <<pc, redir, i, fp, pls, tty, handler, oact, sessions, line>>

Main ==
    \/ LetThrough \/ ShellCommand \/ ToFile \/ ToPipe \/ ToStdpipe \/ output_command_to_pids
    \/ NotACommand \/ RunPlain \/ RunInit \/ RunLast \/ RunGo \/ GoEnds
    \/ CloseStdpipe \/ ClosePipe \/ WaitPipe \/ WaitShell \/ CloseFile

World == \E s \in Streams : ReaderEnds(s) \/ ShEnds(s) \/ Forget(s)

ShellNext ==
    \/ ReadLine \/ EndOfInput \/ Main \/ WriteToNobody
    \/ Signal("INT") \/ Signal("TERM") \/ World \/ Start

ShellSpec == ShellInit /\ [][ShellNext]_vars

WaitsForOther == \/ pc = "wait pipe" /\ pls.pipe_pid = Other
                 \/ pc = "wait shell" /\ pls.pipe_shell_pid = Other

\* The program goes on, but for a session, which may never end (session_hang), and for
\* what it waits for; a shell whose command has ended ends too.
Fairness ==
    /\ WF_vars(Main /\ pc # "go" /\ ~WaitsForOther)
    /\ \A s \in Streams : WF_vars(ShEnds(s)) /\ WF_vars(Forget(s))
FairShellSpec == ShellSpec /\ Fairness

------------------------------------------------------------------------------
(* What a long run of lines must not break *)

\* The types of what the program has, and of the line.
ProgramTypeOK ==
    /\ pc \in {"prompt", "redirect", "find pids", "dispatch", "go", "restore",
               "wait stdpipe", "wait pipe", "wait shell", "close file"} \cup Stopped
    /\ redir \in Redirections /\ i \in Known \cup {Unknown} /\ fp \in Streams \cup {Stdout}
    /\ pls \in [stdpipe : Streams \cup {Null}, stdpipe_pid : Streams \cup {Null},
                pipe : Streams \cup {Null}, pipe_pid : Streams \cup {Null, Other},
                pipe_shell_pid : Streams \cup {Null, Self, Other}, ofile : Streams \cup {Null}]
    /\ streams \in [Streams -> [kind : {"none", "file", "pipe", "stdpipe"}, open : BOOLEAN,
                                cmd : BOOLEAN, sh : {"none", "runs", "ended"}]]
    /\ tty \in BOOLEAN /\ handler \in [{"INT", "TERM"} -> {"default", "sigh"}]
    /\ oact \in {"default", "sigh"}
    /\ sessions \in Seq({"none", "finished", "INT", "TERM"}) /\ Len(sessions) = 2

LineTypeOK ==
    line \in [asks : Redirections, opened : Streams \cup {Null}, before : Streams \cup {Null}]

ShellTypeOK == ProgramTypeOK /\ LineTypeOK

Restoring == {"wait stdpipe", "wait pipe", "wait shell", "close file"}
BeforeCommand == {"prompt", "redirect", "find pids", "dispatch", "go"}

\* The kind of stream a line asks for.
Opens(asks) == CASE asks = "file" -> "file" [] asks \in {"pipe", "pipe>"} -> "pipe"
                 [] OTHER -> "stdpipe"

\* fp is open, and restore_sanity holds it; only a line whose command is unknown leaves it
\* to the next.
FpIsHeld ==
    /\ fp # Stdout => fp \in Open
    /\ pc \in BeforeCommand => (fp = Stdout <=> Held = {}) /\ fp \in Held \cup {Stdout}
    /\ pc \in Restoring => fp = Stdout
    /\ pc = "prompt" /\ i # Unknown => fp = Stdout

\* A stream is of the kind the line asks for; a line that asks for a file or a pipe has
\* one, and of the others only lsbox and help may.
OpenedAsAsked ==
    /\ line.opened # Null => streams[line.opened].kind = Opens(line.asks)
    /\ line.opened # Null /\ line.asks = "none" => i \in Paged
    /\ line.opened = Null => line.asks \in {"none", "bad"} \/ i = Unknown

\* fp is a global that setup_redirect sets and restore_sanity resets, on lines that may be
\* far apart. A command writes to the stream opened for its own line as that line asked.
\* Without one it writes to stdout, or goes on with the stream of a line before it whose
\* command was unknown, and nowhere else; and never to a stream that has been closed.
WritesWhereTold ==
    /\ ShellTypeOK
    /\ pc \in BeforeCommand \cup {"restore"} => fp = WhereTold
    /\ pc \in {"dispatch", "go"} => OpenedAsAsked
    /\ FpIsHeld

\* cmd_go leaves the action of SIGINT behind and gives SIGTERM the one it found. Between
\* sessions SIGINT jumps into a frame that has returned when the last session was not
\* ended by CTRL-C, and SIGTERM does when that holds of the session before it; in no
\* other case.
HandlersLeftBehind ==
    pc \notin {"go"} \cup Stopped =>
        /\ handler.INT = "sigh" <=> sessions[1] \in {"finished", "TERM"}
        /\ handler.TERM = "sigh" <=> sessions[1] # "none" /\ sessions[2] \in {"finished", "TERM"}

\* A stream is lost, open for ever with nobody to close it, only when init clears the
\* fields that hold it, or when a line is redirected while the redirection of a line
\* whose command was unknown is still held.
LosesOnlyThere ==
    [][pc \notin Stopped /\ ~(Lost' \subseteq Lost) =>
         \/ pc = "dispatch" /\ i = "init"
         \/ pc = "redirect" /\ (pls.ofile # Null \/ pls.pipe # Null)]_vars

\* Waiting for the program itself, which is the parent of a command whose shell has become
\* it; for the reader of a stream that is lost; or for a process of the terminal that only
\* has the name of the command.
WaitsInVain ==
    \/ pc = "wait shell" /\ pls.pipe_shell_pid = Self
    \/ pc = "wait pipe" /\ pls.pipe_pid \in Lost
    \/ WaitsForOther

\* What lies with the user: go comes to an end, and so does every reader whose input has
\* ended, less among them.
SessionsEnd == []<>(pc # "go")
ReadersEnd  == \A s \in Streams : []<>(streams[s].open \/ ~streams[s].cmd)

\* As long as sessions and readers end, every line gets back to the prompt, unless the
\* program ends or waits in vain.
BackToPrompt ==
    SessionsEnd /\ ReadersEnd =>
        (pc \notin Stopped \cup {"prompt"} ~> pc \in Stopped \cup {"prompt"} \/ WaitsInVain)

==============================================================================
