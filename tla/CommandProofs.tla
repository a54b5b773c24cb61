--------------------------- MODULE CommandProofs ---------------------------
(***************************************************************************)
(* The commands around a session. However many streams there may be, what  *)
(* the command loop must not break over a long run of lines holds: they    *)
(* write where they were told to, the handlers a session leaves behind are *)
(* those two sessions ago or the last one decide on, and a stream is lost  *)
(* in two places only. And for any names of tags, any relation of patterns *)
(* and any commands: what the stage, the list in memory and the tag list   *)
(* file agree on between commands, and that a completion returns each name *)
(* that fits once.                                                         *)
(***************************************************************************)
EXTENDS Shell, Tags, FiniteSetTheorems, WellFoundedInduction, TLAPS

\* What the restoring of one line leaves to the next.  Only a paged command has a
\* stdpipe, and only a line without a command begins with '!'.
PlsOK ==
    /\ pc \in {"prompt", "redirect", "find pids", "go"} \cup Restoring => pls.stdpipe = Null
    /\ pc = "dispatch" /\ pls.stdpipe # Null => i \in Paged
    /\ pc \in {"wait pipe", "wait shell", "close file"} => pls.pipe = Null
    /\ redir = "shell" => i = Unknown

\* The last but one session decides on SIGTERM already while the session runs.
HandlersOK ==
    /\ HandlersLeftBehind
    /\ pc = "go" =>
         /\ handler.INT = "sigh"
         /\ oact = "sigh" <=> sessions[1] \in {"finished", "TERM"}

ShellInv == ProgramTypeOK /\ FpIsHeld /\ PlsOK /\ HandlersOK

\* What is known of the line under way from where it was read to where it is restored.
LineOK ==
    /\ pc \in BeforeCommand \cup {"restore"} => fp = WhereTold
    /\ pc \in {"find pids", "dispatch", "go"} => OpenedAsAsked
    /\ pc \in {"prompt", "redirect"} => line.opened = Null
    /\ pc = "redirect" => redir = line.asks
    /\ pc = "find pids" => line.opened # Null
    /\ pc \in Restoring => line = NoLine

-----------------------------------------------------------------------------
(* The parts a step leaves alone *)

LEMMA TypesGive ==
    ASSUME ProgramTypeOK
    PROVE  /\ MaxStreams \in Nat \ {0} /\ Null \notin Streams /\ Self \notin Streams
           /\ fp \in Streams \cup {Null} /\ pls.stdpipe \in Streams \cup {Null}
           /\ pls.pipe \in Streams \cup {Null} /\ pls.ofile \in Streams \cup {Null}
<1>1. MaxStreams \in Nat \ {0} /\ Null \notin Streams /\ Self \notin Streams
  BY ShellAssumption DEF Streams, Null, Self
<1>2. fp \in Streams \cup {Null} BY DEF ProgramTypeOK, Null, Stdout
<1>3. /\ pls.stdpipe \in Streams \cup {Null} /\ pls.pipe \in Streams \cup {Null}
      /\ pls.ofile \in Streams \cup {Null}
  BY DEF ProgramTypeOK
<1>4. QED BY <1>1, <1>2, <1>3

\* HandlersOK speaks of signals and sessions only: a step that leaves them alone
\* keeps it, wherever it goes but out of a session.
LEMMA HandlersKept ==
    ASSUME HandlersOK, UNCHANGED <<handler, oact, sessions>>,
           pc' \in Stopped \/ (pc \notin Stopped /\ pc # "go" /\ pc' # "go") \/ pc' = pc
    PROVE  HandlersOK'
  BY DEF HandlersOK, HandlersLeftBehind, Stopped

\* What the step of a reader or of a shell, or the forgetting of a stream does.
LEMMA Streamed ==
    ASSUME ProgramTypeOK, NEW s \in Streams,
           NEW t \in [kind : {"none", "file", "pipe", "stdpipe"}, open : BOOLEAN,
                      cmd : BOOLEAN, sh : {"none", "runs", "ended"}],
           streams' = [streams EXCEPT ![s] = t]
    PROVE  /\ streams' \in [Streams -> [kind : {"none", "file", "pipe", "stdpipe"}, open : BOOLEAN,
                                cmd : BOOLEAN, sh : {"none", "runs", "ended"}]]
           /\ t.open => Open' = Open \cup {s}
           /\ ~t.open => Open' = Open \ {s}
<1>1. \A u \in Streams : streams'[u] = IF u = s THEN t ELSE streams[u]
  BY DEF ProgramTypeOK
<1>2. streams' \in [Streams -> [kind : {"none", "file", "pipe", "stdpipe"}, open : BOOLEAN,
                                cmd : BOOLEAN, sh : {"none", "runs", "ended"}]]
  BY DEF ProgramTypeOK
<1>3. t.open => Open' = Open \cup {s} BY <1>1 DEF Open
<1>4. ~t.open => Open' = Open \ {s} BY <1>1 DEF Open
<1>5. QED BY <1>2, <1>3, <1>4

LEMMA ClosedStreams ==
    ASSUME ProgramTypeOK, NEW s \in Streams, streams' = Closed(s)
    PROVE  /\ streams' \in [Streams -> [kind : {"none", "file", "pipe", "stdpipe"}, open : BOOLEAN,
                                cmd : BOOLEAN, sh : {"none", "runs", "ended"}]]
           /\ Open' = Open \ {s}
<1> DEFINE t == IF streams[s].kind = "file" THEN Unused ELSE [streams[s] EXCEPT !.open = FALSE]
<1>1. t \in [kind : {"none", "file", "pipe", "stdpipe"}, open : BOOLEAN,
             cmd : BOOLEAN, sh : {"none", "runs", "ended"}] /\ ~t.open
  BY ZenonT(30) DEF ProgramTypeOK, Unused
<1>2. streams' = [streams EXCEPT ![s] = t] BY DEF Closed
<1>3. QED BY <1>1, <1>2, Streamed

LEMMA ReadsLine == ShellInv /\ ReadLine => ShellInv'
<1> SUFFICES ASSUME ShellInv, ReadLine PROVE ShellInv'
  OBVIOUS
<1>1. PICK l \in Lines : redir' = l.redir /\ i' = NextIndex(l.cmd)
  BY DEF ReadLine
<1>2. redir' \in Redirections /\ i' \in Known \cup {Unknown} /\ (redir' = "shell" => i' = Unknown)
  <2>1. l.redir \in Redirections /\ l.cmd \in Known \cup {Unknown, ""}
        /\ (l.redir = "shell" => l.cmd = Unknown)
    BY <1>1 DEF Lines
  <2>2. Unknown # "" BY DEF Unknown
  <2>3. i \in Known \cup {Unknown} BY DEF ShellInv, ProgramTypeOK
  <2>4. QED BY <1>1, <2>1, <2>2, <2>3 DEF NextIndex
<1>3. ProgramTypeOK' BY <1>2 DEF ReadLine, ShellInv, ProgramTypeOK
<1>4. FpIsHeld'
  BY <1>3 DEF ReadLine, ShellInv, FpIsHeld, Held, Open, BeforeCommand, Restoring
<1>5. PlsOK' BY <1>2 DEF ReadLine, ShellInv, PlsOK, Restoring
<1>6. HandlersOK' BY HandlersKept DEF ReadLine, ShellInv, Stopped
<1>7. QED BY <1>3, <1>4, <1>5, <1>6 DEF ShellInv

\* A step that changes pc at most, and redir to "none".
LEMMA OnlyPc ==
    ASSUME ShellInv, UNCHANGED <<i, fp, pls, streams, tty, handler, oact, sessions>>,
           redir' \in {redir, "none"}
    PROVE  /\ pc' \in Stopped => ShellInv'
           /\ pc \in {"prompt", "redirect"} /\ pc' = "dispatch" => ShellInv'
           /\ pc = "redirect" /\ redir = "shell" /\ pc' = "prompt" => ShellInv'
           /\ pc = "dispatch" /\ i = Unknown /\ pc' = "prompt" => ShellInv'
           /\ pc = "dispatch" /\ pc' = "restore" => ShellInv'
           /\ pc = "wait pipe" /\ pc' = "wait shell" => ShellInv'
<1> USE DEF Stopped
<1>1. pc' \in Stopped \cup {"dispatch", "prompt", "restore", "wait shell"} => ProgramTypeOK'
  BY DEF ShellInv, ProgramTypeOK, Redirections
<1>2. Held' = Held /\ Open' = Open BY DEF Held, Open
<1>3. (pc \notin Stopped \cup {"go"} /\ pc' \notin Stopped \cup {"go"}) \/ pc' \in Stopped => HandlersOK'
  BY HandlersKept DEF ShellInv
<1>4. redir' = "shell" => i' = Unknown BY DEF ShellInv, PlsOK
<1>5. CASE pc' \in Stopped
  BY <1>1, <1>2, <1>3, <1>4, <1>5 DEF ShellInv, FpIsHeld, PlsOK, BeforeCommand, Restoring
<1>6. CASE pc \in {"prompt", "redirect"} /\ pc' = "dispatch"
  BY <1>1, <1>2, <1>3, <1>4, <1>6 DEF ShellInv, FpIsHeld, PlsOK, BeforeCommand, Restoring
<1>7. CASE pc = "redirect" /\ redir = "shell" /\ pc' = "prompt"
  BY <1>1, <1>2, <1>3, <1>4, <1>7 DEF ShellInv, FpIsHeld, PlsOK, BeforeCommand, Restoring
<1>8. CASE pc = "dispatch" /\ i = Unknown /\ pc' = "prompt"
  BY <1>1, <1>2, <1>3, <1>4, <1>8 DEF ShellInv, FpIsHeld, PlsOK, BeforeCommand, Restoring, Paged, Unknown
<1>9. CASE pc = "dispatch" /\ pc' = "restore"
  BY <1>1, <1>2, <1>3, <1>4, <1>9 DEF ShellInv, FpIsHeld, PlsOK, BeforeCommand, Restoring
<1>10. CASE pc = "wait pipe" /\ pc' = "wait shell"
  BY <1>1, <1>2, <1>3, <1>4, <1>10 DEF ShellInv, FpIsHeld, PlsOK, BeforeCommand, Restoring
<1>11. QED BY <1>5, <1>6, <1>7, <1>8, <1>9, <1>10

-----------------------------------------------------------------------------
(* setup_redirect *)

\* Whatever a new stream is held as, it is open, held, and what fp is.
LEMMA OpensFile == ShellInv /\ ToFile => ShellInv'
<1> SUFFICES ASSUME ShellInv, ToFile PROVE ShellInv'
  OBVIOUS
<1>1. PICK s \in Streams :
        /\ streams' = [streams EXCEPT ![s] = [Unused EXCEPT !.kind = "file", !.open = TRUE]]
        /\ fp' = s /\ pls' = [pls EXCEPT !.ofile = s]
  BY DEF ToFile
<1>2. /\ streams' \in [Streams -> [kind : {"none", "file", "pipe", "stdpipe"}, open : BOOLEAN,
                                cmd : BOOLEAN, sh : {"none", "runs", "ended"}]]
      /\ Open' = Open \cup {s}
  BY <1>1, Streamed DEF ShellInv, Unused
<1>3. ProgramTypeOK' BY <1>1, <1>2 DEF ShellInv, ProgramTypeOK, ToFile, Redirections
<1>4. pls'.ofile = s /\ pls'.stdpipe = pls.stdpipe /\ pls'.pipe = pls.pipe
  BY <1>1 DEF ShellInv, ProgramTypeOK
<1>5. s # Null BY TypesGive DEF ShellInv
<1>6. s \in Held' BY <1>4, <1>5 DEF Held
<1>7. FpIsHeld'
  BY <1>1, <1>2, <1>3, <1>5, <1>6 DEF FpIsHeld, ToFile, Restoring, Stdout, Null
<1>8. PlsOK' BY <1>4 DEF PlsOK, ToFile, ShellInv, Restoring
<1>9. HandlersOK' BY HandlersKept DEF ToFile, ShellInv, Stopped
<1>10. QED BY <1>3, <1>7, <1>8, <1>9 DEF ShellInv

LEMMA OpensPipe == ShellInv /\ ToPipe => ShellInv'
<1> SUFFICES ASSUME ShellInv, ToPipe PROVE ShellInv'
  OBVIOUS
<1>1. PICK s \in Streams, sh \in {"runs", "none"} :
        /\ streams' = [streams EXCEPT
               ![s] = [kind |-> "pipe", open |-> TRUE, cmd |-> TRUE, sh |-> sh]]
        /\ fp' = s /\ pls' = [pls EXCEPT !.pipe = s, !.pipe_pid = Null, !.pipe_shell_pid = Null]
  BY DEF ToPipe
<1>2. /\ streams' \in [Streams -> [kind : {"none", "file", "pipe", "stdpipe"}, open : BOOLEAN,
                                cmd : BOOLEAN, sh : {"none", "runs", "ended"}]]
      /\ Open' = Open \cup {s}
  BY <1>1, Streamed DEF ShellInv
<1>3. ProgramTypeOK' BY <1>1, <1>2 DEF ShellInv, ProgramTypeOK, ToPipe, Redirections
<1>4. pls'.ofile = pls.ofile /\ pls'.stdpipe = pls.stdpipe /\ pls'.pipe = s
  BY <1>1 DEF ShellInv, ProgramTypeOK
<1>5. s # Null BY TypesGive DEF ShellInv
<1>6. s \in Held' BY <1>4, <1>5 DEF Held
<1>7. FpIsHeld'
  BY <1>1, <1>2, <1>3, <1>5, <1>6 DEF FpIsHeld, ToPipe, Restoring, Stdout, Null
<1>8. PlsOK' BY <1>4 DEF PlsOK, ToPipe, ShellInv, Restoring
<1>9. HandlersOK' BY HandlersKept DEF ToPipe, ShellInv, Stopped
<1>10. QED BY <1>3, <1>7, <1>8, <1>9 DEF ShellInv

LEMMA OpensStdpipe == ShellInv /\ ToStdpipe => ShellInv'
<1> SUFFICES ASSUME ShellInv, ToStdpipe PROVE ShellInv'
  OBVIOUS
<1>1. CASE UNCHANGED <<fp, pls, streams>>
  BY <1>1, OnlyPc DEF ToStdpipe
<1>2. CASE \E s \in Streams :
             /\ streams' = [streams EXCEPT
                   ![s] = [kind |-> "stdpipe", open |-> TRUE, cmd |-> TRUE, sh |-> "none"]]
             /\ fp' = s /\ pls' = [pls EXCEPT !.stdpipe = s, !.stdpipe_pid = s]
  <2>1. PICK s \in Streams :
          /\ streams' = [streams EXCEPT
                ![s] = [kind |-> "stdpipe", open |-> TRUE, cmd |-> TRUE, sh |-> "none"]]
          /\ fp' = s /\ pls' = [pls EXCEPT !.stdpipe = s, !.stdpipe_pid = s]
    BY <1>2
  <2>2. /\ streams' \in [Streams -> [kind : {"none", "file", "pipe", "stdpipe"}, open : BOOLEAN,
                                  cmd : BOOLEAN, sh : {"none", "runs", "ended"}]]
        /\ Open' = Open \cup {s}
    BY <2>1, Streamed DEF ShellInv
  <2>3. ProgramTypeOK' BY <2>1, <2>2 DEF ShellInv, ProgramTypeOK, ToStdpipe, Redirections
  <2>4. pls'.ofile = pls.ofile /\ pls'.stdpipe = s /\ pls'.pipe = pls.pipe
    BY <2>1 DEF ShellInv, ProgramTypeOK
  <2>5. s # Null BY TypesGive DEF ShellInv
  <2>6. s \in Held' BY <2>4, <2>5 DEF Held
  <2>7. FpIsHeld'
    BY <2>1, <2>2, <2>3, <2>5, <2>6 DEF FpIsHeld, ToStdpipe, Restoring, Stdout, Null
  <2>8. PlsOK' BY <2>4 DEF PlsOK, ToStdpipe, ShellInv, Restoring
  <2>9. HandlersOK' BY HandlersKept DEF ToStdpipe, ShellInv, Stopped
  <2>10. QED BY <2>3, <2>7, <2>8, <2>9 DEF ShellInv
<1>3. QED BY <1>1, <1>2 DEF ToStdpipe

LEMMA FindsPids == ShellInv /\ output_command_to_pids => ShellInv'
<1> SUFFICES ASSUME ShellInv, output_command_to_pids PROVE ShellInv'
  OBVIOUS
<1>1. /\ pls' \in [stdpipe : Streams \cup {Null}, stdpipe_pid : Streams \cup {Null},
                pipe : Streams \cup {Null}, pipe_pid : Streams \cup {Null, Other},
                pipe_shell_pid : Streams \cup {Null, Self, Other}, ofile : Streams \cup {Null}]
      /\ pls'.ofile = pls.ofile /\ pls'.stdpipe = pls.stdpipe /\ pls'.pipe = pls.pipe
  BY DEF output_command_to_pids, ShellInv, ProgramTypeOK
<1>2. ProgramTypeOK' BY <1>1 DEF ShellInv, ProgramTypeOK, output_command_to_pids
<1>3. Held' = Held /\ Open' = Open BY <1>1 DEF Held, Open, output_command_to_pids
<1>4. FpIsHeld'
  BY <1>2, <1>3 DEF ShellInv, FpIsHeld, output_command_to_pids, BeforeCommand, Restoring
<1>5. PlsOK' BY <1>1 DEF PlsOK, output_command_to_pids, ShellInv, Restoring
<1>6. HandlersOK' BY HandlersKept DEF output_command_to_pids, ShellInv, Stopped
<1>7. QED BY <1>2, <1>4, <1>5, <1>6 DEF ShellInv

-----------------------------------------------------------------------------
(* The command and the signals *)

LEMMA ClearsFields == ShellInv /\ RunInit => ShellInv'
<1> SUFFICES ASSUME ShellInv, RunInit PROVE ShellInv'
  OBVIOUS
<1>1. pls' \in [stdpipe : Streams \cup {Null}, stdpipe_pid : Streams \cup {Null},
                pipe : Streams \cup {Null}, pipe_pid : Streams \cup {Null, Other},
                pipe_shell_pid : Streams \cup {Null, Self, Other}, ofile : Streams \cup {Null}]
  BY DEF RunInit, NoRedirect
<1>2. ProgramTypeOK' BY <1>1 DEF ShellInv, ProgramTypeOK, RunInit
<1>3. Open' = Open BY DEF RunInit, Open
<1>4. FpIsHeld'
  BY <1>2, <1>3 DEF ShellInv, FpIsHeld, RunInit, BeforeCommand, Restoring
<1>5. PlsOK' BY DEF PlsOK, RunInit, ShellInv, Restoring
<1>6. HandlersOK' BY HandlersKept DEF RunInit, ShellInv, Stopped
<1>7. QED BY <1>2, <1>4, <1>5, <1>6 DEF ShellInv

LEMMA GoesIn == ShellInv /\ RunGo => ShellInv'
<1> SUFFICES ASSUME ShellInv, RunGo PROVE ShellInv'
  OBVIOUS
<1>1. ProgramTypeOK' BY DEF ShellInv, ProgramTypeOK, RunGo
<1>2. Held' = Held /\ Open' = Open BY DEF Held, Open, RunGo
<1>3. FpIsHeld'
  BY <1>1, <1>2 DEF ShellInv, FpIsHeld, RunGo, BeforeCommand, Restoring
<1>4. PlsOK' BY DEF PlsOK, RunGo, ShellInv, Restoring, Paged
<1>5. HandlersOK'
  BY DEF RunGo, ShellInv, ProgramTypeOK, HandlersOK, HandlersLeftBehind, Stopped
<1>6. QED BY <1>1, <1>3, <1>4, <1>5 DEF ShellInv

\* The one place where a session leaves: h is what is left of the handlers.
LEMMA Leaves ==
    ASSUME ShellInv, pc = "go", UNCHANGED <<redir, i, fp, pls, streams, tty, oact>>,
           NEW h \in [{"INT", "TERM"} -> {"default", "sigh"}],
           NEW how \in {"finished", "INT", "TERM"}, LeaveGo(h, how),
           h.INT = "sigh" <=> how \in {"finished", "TERM"}
    PROVE  ShellInv'
<1>1. sessions' \in Seq({"none", "finished", "INT", "TERM"}) /\ Len(sessions') = 2
      /\ sessions'[1] = how /\ sessions'[2] = sessions[1]
  BY DEF LeaveGo, ShellInv, ProgramTypeOK
<1>2. /\ handler' \in [{"INT", "TERM"} -> {"default", "sigh"}]
      /\ handler'.INT = h.INT /\ handler'.TERM = oact
  BY DEF LeaveGo, ShellInv, ProgramTypeOK
<1>3. ProgramTypeOK' BY <1>1, <1>2 DEF LeaveGo, ShellInv, ProgramTypeOK
<1>4. Open' = Open BY DEF Open
<1>5. FpIsHeld'
  BY <1>3, <1>4 DEF ShellInv, FpIsHeld, LeaveGo, BeforeCommand, Restoring
<1>6. PlsOK' BY DEF PlsOK, LeaveGo, ShellInv, Restoring
<1>7. HandlersOK'
  BY <1>1, <1>2 DEF LeaveGo, ShellInv, HandlersOK, HandlersLeftBehind, Stopped
<1>8. QED BY <1>3, <1>5, <1>6, <1>7 DEF ShellInv

LEMMA Signals ==
    ASSUME ShellInv, NEW sig \in {"INT", "TERM"}, Signal(sig)
    PROVE  ShellInv'
<1>1. CASE pc' \in Stopped /\ UNCHANGED <<handler, sessions>>
  BY <1>1, OnlyPc DEF Signal
<1>2. CASE handler[sig] = "sigh" /\ pc = "go" /\ LeaveGo([handler EXCEPT ![sig] = "default"], sig)
  <2> DEFINE h == [handler EXCEPT ![sig] = "default"]
  <2>1. h \in [{"INT", "TERM"} -> {"default", "sigh"}] BY DEF ShellInv, ProgramTypeOK
  <2>2. h.INT = "sigh" <=> sig \in {"finished", "TERM"}
    BY <1>2 DEF ShellInv, ProgramTypeOK, HandlersOK
  <2>3. QED BY <1>2, <2>1, <2>2, Leaves DEF Signal
<1>3. QED BY <1>1, <1>2 DEF Signal, Stopped

LEMMA SessionEnds == ShellInv /\ GoEnds => ShellInv'
<1> SUFFICES ASSUME ShellInv, GoEnds PROVE ShellInv'
  OBVIOUS
<1>1. handler \in [{"INT", "TERM"} -> {"default", "sigh"}] BY DEF ShellInv, ProgramTypeOK
<1>2. handler.INT = "sigh" BY DEF ShellInv, HandlersOK, GoEnds
<1>3. QED BY <1>1, <1>2, Leaves DEF GoEnds

-----------------------------------------------------------------------------
(* restore_sanity *)

LEMMA ClosesStdpipe == ShellInv /\ CloseStdpipe => ShellInv'
<1> SUFFICES ASSUME ShellInv, CloseStdpipe PROVE ShellInv'
  OBVIOUS
<1>1. /\ pls' \in [stdpipe : Streams \cup {Null}, stdpipe_pid : Streams \cup {Null},
                pipe : Streams \cup {Null}, pipe_pid : Streams \cup {Null, Other},
                pipe_shell_pid : Streams \cup {Null, Self, Other}, ofile : Streams \cup {Null}]
      /\ pls'.stdpipe = Null
  BY DEF CloseStdpipe, ShellInv, ProgramTypeOK
<1>2. streams' \in [Streams -> [kind : {"none", "file", "pipe", "stdpipe"}, open : BOOLEAN,
                                cmd : BOOLEAN, sh : {"none", "runs", "ended"}]]
  BY TypesGive, ClosedStreams DEF CloseStdpipe, ShellInv, ProgramTypeOK
<1>3. ProgramTypeOK' BY <1>1, <1>2 DEF ShellInv, ProgramTypeOK, CloseStdpipe, SaneFp
<1>4. FpIsHeld'
  BY <1>3 DEF FpIsHeld, CloseStdpipe, SaneFp, BeforeCommand, Restoring
<1>5. PlsOK' BY <1>1 DEF PlsOK, CloseStdpipe, ShellInv, Restoring
<1>6. HandlersOK' BY HandlersKept DEF CloseStdpipe, ShellInv, Stopped
<1>7. QED BY <1>3, <1>4, <1>5, <1>6 DEF ShellInv

LEMMA ClosesPipe == ShellInv /\ ClosePipe => ShellInv'
<1> SUFFICES ASSUME ShellInv, ClosePipe PROVE ShellInv'
  OBVIOUS
<1>1. /\ pls' \in [stdpipe : Streams \cup {Null}, stdpipe_pid : Streams \cup {Null},
                pipe : Streams \cup {Null}, pipe_pid : Streams \cup {Null, Other},
                pipe_shell_pid : Streams \cup {Null, Self, Other}, ofile : Streams \cup {Null}]
      /\ pls'.stdpipe = pls.stdpipe /\ pls'.pipe = Null
  BY ZenonT(30) DEF ClosePipe, ShellInv, ProgramTypeOK
<1>2. streams' \in [Streams -> [kind : {"none", "file", "pipe", "stdpipe"}, open : BOOLEAN,
                                cmd : BOOLEAN, sh : {"none", "runs", "ended"}]]
  BY TypesGive, ClosedStreams DEF ClosePipe, ShellInv, ProgramTypeOK
<1>3. pc' \in {"close file", "wait pipe"} /\ pc = "wait stdpipe" BY DEF ClosePipe
<1>4. ProgramTypeOK' BY <1>1, <1>2, <1>3 DEF ShellInv, ProgramTypeOK, ClosePipe
<1>5. FpIsHeld'
  BY <1>3, <1>4 DEF FpIsHeld, ClosePipe, BeforeCommand, Restoring, ShellInv
<1>6. PlsOK' BY <1>1, <1>3 DEF PlsOK, ClosePipe, ShellInv, Restoring
<1>7. HandlersOK' BY <1>3, HandlersKept DEF ClosePipe, ShellInv, Stopped
<1>8. QED BY <1>4, <1>5, <1>6, <1>7 DEF ShellInv

LEMMA WaitsForShell == ShellInv /\ WaitShell => ShellInv'
<1> SUFFICES ASSUME ShellInv, WaitShell PROVE ShellInv'
  OBVIOUS
<1>1. /\ pls' \in [stdpipe : Streams \cup {Null}, stdpipe_pid : Streams \cup {Null},
                pipe : Streams \cup {Null}, pipe_pid : Streams \cup {Null, Other},
                pipe_shell_pid : Streams \cup {Null, Self, Other}, ofile : Streams \cup {Null}]
      /\ pls'.stdpipe = pls.stdpipe /\ pls'.pipe = pls.pipe
  BY DEF WaitShell, ShellInv, ProgramTypeOK
<1>2. ProgramTypeOK' BY <1>1 DEF ShellInv, ProgramTypeOK, WaitShell
<1>3. FpIsHeld'
  BY <1>2 DEF FpIsHeld, WaitShell, BeforeCommand, Restoring, ShellInv
<1>4. PlsOK' BY <1>1 DEF PlsOK, WaitShell, ShellInv, Restoring
<1>5. HandlersOK' BY HandlersKept DEF WaitShell, ShellInv, Stopped
<1>6. QED BY <1>2, <1>3, <1>4, <1>5 DEF ShellInv

\* Back at the prompt nothing is held any more.
LEMMA ClosesFile == ShellInv /\ CloseFile => ShellInv'
<1> SUFFICES ASSUME ShellInv, CloseFile PROVE ShellInv'
  OBVIOUS
<1>1. /\ pls' \in [stdpipe : Streams \cup {Null}, stdpipe_pid : Streams \cup {Null},
                pipe : Streams \cup {Null}, pipe_pid : Streams \cup {Null, Other},
                pipe_shell_pid : Streams \cup {Null, Self, Other}, ofile : Streams \cup {Null}]
      /\ pls'.stdpipe = pls.stdpipe /\ pls'.pipe = pls.pipe /\ pls'.ofile = Null
  BY DEF CloseFile, ShellInv, ProgramTypeOK
<1>2. streams' \in [Streams -> [kind : {"none", "file", "pipe", "stdpipe"}, open : BOOLEAN,
                                cmd : BOOLEAN, sh : {"none", "runs", "ended"}]]
  BY TypesGive, ClosedStreams DEF CloseFile, ShellInv, ProgramTypeOK
<1>3. ProgramTypeOK' BY <1>1, <1>2 DEF ShellInv, ProgramTypeOK, CloseFile
<1>4. Held' = {} BY <1>1 DEF ShellInv, PlsOK, CloseFile, Held, Restoring
<1>5. FpIsHeld'
  BY <1>3, <1>4 DEF FpIsHeld, CloseFile, BeforeCommand, Restoring, ShellInv
<1>6. PlsOK' BY <1>1 DEF PlsOK, CloseFile, ShellInv, Restoring
<1>7. HandlersOK' BY HandlersKept DEF CloseFile, ShellInv, Stopped
<1>8. QED BY <1>3, <1>5, <1>6, <1>7 DEF ShellInv

-----------------------------------------------------------------------------
(* The other processes and the next start *)

\* What the rest of the world does to a stream neither opens nor closes one.
LEMMA TypeKept ==
    ASSUME ProgramTypeOK, UNCHANGED <<pc, redir, i, fp, pls, tty, handler, oact, sessions>>,
           streams' \in [Streams -> [kind : {"none", "file", "pipe", "stdpipe"}, open : BOOLEAN,
                                cmd : BOOLEAN, sh : {"none", "runs", "ended"}]]
    PROVE  ProgramTypeOK'
<1>1. /\ pc' = pc /\ redir' = redir /\ i' = i /\ fp' = fp /\ pls' = pls /\ tty' = tty
      /\ handler' = handler /\ oact' = oact /\ sessions' = sessions
  OBVIOUS
<1>2. pc' \in {"prompt", "redirect", "find pids", "dispatch", "go", "restore",
               "wait stdpipe", "wait pipe", "wait shell", "close file"} \cup Stopped
  BY <1>1 DEF ProgramTypeOK
<1>3. redir' \in Redirections /\ i' \in Known \cup {Unknown} /\ fp' \in Streams \cup {Stdout}
  BY <1>1 DEF ProgramTypeOK
<1>4. pls' \in [stdpipe : Streams \cup {Null}, stdpipe_pid : Streams \cup {Null},
                pipe : Streams \cup {Null}, pipe_pid : Streams \cup {Null, Other},
                pipe_shell_pid : Streams \cup {Null, Self, Other}, ofile : Streams \cup {Null}]
  BY <1>1 DEF ProgramTypeOK
<1>5. tty' \in BOOLEAN BY <1>1 DEF ProgramTypeOK
<1>6. /\ handler' \in [{"INT", "TERM"} -> {"default", "sigh"}]
      /\ oact' \in {"default", "sigh"}
      /\ sessions' \in Seq({"none", "finished", "INT", "TERM"}) /\ Len(sessions') = 2
  BY <1>1 DEF ProgramTypeOK
<1>7. QED BY <1>2, <1>3, <1>4, <1>5, <1>6 DEF ProgramTypeOK

LEMMA WorldKeeps ==
    ASSUME ShellInv, World
    PROVE  ShellInv' /\ Open' = Open /\ UNCHANGED <<pc, pls>>
<1>1. PICK s \in Streams : ReaderEnds(s) \/ ShEnds(s) \/ Forget(s) BY DEF World
<1>2. /\ streams' \in [Streams -> [kind : {"none", "file", "pipe", "stdpipe"}, open : BOOLEAN,
                                cmd : BOOLEAN, sh : {"none", "runs", "ended"}]]
      /\ \A u \in Streams : streams'[u].open = streams[u].open
  <2>1. CASE ReaderEnds(s) BY <2>1, ZenonT(30) DEF ReaderEnds, ShellInv, ProgramTypeOK
  <2>2. CASE ShEnds(s) BY <2>2, ZenonT(30) DEF ShEnds, ShellInv, ProgramTypeOK
  <2>3. CASE Forget(s) BY <2>3 DEF Forget, ShellInv, ProgramTypeOK, Unused
  <2>4. QED BY <1>1, <2>1, <2>2, <2>3
<1>3. UNCHANGED <<pc, redir, i, fp, pls, tty, handler, oact, sessions>>
  BY <1>1 DEF ReaderEnds, ShEnds, Forget
<1>4. ProgramTypeOK' BY <1>2, <1>3, TypeKept DEF ShellInv
<1>5. Open' = Open BY <1>2 DEF Open
<1>6. Held' = Held BY <1>3 DEF Held
<1>7. FpIsHeld' BY <1>3, <1>4, <1>5, <1>6 DEF ShellInv, FpIsHeld
<1>8. PlsOK' BY <1>3 DEF PlsOK, ShellInv
<1>9. HandlersOK' BY <1>3 DEF HandlersOK, HandlersLeftBehind, ShellInv
<1>10. QED BY <1>3, <1>4, <1>5, <1>7, <1>8, <1>9 DEF ShellInv

LEMMA FirstPrompt == ShellInit => ShellInv
<1> SUFFICES ASSUME ShellInit PROVE ShellInv
  OBVIOUS
<1>1. ProgramTypeOK
  BY DEF ShellInit, ProgramTypeOK, NoRedirect, Unused, Known, Redirections
<1>2. Held = {} BY DEF ShellInit, NoRedirect, Held
<1>3. FpIsHeld
  BY <1>1, <1>2 DEF ShellInit, FpIsHeld, Restoring, Stopped
<1>4. PlsOK BY DEF PlsOK, ShellInit, NoRedirect
<1>5. HandlersOK BY DEF HandlersOK, HandlersLeftBehind, ShellInit
<1>6. QED BY <1>1, <1>3, <1>4, <1>5 DEF ShellInv

LEMMA Starts == Start => ShellInv'
<1> SUFFICES ASSUME Start PROVE ShellInv'
  OBVIOUS
<1>1. ProgramTypeOK'
  BY DEF Start, ProgramTypeOK, NoRedirect, Unused, Known, Redirections
<1>2. Held' = {} BY DEF Start, NoRedirect, Held
<1>3. FpIsHeld'
  BY <1>1, <1>2 DEF Start, FpIsHeld, Restoring, Stopped
<1>4. PlsOK' BY DEF PlsOK, Start, NoRedirect
<1>5. HandlersOK' BY DEF HandlersOK, HandlersLeftBehind, Start
<1>6. QED BY <1>1, <1>3, <1>4, <1>5 DEF ShellInv

LEMMA ShellStep == ShellInv /\ [ShellNext]_vars => ShellInv'
<1> SUFFICES ASSUME ShellInv, [ShellNext]_vars PROVE ShellInv'
  OBVIOUS
<1>1. CASE ReadLine BY <1>1, ReadsLine
<1>2. CASE EndOfInput \/ WriteToNobody \/ RunLast
  BY <1>2, OnlyPc DEF EndOfInput, WriteToNobody, RunLast, Stopped
<1>3. CASE LetThrough BY <1>3, OnlyPc DEF LetThrough
<1>4. CASE ShellCommand BY <1>4, OnlyPc DEF ShellCommand
<1>5. CASE ToFile \/ ToPipe \/ ToStdpipe \/ output_command_to_pids
  BY <1>5, OpensFile, OpensPipe, OpensStdpipe, FindsPids
<1>6. CASE NotACommand \/ RunPlain \/ WaitPipe
  BY <1>6, OnlyPc DEF NotACommand, RunPlain, WaitPipe
<1>7. CASE RunInit \/ RunGo \/ GoEnds BY <1>7, ClearsFields, GoesIn, SessionEnds
<1>8. CASE CloseStdpipe \/ ClosePipe \/ WaitShell \/ CloseFile
  BY <1>8, ClosesStdpipe, ClosesPipe, WaitsForShell, ClosesFile
<1>9. CASE Signal("INT") \/ Signal("TERM") BY <1>9, Signals
<1>10. CASE World BY <1>10, WorldKeeps
<1>11. CASE Start BY <1>11, Starts
<1>12. CASE UNCHANGED vars
  <2>1. ProgramTypeOK' /\ Held' = Held /\ Open' = Open
    BY <1>12, TypeKept DEF vars, ShellInv, ProgramTypeOK, Held, Open
  <2>2. FpIsHeld' /\ PlsOK' BY <1>12, <2>1 DEF vars, ShellInv, FpIsHeld, PlsOK
  <2>3. HandlersOK' BY <1>12 DEF vars, ShellInv, HandlersOK, HandlersLeftBehind
  <2>4. QED BY <2>1, <2>2, <2>3 DEF ShellInv
<1>13. QED
  BY <1>1, <1>2, <1>3, <1>4, <1>5, <1>6, <1>7, <1>8, <1>9, <1>10, <1>11, <1>12
  DEF ShellNext, Main

-----------------------------------------------------------------------------
(* The line under way *)

LEMMA LineTyped == LineTypeOK /\ [ShellNext]_vars => LineTypeOK'
<1> SUFFICES ASSUME LineTypeOK, [ShellNext]_vars PROVE LineTypeOK'
  OBVIOUS
<1>1. NoLine \in [asks : Redirections, opened : Streams \cup {Null}, before : Streams \cup {Null}]
  BY DEF NoLine, Redirections
<1>2. CASE ReadLine
  <2>1. PICK l \in Lines : line' = [line EXCEPT !.asks = l.redir] BY <1>2 DEF ReadLine
  <2>2. l.redir \in Redirections BY DEF Lines
  <2>3. QED BY <2>1, <2>2 DEF LineTypeOK
<1>3. CASE ToFile \/ ToPipe \/ ToStdpipe
  BY <1>3 DEF ToFile, ToPipe, ToStdpipe, LineTypeOK
<1>4. CASE NotACommand
  <2>1. line' = [NoLine EXCEPT !.before = WhereTold] BY <1>4 DEF NotACommand
  <2>2. WhereTold \in Streams \cup {Null} BY DEF WhereTold, LineTypeOK
  <2>3. QED BY <1>1, <2>1, <2>2 DEF LineTypeOK
<1>5. CASE CloseStdpipe \/ Start BY <1>1, <1>5 DEF CloseStdpipe, Start, LineTypeOK
<1>6. CASE UNCHANGED line BY <1>6 DEF LineTypeOK
<1>7. QED
  BY <1>2, <1>3, <1>4, <1>5, <1>6
  DEF ShellNext, Main, World, EndOfInput, LetThrough, ShellCommand, output_command_to_pids,
      RunPlain, RunInit, RunLast, RunGo, GoEnds, ClosePipe, WaitPipe, WaitShell, CloseFile,
      WriteToNobody, Signal, ReaderEnds, ShEnds, Forget, vars

\* A stream that is opened for the line.
LEMMA OpensForLine ==
    ASSUME ShellInv, LineTypeOK, LineOK, ToFile \/ ToPipe \/ ToStdpipe
    PROVE  LineOK'
<1>1. pc = "redirect" /\ line.opened = Null /\ fp = line.before /\ redir = line.asks /\ UNCHANGED i
      /\ pc' \in {"find pids", "dispatch"} /\ (pc' = "find pids" => ToPipe)
  BY DEF LineOK, ToFile, ToPipe, ToStdpipe, BeforeCommand, WhereTold
<1>2. CASE UNCHANGED <<fp, line>>
  <2>1. ToStdpipe
    <3>1. ASSUME NEW s \in Streams, line' = [line EXCEPT !.opened = s] PROVE FALSE
      <4>1. line'.opened = s /\ s # Null BY <3>1 DEF LineTypeOK, Streams, Null
      <4>2. QED BY <1>1, <1>2, <4>1
    <3>2. QED BY <3>1 DEF ToFile, ToPipe
  <2>2. line.asks = "none" /\ pc' = "dispatch" BY <1>1, <2>1 DEF ToStdpipe
  <2>3. OpenedAsAsked' /\ fp' = WhereTold' BY <1>1, <1>2, <2>2 DEF OpenedAsAsked, WhereTold
  <2>4. QED BY <2>2, <2>3 DEF LineOK, BeforeCommand, Restoring
<1>3. CASE ~UNCHANGED <<fp, line>>
  <2>1. PICK s \in Streams :
            /\ fp' = s /\ line' = [line EXCEPT !.opened = s]
            /\ \/ ToFile /\ streams' = [streams EXCEPT ![s] = [Unused EXCEPT !.kind = "file", !.open = TRUE]]
               \/ ToPipe /\ \E sh \in {"runs", "none"} : streams' = [streams EXCEPT
                      ![s] = [kind |-> "pipe", open |-> TRUE, cmd |-> TRUE, sh |-> sh]]
               \/ ToStdpipe /\ streams' = [streams EXCEPT
                      ![s] = [kind |-> "stdpipe", open |-> TRUE, cmd |-> TRUE, sh |-> "none"]]
    BY <1>3 DEF ToFile, ToPipe, ToStdpipe
  <2>2. line'.opened = s /\ line'.asks = line.asks /\ s # Null
    BY <2>1 DEF LineTypeOK, Streams, Null
  <2>3. streams \in [Streams -> [kind : {"none", "file", "pipe", "stdpipe"}, open : BOOLEAN,
                                cmd : BOOLEAN, sh : {"none", "runs", "ended"}]]
    BY DEF ShellInv, ProgramTypeOK
  <2>4. streams'[s].kind = Opens(line.asks)
    <3>1. CASE ToFile
      <4>1. line.asks = "file" BY <1>1, <3>1 DEF ToFile
      <4>2. streams'[s].kind = "file" BY <2>1, <2>3, <3>1, <4>1, <1>1 DEF Unused, ToFile, ToPipe, ToStdpipe
      <4>3. QED BY <4>1, <4>2 DEF Opens
    <3>2. CASE ToPipe
      <4>1. line.asks \in {"pipe", "pipe>"} BY <1>1, <3>2 DEF ToPipe
      <4>2. ~ToFile /\ ~ToStdpipe BY <1>1, <4>1 DEF ToFile, ToStdpipe
      <4>3. PICK sh \in {"runs", "none"} : streams' = [streams EXCEPT
                ![s] = [kind |-> "pipe", open |-> TRUE, cmd |-> TRUE, sh |-> sh]]
        BY <2>1, <4>2
      <4>4. streams'[s].kind = "pipe" BY <2>3, <4>3
      <4>5. QED BY <4>1, <4>4 DEF Opens
    <3>3. CASE ToStdpipe
      <4>1. line.asks = "none" BY <1>1, <3>3 DEF ToStdpipe
      <4>2. ~ToFile /\ ~ToPipe BY <1>1, <4>1 DEF ToFile, ToPipe
      <4>3. streams' = [streams EXCEPT
                ![s] = [kind |-> "stdpipe", open |-> TRUE, cmd |-> TRUE, sh |-> "none"]]
        BY <2>1, <4>2
      <4>4. streams'[s].kind = "stdpipe" BY <2>3, <4>3
      <4>5. QED BY <4>1, <4>4 DEF Opens
    <3>4. QED BY <3>1, <3>2, <3>3
  <2>5. line.asks = "none" => i \in Paged BY <1>1 DEF ToFile, ToPipe, ToStdpipe
  <2>6. OpenedAsAsked' BY <1>1, <2>2, <2>4, <2>5 DEF OpenedAsAsked
  <2>7. fp' = WhereTold' BY <2>1, <2>2 DEF WhereTold
  <2>8. QED BY <1>1, <2>2, <2>6, <2>7 DEF LineOK, BeforeCommand, Restoring
<1>4. QED BY <1>2, <1>3

\* The other processes leave fp and the kind of the stream it is alone.
LEMMA WorldLeavesLine ==
    ASSUME ShellInv, LineTypeOK, LineOK, World
    PROVE  LineOK'
<1>1. PICK s \in Streams : ReaderEnds(s) \/ ShEnds(s) \/ Forget(s) BY DEF World
<1>2. UNCHANGED <<pc, redir, i, fp, line>> BY <1>1 DEF ReaderEnds, ShEnds, Forget
<1>3. streams \in [Streams -> [kind : {"none", "file", "pipe", "stdpipe"}, open : BOOLEAN,
                              cmd : BOOLEAN, sh : {"none", "runs", "ended"}]]
  BY DEF ShellInv, ProgramTypeOK
<1>4. \A u \in Streams \ {Null} : u = fp => streams'[u].kind = streams[u].kind
  <2>1. CASE ReaderEnds(s) BY <1>3, <2>1, ZenonT(30) DEF ReaderEnds
  <2>2. CASE ShEnds(s) BY <1>3, <2>2, ZenonT(30) DEF ShEnds
  <2>3. CASE Forget(s) BY <1>3, <2>3 DEF Forget
  <2>4. QED BY <1>1, <2>1, <2>2, <2>3
<1>5. ASSUME pc \in {"find pids", "dispatch", "go"} PROVE OpenedAsAsked'
  <2>1. OpenedAsAsked /\ fp = WhereTold BY <1>5 DEF LineOK, BeforeCommand
  <2>2. line.opened # Null => line.opened = fp /\ line.opened \in Streams \ {Null}
    BY <2>1 DEF WhereTold, LineTypeOK
  <2>3. line.opened # Null => streams'[line.opened].kind = streams[line.opened].kind
    BY <1>4, <2>2
  <2>4. QED BY <1>2, <2>1, <2>3 DEF OpenedAsAsked
<1>6. WhereTold' = WhereTold BY <1>2 DEF WhereTold
<1>7. QED BY <1>2, <1>5, <1>6 DEF LineOK

LEMMA LineStep ==
    ASSUME ShellInv, LineTypeOK, LineOK, [ShellNext]_vars
    PROVE  LineOK'
<1> USE DEF BeforeCommand, Restoring
<1>1. CASE pc' \in Stopped BY <1>1 DEF LineOK, Stopped
<1>2. CASE ReadLine
  <2>1. PICK l \in Lines : redir' = l.redir /\ line' = [line EXCEPT !.asks = l.redir]
    BY <1>2 DEF ReadLine
  <2>2. line'.asks = redir' /\ line'.opened = line.opened /\ line'.before = line.before
    BY <2>1 DEF LineTypeOK
  <2>3. pc = "prompt" /\ pc' = "redirect" /\ UNCHANGED fp BY <1>2 DEF ReadLine
  <2>4. QED BY <2>2, <2>3 DEF LineOK, WhereTold
<1>3. CASE LetThrough
  <2>1. pc = "redirect" /\ pc' = "dispatch" /\ UNCHANGED <<i, fp, line>>
        /\ (redir \in {"none", "bad"} \/ ~IsRedirected)
    BY <1>3 DEF LetThrough
  <2>2. i = Unknown \/ redir \in {"none", "bad"}
    BY <2>1 DEF IsRedirected, ShellInv, ProgramTypeOK
  <2>3. line.opened = Null /\ redir = line.asks BY <2>1 DEF LineOK
  <2>4. OpenedAsAsked' BY <2>1, <2>2, <2>3 DEF OpenedAsAsked
  <2>5. QED BY <2>1, <2>4 DEF LineOK, WhereTold
<1>4. CASE ShellCommand BY <1>4 DEF ShellCommand, LineOK, WhereTold
<1>5. CASE ToFile \/ ToPipe \/ ToStdpipe BY <1>5, OpensForLine
<1>6. CASE output_command_to_pids
  <2>1. pc = "find pids" /\ pc' = "dispatch" /\ UNCHANGED <<i, fp, streams, line>>
    BY <1>6 DEF output_command_to_pids
  <2>2. QED BY <2>1 DEF LineOK, WhereTold, OpenedAsAsked
<1>7. CASE NotACommand
  <2>1. pc = "dispatch" /\ pc' = "prompt" /\ fp' = fp /\ line' = [NoLine EXCEPT !.before = WhereTold]
    BY <1>7 DEF NotACommand
  <2>2. line'.opened = Null /\ line'.before = WhereTold BY <2>1 DEF NoLine
  <2>3. QED BY <2>1, <2>2 DEF LineOK, WhereTold
<1>8. CASE RunPlain \/ RunInit
  BY <1>8 DEF RunPlain, RunInit, LineOK, WhereTold
<1>9. CASE RunGo BY <1>9 DEF RunGo, LineOK, WhereTold, OpenedAsAsked
<1>10. CASE GoEnds BY <1>10 DEF GoEnds, LeaveGo, LineOK, WhereTold
<1>11. CASE Signal("INT") \/ Signal("TERM")
  <2>1. pc' \in Stopped \/ (pc = "go" /\ pc' = "restore" /\ UNCHANGED <<fp, line>>)
    BY <1>11 DEF Signal, LeaveGo, Stopped
  <2>2. QED BY <1>1, <2>1 DEF LineOK, WhereTold
<1>12. CASE CloseStdpipe BY <1>12 DEF CloseStdpipe, LineOK, NoLine, WhereTold
<1>13. CASE ClosePipe \/ WaitPipe \/ WaitShell
  <2>1. pc \in Restoring /\ pc' \in Restoring /\ UNCHANGED line
    BY <1>13 DEF ClosePipe, WaitPipe, WaitShell
  <2>2. QED BY <2>1 DEF LineOK
<1>14. CASE CloseFile
  <2>1. pc = "close file" /\ pc' = "prompt" /\ UNCHANGED <<fp, line>> BY <1>14 DEF CloseFile
  <2>2. line = NoLine /\ fp = Stdout BY <2>1 DEF LineOK, ShellInv, FpIsHeld
  <2>3. QED BY <2>1, <2>2 DEF LineOK, NoLine, WhereTold, Stdout, Null
<1>15. CASE World BY <1>15, WorldLeavesLine
<1>16. CASE Start BY <1>16 DEF Start, LineOK, NoLine, WhereTold, Stdout, Null
<1>17. CASE UNCHANGED vars BY <1>17 DEF vars, LineOK, WhereTold, OpenedAsAsked
<1>18. CASE EndOfInput \/ WriteToNobody \/ RunLast
  BY <1>1, <1>18 DEF EndOfInput, WriteToNobody, RunLast, Stopped
<1>19. QED
  BY <1>2, <1>3, <1>4, <1>5, <1>6, <1>7, <1>8, <1>9, <1>10, <1>11, <1>12, <1>13, <1>14, <1>15,
     <1>16, <1>17, <1>18
  DEF ShellNext, Main

-----------------------------------------------------------------------------
(* Where a stream can be lost *)

LossAllowed ==
    \/ pc = "dispatch" /\ i = "init"
    \/ pc = "redirect" /\ (pls.ofile # Null \/ pls.pipe # Null)

\* A new stream is held; the one it takes the place of is lost.
LEMMA OpeningLoses ==
    ASSUME ShellInv, ToFile \/ ToPipe \/ ToStdpipe
    PROVE  Lost' \subseteq Lost \/ LossAllowed
<1>1. pc = "redirect" /\ pls.stdpipe = Null
  BY DEF ShellInv, PlsOK, ToFile, ToPipe, ToStdpipe
<1> SUFFICES ASSUME pls.ofile = Null, pls.pipe = Null PROVE Lost' \subseteq Lost
  BY <1>1 DEF LossAllowed
<1>2. CASE ToFile
  <2>1. PICK s \in Streams :
          /\ streams' = [streams EXCEPT ![s] = [Unused EXCEPT !.kind = "file", !.open = TRUE]]
          /\ pls' = [pls EXCEPT !.ofile = s]
    BY <1>2 DEF ToFile
  <2>2. Open' = Open \cup {s} BY <2>1, Streamed DEF ShellInv, Unused
  <2>3. pls'.ofile = s BY <2>1 DEF ShellInv, ProgramTypeOK
  <2>4. s # Null BY TypesGive DEF ShellInv
  <2>5. Held = {} BY <1>1 DEF Held
  <2>6. s \in Held' BY <2>3, <2>4 DEF Held
  <2>7. QED BY <2>2, <2>5, <2>6 DEF Lost
<1>3. CASE ToPipe
  <2>1. PICK s \in Streams, sh \in {"runs", "none"} :
          /\ streams' = [streams EXCEPT
                 ![s] = [kind |-> "pipe", open |-> TRUE, cmd |-> TRUE, sh |-> sh]]
          /\ pls' = [pls EXCEPT !.pipe = s, !.pipe_pid = Null, !.pipe_shell_pid = Null]
    BY <1>3 DEF ToPipe
  <2>2. Open' = Open \cup {s} BY <2>1, Streamed DEF ShellInv
  <2>3. pls'.pipe = s BY <2>1 DEF ShellInv, ProgramTypeOK
  <2>4. s # Null BY TypesGive DEF ShellInv
  <2>5. Held = {} BY <1>1 DEF Held
  <2>6. s \in Held' BY <2>3, <2>4 DEF Held
  <2>7. QED BY <2>2, <2>5, <2>6 DEF Lost
<1>4. CASE ToStdpipe
  <2>1. CASE UNCHANGED <<fp, pls, streams>>
    BY <2>1 DEF Lost, Open, Held
  <2>2. CASE ~UNCHANGED <<fp, pls, streams>>
    <3>1. PICK s \in Streams :
            /\ streams' = [streams EXCEPT
                  ![s] = [kind |-> "stdpipe", open |-> TRUE, cmd |-> TRUE, sh |-> "none"]]
            /\ pls' = [pls EXCEPT !.stdpipe = s, !.stdpipe_pid = s]
      BY <1>4, <2>2 DEF ToStdpipe
    <3>2. Open' = Open \cup {s} BY <3>1, Streamed DEF ShellInv
    <3>3. pls'.stdpipe = s BY <3>1 DEF ShellInv, ProgramTypeOK
    <3>4. s # Null BY TypesGive DEF ShellInv
    <3>5. Held = {} BY <1>1 DEF Held
    <3>6. s \in Held' BY <3>3, <3>4 DEF Held
    <3>7. QED BY <3>2, <3>5, <3>6 DEF Lost
  <2>3. QED BY <2>1, <2>2
<1>5. QED BY <1>2, <1>3, <1>4

\* What restore_sanity lets go of it has closed.
LEMMA ClosingLosesNone ==
    ASSUME ShellInv, CloseStdpipe \/ ClosePipe \/ CloseFile
    PROVE  Lost' \subseteq Lost
<1>1. CASE CloseStdpipe
  <2>1. CASE pls.stdpipe = Null BY <1>1, <2>1 DEF CloseStdpipe, Lost, Open, Held
  <2>2. CASE pls.stdpipe # Null
    <3>1. Open' = Open \ {pls.stdpipe}
      BY <1>1, <2>2, TypesGive, ClosedStreams DEF CloseStdpipe, ShellInv
    <3>2. pls'.stdpipe = Null /\ pls'.pipe = pls.pipe /\ pls'.ofile = pls.ofile
      BY <1>1, <2>2 DEF CloseStdpipe, ShellInv, ProgramTypeOK
    <3>3. QED BY <3>1, <3>2 DEF Lost, Held
  <2>3. QED BY <2>1, <2>2
<1>2. CASE ClosePipe
  <2>1. CASE pls.pipe = Null
    <3>1. pls'.stdpipe = pls.stdpipe /\ pls'.pipe = pls.pipe /\ pls'.ofile = pls.ofile
      BY <1>2, <2>1 DEF ClosePipe, ShellInv, ProgramTypeOK
    <3>2. QED BY <1>2, <2>1, <3>1 DEF ClosePipe, Lost, Open, Held
  <2>2. CASE pls.pipe # Null
    <3>1. Open' = Open \ {pls.pipe}
      BY <1>2, <2>2, TypesGive, ClosedStreams DEF ClosePipe, ShellInv
    <3>2. pls'.stdpipe = pls.stdpipe /\ pls'.pipe = Null /\ pls'.ofile = pls.ofile
      BY <1>2, <2>2 DEF ClosePipe, ShellInv, ProgramTypeOK
    <3>3. QED BY <3>1, <3>2 DEF Lost, Held
  <2>3. QED BY <2>1, <2>2
<1>3. CASE CloseFile
  <2>1. CASE pls.ofile = Null BY <1>3, <2>1 DEF CloseFile, Lost, Open, Held
  <2>2. CASE pls.ofile # Null
    <3>1. Open' = Open \ {pls.ofile}
      BY <1>3, <2>2, TypesGive, ClosedStreams DEF CloseFile, ShellInv
    <3>2. pls'.stdpipe = pls.stdpipe /\ pls'.pipe = pls.pipe /\ pls'.ofile = Null
      BY <1>3, <2>2 DEF CloseFile, ShellInv, ProgramTypeOK
    <3>3. QED BY <3>1, <3>2 DEF Lost, Held
  <2>3. QED BY <2>1, <2>2
<1>4. QED BY <1>1, <1>2, <1>3

\* Nor does a step lose one that leaves the streams open and what holds them alone.
LEMMA NoneLost ==
    ASSUME Open' = Open, pls'.stdpipe = pls.stdpipe, pls'.pipe = pls.pipe,
           pls'.ofile = pls.ofile
    PROVE  Lost' \subseteq Lost
  BY DEF Lost, Held

LEMMA LossStep ==
    ASSUME ShellInv, [ShellNext]_vars, pc \notin Stopped
    PROVE  Lost' \subseteq Lost \/ LossAllowed
<1>1. CASE ToFile \/ ToPipe \/ ToStdpipe BY <1>1, OpeningLoses
<1>2. CASE CloseStdpipe \/ ClosePipe \/ CloseFile BY <1>2, ClosingLosesNone
<1>3. CASE UNCHANGED <<pls, streams>> BY <1>3, NoneLost DEF Open
<1>4. CASE output_command_to_pids \/ WaitShell
  <2>1. pls'.stdpipe = pls.stdpipe /\ pls'.pipe = pls.pipe /\ pls'.ofile = pls.ofile
    BY <1>4 DEF output_command_to_pids, WaitShell, ShellInv, ProgramTypeOK
  <2>2. Open' = Open BY <1>4 DEF output_command_to_pids, WaitShell, Open
  <2>3. QED BY <2>1, <2>2, NoneLost
<1>5. CASE World BY <1>5, WorldKeeps, NoneLost
<1>6. CASE RunInit BY <1>6 DEF RunInit, LossAllowed
<1>7. ~Start BY DEF Start
<1>8. ReadLine \/ EndOfInput \/ WriteToNobody \/ LetThrough \/ ShellCommand \/ NotACommand
      \/ RunPlain \/ RunLast \/ RunGo \/ GoEnds \/ WaitPipe \/ Signal("INT") \/ Signal("TERM")
      => UNCHANGED <<pls, streams>>
  BY DEF ReadLine, EndOfInput, WriteToNobody, LetThrough, ShellCommand, NotACommand, RunPlain,
         RunLast, RunGo, GoEnds, WaitPipe, Signal
<1>9. UNCHANGED vars => UNCHANGED <<pls, streams>> BY DEF vars
<1>10. QED
  BY <1>1, <1>2, <1>3, <1>4, <1>5, <1>6, <1>7, <1>8, <1>9 DEF ShellNext, Main

-----------------------------------------------------------------------------

\* A command writes to the stream its own line had opened, of the kind that line asked for;
\* one whose line had none opened writes to stdout or goes on with the stream of a line
\* before it whose command was unknown; and the stream is open.
THEOREM ShellWritesWhereTold == ShellSpec => []WritesWhereTold
<1> DEFINE I == ShellInv /\ LineTypeOK /\ LineOK
<1>1. ShellInit => I
  <2> SUFFICES ASSUME ShellInit PROVE LineTypeOK /\ LineOK
    BY FirstPrompt
  <2>1. LineTypeOK BY DEF ShellInit, LineTypeOK, NoLine, Redirections
  <2>2. LineOK BY DEF ShellInit, LineOK, NoLine, WhereTold, Stdout, Null, Restoring
  <2>3. QED BY <2>1, <2>2
<1>2. I /\ [ShellNext]_vars => I' BY ShellStep, LineTyped, LineStep
<1>3. I => WritesWhereTold
  BY DEF ShellInv, ShellTypeOK, LineOK, WritesWhereTold, BeforeCommand
<1>4. QED BY <1>1, <1>2, <1>3, PTL DEF ShellSpec

\* Between sessions the handler of SIGINT tells how the last session ended and that
\* of SIGTERM how the one before it did: sigaction gives back to the wrong signal.
THEOREM ShellHandlersLeftBehind == ShellSpec => []HandlersLeftBehind
<1>1. ShellInit => ShellInv BY FirstPrompt
<1>2. ShellInv /\ [ShellNext]_vars => ShellInv' BY ShellStep
<1>3. ShellInv => HandlersLeftBehind BY DEF ShellInv, HandlersOK
<1>4. QED BY <1>1, <1>2, <1>3, PTL DEF ShellSpec

\* A stream is lost only when ltsys_deinit clears the fields that hold it, or when a
\* redirection takes the place of one that an unknown command left behind.
THEOREM ShellLosesOnlyThere == ShellSpec => LosesOnlyThere
<1>1. ShellInit => ShellInv BY FirstPrompt
<1>2. ShellInv /\ [ShellNext]_vars => ShellInv' BY ShellStep
<1>3. ShellInv /\ [ShellNext]_vars
      => [pc \notin Stopped /\ ~(Lost' \subseteq Lost) =>
            \/ pc = "dispatch" /\ i = "init"
            \/ pc = "redirect" /\ (pls.ofile # Null \/ pls.pipe # Null)]_vars
  BY LossStep DEF LossAllowed
<1>4. QED BY <1>1, <1>2, <1>3, PTL DEF ShellSpec, LosesOnlyThere

-----------------------------------------------------------------------------
(* The first and the last place of a set *)

LEMMA LeastOf ==
    ASSUME NEW T, T \subseteq Nat, T # {}
    PROVE  \E k \in T : \A m \in T : k <= m
<1> DEFINE R == OpToRel(<, Nat)
<1>1. IsWellFoundedOn(R, Nat) BY NatLessThanWellFounded
<1>2. \A x, y \in Nat : <<x, y>> \in R <=> x < y BY DEF OpToRel
<1> HIDE DEF R
<1>3. PICK n \in T : \A m \in T : ~(<<m, n>> \in R) BY <1>1, WFMin
<1>4. \A m \in T : ~(m < n) BY <1>2, <1>3
<1>5. \A m \in T : n <= m BY <1>4
<1>6. QED BY <1>5

LEMMA GreatestOf ==
    ASSUME NEW N \in Nat, NEW T, T \subseteq 1 .. N, T # {}
    PROVE  \E k \in T : \A m \in T : k >= m
<1> DEFINE U == {N - k : k \in T}
<1>1. U \subseteq Nat /\ U # {}
  <2>1. \A k \in T : N - k \in Nat OBVIOUS
  <2>2. U \subseteq Nat BY <2>1
  <2>3. U # {} OBVIOUS
  <2>4. QED BY <2>2, <2>3
<1>2. PICK n \in U : \A m \in U : n <= m
  <2> HIDE DEF U
  <2> QED BY <1>1, LeastOf
<1>3. PICK k \in T : n = N - k OBVIOUS
<1>4. ASSUME NEW m \in T PROVE k >= m
  <2>1. N - m \in U OBVIOUS
  <2>2. N - k <= N - m
    <3> HIDE DEF U
    <3> QED BY <1>2, <1>3, <2>1
  <2>3. QED BY <2>2
<1>5. QED BY <1>4

TagRecord == [name : TagNames, lines : Int]
Places(s, t) == {k \in 1 .. Len(s) : s[k].name = t}

IsFirst(s, t, k) == k \in Places(s, t) /\ \A j \in Places(s, t) : k <= j
IsLast(s, t, k) == k \in Places(s, t) /\ \A j \in Places(s, t) : k >= j

LEMMA NamesPlaces ==
    ASSUME NEW s \in Seq(TagRecord), NEW t
    PROVE  /\ t \in Names(s) <=> Places(s, t) # {}
           /\ Names(s) \subseteq TagNames
<1>1. DOMAIN s = 1 .. Len(s) OBVIOUS
<1>2. \A k \in 1 .. Len(s) : s[k] \in TagRecord OBVIOUS
<1>3. QED BY <1>1, <1>2 DEF Names, Places, TagRecord

LEMMA FirstIs ==
    ASSUME NEW s \in Seq(TagRecord), NEW t, NEW k, IsFirst(s, t, k)
    PROVE  FirstOf(s, t) = k
<1> DEFINE T == {ix \in 1 .. Len(s) : s[ix].name = t}
<1>1. T = Places(s, t) BY DEF Places
<1>2. k \in T /\ \A j \in T : k <= j BY <1>1 DEF IsFirst
<1>3. \A j \in T : j \in Int OBVIOUS
<1>4. FirstOf(s, t) = Min(T) BY <1>2 DEF FirstOf, SelectInSeq
<1> HIDE DEF T
<1>5. \A j \in T : (\A ix \in T : j <= ix) => j = k BY <1>2, <1>3
<1>6. Min(T) = k BY <1>2, <1>5, Zenon DEF Min
<1>7. QED BY <1>4, <1>6

LEMMA LastIs ==
    ASSUME NEW s \in Seq(TagRecord), NEW t, NEW k, IsLast(s, t, k)
    PROVE  LastOf(s, t) = k
<1> DEFINE T == {ix \in 1 .. Len(s) : s[ix].name = t}
<1>1. T = Places(s, t) BY DEF Places
<1>2. k \in T /\ \A j \in T : k >= j BY <1>1 DEF IsLast
<1>3. \A j \in T : j \in Int OBVIOUS
<1>4. LastOf(s, t) = Max(T) BY <1>2 DEF LastOf, SelectLastInSeq
<1> HIDE DEF T
<1>5. \A j \in T : (\A ix \in T : j >= ix) => j = k BY <1>2, <1>3
<1>6. Max(T) = k BY <1>2, <1>5, Zenon DEF Max
<1>7. QED BY <1>4, <1>6

LEMMA HasFirst ==
    ASSUME NEW s \in Seq(TagRecord), NEW t \in Names(s)
    PROVE  /\ \E k : IsFirst(s, t, k)
           /\ \E k : IsLast(s, t, k)
<1>1. Places(s, t) # {} BY NamesPlaces
<1>2. Len(s) \in Nat /\ Places(s, t) \subseteq 1 .. Len(s) BY DEF Places
<1>3. Places(s, t) \subseteq Nat BY <1>2
<1>4. \E k \in Places(s, t) : \A j \in Places(s, t) : k <= j BY <1>1, <1>3, LeastOf
<1>5. \E k \in Places(s, t) : \A j \in Places(s, t) : k >= j BY <1>1, <1>2, GreatestOf
<1>6. QED BY <1>4, <1>5 DEF IsFirst, IsLast

-----------------------------------------------------------------------------
(* What is kept of a sequence, in its order *)

Rank(S, k) == Cardinality({j \in S : j <= k})

LEMMA RankAscends ==
    ASSUME NEW S, S \subseteq Nat, IsFiniteSet(S), NEW j \in S, NEW k \in S
    PROVE  /\ Rank(S, k) \in 1 .. Cardinality(S) /\ Cardinality(S) \in Nat
           /\ j < k => Rank(S, j) < Rank(S, k)
<1> DEFINE P(ix) == {m \in S : m <= ix}
<1>1. \A ix \in Nat : P(ix) \in SUBSET S OBVIOUS
<1>2. \A ix \in Nat : IsFiniteSet(P(ix)) /\ Cardinality(P(ix)) \in Nat
                     /\ Cardinality(P(ix)) <= Cardinality(S)
  <2> HIDE DEF P
  <2> QED BY <1>1, FS_Subset, FS_CardinalityType
<1>3. Cardinality(S) \in Nat BY FS_CardinalityType
<1>4. k \in P(k) OBVIOUS
<1>5. Cardinality(P(k)) # 0
  <2> HIDE DEF P
  <2> QED BY <1>2, <1>4, FS_EmptySet
<1>6. ASSUME j < k PROVE Cardinality(P(j)) < Cardinality(P(k))
  <2>0. \A m \in S : m \in Nat OBVIOUS
  <2>00. \A m \in S : m <= j => m <= k BY <1>6, <2>0
  <2>1. P(j) \in SUBSET P(k) BY <2>00
  <2>2. k \notin P(j) BY <1>6
  <2>3. k \in Nat /\ j \in Nat OBVIOUS
  <2> HIDE DEF P
  <2>4. P(j) # P(k) BY <1>4, <2>2
  <2>5. QED BY <1>2, <2>1, <2>3, <2>4, FS_Subset
<1>7. \A ix : Rank(S, ix) = Cardinality(P(ix)) BY DEF Rank
<1>8. k \in Nat OBVIOUS
<1> HIDE DEF P
<1>9. QED BY <1>2, <1>3, <1>5, <1>6, <1>7, <1>8

LEMMA RankInjective ==
    ASSUME NEW S, S \subseteq Nat, IsFiniteSet(S), NEW j \in S, NEW k \in S,
           Rank(S, j) = Rank(S, k)
    PROVE  j = k
<1>1. /\ Rank(S, j) \in 1 .. Cardinality(S) /\ Cardinality(S) \in Nat
      /\ j < k => Rank(S, j) < Rank(S, k)
      /\ k < j => Rank(S, k) < Rank(S, j)
  BY RankAscends
<1>2. ~(j < k) /\ ~(k < j) BY <1>1
<1>3. j \in Nat /\ k \in Nat OBVIOUS
<1>4. QED BY <1>2, <1>3

LEMMA EveryRank ==
    ASSUME NEW S, S \subseteq Nat, IsFiniteSet(S), NEW n \in 1 .. Cardinality(S)
    PROVE  \E k \in S : Rank(S, k) = n
<1> DEFINE c == Cardinality(S)
           f == [k \in S |-> Rank(S, k)]
<1>1. c \in Nat BY FS_CardinalityType
<1>2. f \in [S -> 1 .. c] BY RankAscends
<1>3. \A j, k \in S : f[j] = f[k] => j = k BY RankInjective
<1>4. f \in Injection(S, 1 .. c)
  <2> HIDE DEF f
  <2> QED BY <1>2, <1>3 DEF Injection, IsInjective
<1>5. IsFiniteSet(1 .. c) /\ Cardinality(1 .. c) = c BY <1>1, FS_Interval
<1>6. f \in Surjection(S, 1 .. c) BY <1>4, <1>5, FS_Injection
<1>7. PICK k \in S : f[k] = n
  <2> HIDE DEF f
  <2> QED BY <1>6 DEF Surjection
<1>8. QED BY <1>7

\* Each element whose place is in S is in Those(s, S), at the rank of the place.
LEMMA ThoseAt ==
    ASSUME NEW s, NEW S, S \subseteq Nat, IsFiniteSet(S)
    PROVE  /\ DOMAIN Those(s, S) = 1 .. Cardinality(S) /\ Cardinality(S) \in Nat
           /\ \A k \in S : Those(s, S)[Rank(S, k)] = s[k]
<1>1. DOMAIN Those(s, S) = 1 .. Cardinality(S) /\ Cardinality(S) \in Nat
  BY FS_CardinalityType DEF Those
<1>2. ASSUME NEW k \in S PROVE Those(s, S)[Rank(S, k)] = s[k]
  <2> DEFINE n == Rank(S, k)
             c == CHOOSE ix \in S : Cardinality({j \in S : j <= ix}) = n
  <2>1. n \in 1 .. Cardinality(S) BY RankAscends
  <2>2. \E ix \in S : Cardinality({j \in S : j <= ix}) = n BY DEF Rank
  <2>3. c \in S /\ Cardinality({j \in S : j <= c}) = n
    <3> HIDE DEF n
    <3> QED BY <2>2
  <2>4. Rank(S, c) = Rank(S, k) BY <2>3 DEF Rank
  <2>5. Those(s, S)[n] = s[c]
    <3> HIDE DEF n
    <3> QED BY <2>1 DEF Those
  <2> HIDE DEF c
  <2>6. c = k BY <2>3, <2>4, RankInjective
  <2>7. QED BY <2>5, <2>6
<1>3. QED BY <1>1, <1>2

LEMMA ThoseTyped ==
    ASSUME NEW D, NEW s \in Seq(D), NEW S \in SUBSET (1 .. Len(s))
    PROVE  /\ IsFiniteSet(S) /\ S \subseteq Nat
           /\ Those(s, S) \in Seq(D) /\ Len(Those(s, S)) = Cardinality(S)
<1>1. Len(s) \in Nat /\ IsFiniteSet(1 .. Len(s)) BY FS_Interval
<1>2. IsFiniteSet(S) /\ S \subseteq Nat
  <2>1. IsFiniteSet(S) BY <1>1, FS_Subset
  <2>2. QED BY <1>1, <2>1
<1> DEFINE r == Those(s, S)
<1>3. /\ DOMAIN r = 1 .. Cardinality(S) /\ Cardinality(S) \in Nat
      /\ \A k \in S : r[Rank(S, k)] = s[k]
  BY <1>2, ThoseAt
<1>4. ASSUME NEW n \in 1 .. Cardinality(S) PROVE r[n] \in D
  <2>1. PICK k \in S : Rank(S, k) = n BY <1>2, EveryRank
  <2>2. k \in 1 .. Len(s) OBVIOUS
  <2>3. r[n] = s[k] BY <1>3, <2>1
  <2>4. QED BY <2>2, <2>3
<1>5. r = [n \in 1 .. Cardinality(S) |-> r[n]] BY <1>3 DEF Those
<1> HIDE DEF r
<1>6. r \in [1 .. Cardinality(S) -> D] BY <1>4, <1>5
<1>7. r \in Seq(D) BY <1>3, <1>6
<1>8. Len(r) = Cardinality(S) BY <1>3, <1>7
<1>9. QED BY <1>2, <1>7, <1>8 DEF r

-----------------------------------------------------------------------------
(* What the first tag of a name and the last line for a name say *)

FirstSays(list, t, r) == \E k : IsFirst(list, t, k) /\ list[k] = r
LastSays(file, t, r) == \E k : IsLast(file, t, k) /\ file[k] = r

LEMMA AddSays ==
    ASSUME NEW s \in Seq(TagRecord), NEW r \in TagRecord
    PROVE  LET u == <<r>> \o s IN
           /\ u \in Seq(TagRecord) /\ Names(u) = Names(s) \cup {r.name}
           /\ FirstSays(u, r.name, r)
           /\ \A t, q : t # r.name /\ FirstSays(s, t, q) => FirstSays(u, t, q)
<1> DEFINE u == <<r>> \o s
<1>1. /\ u \in Seq(TagRecord) /\ Len(u) = Len(s) + 1 /\ Len(s) \in Nat /\ u[1] = r
      /\ \A p \in 1 .. Len(s) : u[p + 1] = s[p]
      /\ \A p \in 2 .. Len(s) + 1 : u[p] = s[p - 1]
      /\ DOMAIN u = 1 .. Len(s) + 1 /\ DOMAIN s = 1 .. Len(s)
  OBVIOUS
<1> HIDE DEF u
<1>2. Names(u) = Names(s) \cup {r.name}
  <2>1. ASSUME NEW p \in DOMAIN u PROVE u[p].name \in Names(s) \cup {r.name}
    <3>1. CASE p = 1 BY <3>1, <1>1
    <3>2. CASE p # 1
      <4>1. p \in 2 .. Len(s) + 1 /\ p - 1 \in DOMAIN s BY <3>2, <1>1
      <4>2. QED BY <4>1, <1>1 DEF Names
    <3>3. QED BY <3>1, <3>2
  <2>2. ASSUME NEW p \in DOMAIN s PROVE s[p].name \in Names(u)
    <3>1. p + 1 \in DOMAIN u /\ u[p + 1] = s[p] BY <1>1
    <3>2. QED BY <3>1 DEF Names
  <2>3. 1 \in DOMAIN u BY <1>1
  <2>4. r.name \in Names(u) BY <1>1, <2>3 DEF Names
  <2>5. QED BY <2>1, <2>2, <2>4 DEF Names
<1>3. FirstSays(u, r.name, r)
  <2>1. IsFirst(u, r.name, 1) BY <1>1 DEF IsFirst, Places
  <2>2. QED BY <1>1, <2>1 DEF FirstSays
<1>4. ASSUME NEW t, NEW q, t # r.name, FirstSays(s, t, q) PROVE FirstSays(u, t, q)
  <2>1. PICK k : IsFirst(s, t, k) /\ s[k] = q BY <1>4 DEF FirstSays
  <2>2. k \in 1 .. Len(s) /\ s[k].name = t BY <2>1 DEF IsFirst, Places
  <2>3. ASSUME NEW j \in Places(u, t) PROVE k + 1 <= j
    <3>1. j \in 1 .. Len(s) + 1 /\ u[j].name = t BY <1>1 DEF Places
    <3>2. j # 1 BY <3>1, <1>1, <1>4
    <3>3. j - 1 \in 1 .. Len(s) /\ s[j - 1].name = t BY <3>1, <3>2, <1>1
    <3>4. j - 1 \in Places(s, t) BY <3>3 DEF Places
    <3>5. k <= j - 1 BY <2>1, <3>4 DEF IsFirst
    <3>6. QED BY <2>2, <3>1, <3>5
  <2>4. k + 1 \in Places(u, t) /\ u[k + 1] = q BY <1>1, <2>1, <2>2 DEF Places
  <2>5. QED BY <2>3, <2>4 DEF FirstSays, IsFirst
<1>5. QED BY <1>1, <1>2, <1>3, <1>4 DEF u

LEMMA AppendSays ==
    ASSUME NEW s \in Seq(TagRecord), NEW r \in TagRecord
    PROVE  LET u == Append(s, r) IN
           /\ u \in Seq(TagRecord) /\ Names(u) = Names(s) \cup {r.name}
           /\ LastSays(u, r.name, r)
           /\ \A t, q : t # r.name /\ LastSays(s, t, q) => LastSays(u, t, q)
<1> DEFINE u == Append(s, r)
<1>1. /\ u \in Seq(TagRecord) /\ Len(u) = Len(s) + 1 /\ Len(s) \in Nat /\ u[Len(s) + 1] = r
      /\ \A p \in 1 .. Len(s) : u[p] = s[p]
      /\ DOMAIN u = 1 .. Len(s) + 1 /\ DOMAIN s = 1 .. Len(s)
  OBVIOUS
<1> HIDE DEF u
<1>2. Names(u) = Names(s) \cup {r.name}
  <2>1. ASSUME NEW p \in DOMAIN u PROVE u[p].name \in Names(s) \cup {r.name}
    <3>1. CASE p = Len(s) + 1 BY <3>1, <1>1
    <3>2. CASE p # Len(s) + 1
      <4>1. p \in 1 .. Len(s) BY <3>2, <1>1
      <4>2. QED BY <4>1, <1>1 DEF Names
    <3>3. QED BY <3>1, <3>2
  <2>2. ASSUME NEW p \in DOMAIN s PROVE s[p].name \in Names(u)
    <3>1. p \in DOMAIN u /\ u[p] = s[p] BY <1>1
    <3>2. QED BY <3>1 DEF Names
  <2>3. Len(s) + 1 \in DOMAIN u BY <1>1
  <2>4. r.name \in Names(u) BY <1>1, <2>3 DEF Names
  <2>5. QED BY <2>1, <2>2, <2>4 DEF Names
<1>3. LastSays(u, r.name, r)
  <2>1. IsLast(u, r.name, Len(s) + 1) BY <1>1 DEF IsLast, Places
  <2>2. QED BY <1>1, <2>1 DEF LastSays
<1>4. ASSUME NEW t, NEW q, t # r.name, LastSays(s, t, q) PROVE LastSays(u, t, q)
  <2>1. PICK k : IsLast(s, t, k) /\ s[k] = q BY <1>4 DEF LastSays
  <2>2. k \in 1 .. Len(s) /\ s[k].name = t BY <2>1 DEF IsLast, Places
  <2>3. ASSUME NEW j \in Places(u, t) PROVE k >= j
    <3>1. j \in 1 .. Len(s) + 1 /\ u[j].name = t BY <1>1 DEF Places
    <3>2. j # Len(s) + 1 BY <3>1, <1>1, <1>4
    <3>3. j \in 1 .. Len(s) /\ s[j].name = t BY <3>1, <3>2, <1>1
    <3>4. j \in Places(s, t) BY <3>3 DEF Places
    <3>5. QED BY <2>1, <3>4 DEF IsLast
  <2>4. k \in Places(u, t) /\ u[k] = q BY <1>1, <2>1, <2>2 DEF Places
  <2>5. QED BY <2>3, <2>4 DEF LastSays, IsLast
<1>5. QED BY <1>1, <1>2, <1>3, <1>4 DEF u

\* The lines of the first tag of a name are set.
LEMMA WriteSays ==
    ASSUME NEW s \in Seq(TagRecord), NEW t \in Names(s), NEW n \in Int
    PROVE  LET u == [s EXCEPT ![FirstOf(s, t)].lines = n] IN
           /\ u \in Seq(TagRecord) /\ Names(u) = Names(s)
           /\ FirstSays(u, t, Tag(t, n))
           /\ \A v, q : v # t /\ FirstSays(s, v, q) => FirstSays(u, v, q)
<1>1. PICK f : IsFirst(s, t, f) BY HasFirst
<1>2. FirstOf(s, t) = f BY <1>1, FirstIs
<1> DEFINE u == [s EXCEPT ![f].lines = n]
<1>3. f \in 1 .. Len(s) /\ s[f].name = t BY <1>1 DEF IsFirst, Places
<1>4. s[f] \in TagRecord /\ DOMAIN s = 1 .. Len(s) /\ Len(s) \in Nat BY <1>3
<1>5. [s[f] EXCEPT !.lines = n] = Tag(t, n) /\ Tag(t, n) \in TagRecord
      /\ Tag(t, n).name = t
  BY <1>3, <1>4 DEF TagRecord, Tag
<1>6. u[f] = Tag(t, n) /\ \A p \in 1 .. Len(s) : p # f => u[p] = s[p]
  BY <1>3, <1>4, <1>5
<1>7. u \in [1 .. Len(s) -> TagRecord]
  <2>1. u = [p \in 1 .. Len(s) |-> u[p]] BY <1>4
  <2>2. \A p \in 1 .. Len(s) : u[p] \in TagRecord BY <1>5, <1>6
  <2> HIDE DEF u
  <2>3. QED BY <2>1, <2>2
<1> HIDE DEF u
<1>8. u \in Seq(TagRecord) /\ Len(u) = Len(s) /\ DOMAIN u = 1 .. Len(s) BY <1>4, <1>7
<1>9. \A p \in 1 .. Len(s) : u[p].name = s[p].name BY <1>3, <1>5, <1>6
<1>10. Names(u) = Names(s) BY <1>4, <1>8, <1>9 DEF Names
<1>11. \A v : Places(u, v) = Places(s, v) BY <1>8, <1>9 DEF Places
<1>12. FirstSays(u, t, Tag(t, n)) BY <1>1, <1>6, <1>11 DEF FirstSays, IsFirst
<1>13. ASSUME NEW v, NEW q, v # t, FirstSays(s, v, q) PROVE FirstSays(u, v, q)
  <2>1. PICK k : IsFirst(s, v, k) /\ s[k] = q BY <1>13 DEF FirstSays
  <2>2. k \in 1 .. Len(s) /\ s[k].name = v BY <2>1 DEF IsFirst, Places
  <2>3. u[k] = q BY <1>3, <1>6, <1>13, <2>1, <2>2
  <2>4. QED BY <1>11, <2>1, <2>3 DEF FirstSays, IsFirst
<1>14. QED BY <1>2, <1>8, <1>10, <1>12, <1>13 DEF u

\* sed '/tag/d': the lines for the names in which t does not occur.
LEMMA DeleteSays ==
    ASSUME tagfile \in Seq(TagRecord), NEW t
    PROVE  /\ Deleted(t) \in Seq(TagRecord)
           /\ \A v : v \in Names(Deleted(t)) <=> v \in Names(tagfile) /\ <<t, v>> \notin Within
           /\ \A v, q : <<t, v>> \notin Within /\ LastSays(tagfile, v, q) =>
                         LastSays(Deleted(t), v, q)
<1> DEFINE S == {k \in DOMAIN tagfile : <<t, tagfile[k].name>> \notin Within}
<1> DEFINE u == Deleted(t)
<1>1. DOMAIN tagfile = 1 .. Len(tagfile) OBVIOUS
<1>2. S \in SUBSET (1 .. Len(tagfile)) BY <1>1
<1>3. u = Those(tagfile, S) BY DEF Deleted
<1>4. \A k : k \in S <=> k \in 1 .. Len(tagfile) /\ <<t, tagfile[k].name>> \notin Within
  BY <1>1
<1> HIDE DEF S, u
<1>5. /\ IsFiniteSet(S) /\ S \subseteq Nat
      /\ u \in Seq(TagRecord) /\ Len(u) = Cardinality(S)
  BY <1>2, <1>3, ThoseTyped
<1>6. /\ DOMAIN u = 1 .. Cardinality(S) /\ Cardinality(S) \in Nat
      /\ \A k \in S : u[Rank(S, k)] = tagfile[k]
  BY <1>3, <1>5, ThoseAt
<1>7. \A k \in S : Rank(S, k) \in 1 .. Cardinality(S) BY <1>5, RankAscends
<1>8. \A n \in 1 .. Cardinality(S) : \E k \in S : Rank(S, k) = n /\ u[n] = tagfile[k]
  <2>1. \A n \in 1 .. Cardinality(S) : \E k \in S : Rank(S, k) = n BY <1>5, EveryRank
  <2>2. QED BY <1>6, <2>1
<1>9. ASSUME NEW v PROVE v \in Names(u) <=> v \in Names(tagfile) /\ <<t, v>> \notin Within
  <2>1. ASSUME v \in Names(u) PROVE v \in Names(tagfile) /\ <<t, v>> \notin Within
    <3>1. PICK n \in DOMAIN u : u[n].name = v BY <2>1 DEF Names
    <3>2. PICK k \in S : u[n] = tagfile[k] BY <1>6, <1>8
    <3>3. QED BY <1>1, <1>4, <3>1, <3>2 DEF Names
  <2>2. ASSUME v \in Names(tagfile), <<t, v>> \notin Within PROVE v \in Names(u)
    <3>1. PICK k \in DOMAIN tagfile : tagfile[k].name = v BY <2>2 DEF Names
    <3>2. k \in S BY <1>1, <1>4, <2>2, <3>1
    <3>3. Rank(S, k) \in DOMAIN u /\ u[Rank(S, k)] = tagfile[k] BY <1>6, <1>7, <3>2
    <3>4. QED BY <3>1, <3>3 DEF Names
  <2>3. QED BY <2>1, <2>2
<1>10. ASSUME NEW v, NEW q, <<t, v>> \notin Within, LastSays(tagfile, v, q)
       PROVE  LastSays(u, v, q)
  <2>1. PICK k : IsLast(tagfile, v, k) /\ tagfile[k] = q BY <1>10 DEF LastSays
  <2>2. k \in 1 .. Len(tagfile) /\ tagfile[k].name = v BY <2>1 DEF IsLast, Places
  <2>3. k \in S BY <1>4, <1>10, <2>2
  <2>4. ASSUME NEW n \in Places(u, v) PROVE Rank(S, k) >= n
    <3>1. n \in 1 .. Cardinality(S) /\ u[n].name = v BY <1>5 DEF Places
    <3>2. PICK j \in S : Rank(S, j) = n /\ u[n] = tagfile[j] BY <1>8, <3>1
    <3>3. j \in Places(tagfile, v) BY <1>4, <3>1, <3>2 DEF Places
    <3>4. k >= j BY <2>1, <3>3 DEF IsLast
    <3>5. CASE j = k BY <1>6, <3>1, <3>2, <3>5
    <3>6. CASE j # k
      <4>1. j \in Nat /\ k \in Nat BY <1>5, <2>3
      <4>2. j < k BY <3>4, <3>6, <4>1
      <4>3. /\ j < k => Rank(S, j) < Rank(S, k)
            /\ Rank(S, k) \in 1 .. Cardinality(S) /\ Cardinality(S) \in Nat
        BY <1>5, <2>3, RankAscends
      <4>4. QED BY <3>1, <3>2, <4>2, <4>3
    <3>7. QED BY <3>5, <3>6
  <2>5. Rank(S, k) \in 1 .. Len(u) /\ u[Rank(S, k)] = tagfile[k] BY <1>5, <1>6, <1>7, <2>3
  <2>6. Rank(S, k) \in Places(u, v) BY <2>2, <2>5 DEF Places
  <2>7. QED BY <2>1, <2>4, <2>5, <2>6 DEF LastSays, IsLast
<1>11. QED BY <1>5, <1>9, <1>10 DEF u

\* sed '/tag/c': each line for a name in which t occurs becomes one for t.
LEMMA ChangeSays ==
    ASSUME tagfile \in Seq(TagRecord), NEW t \in TagNames, NEW n \in Int
    PROVE  /\ Changed(t, n) \in Seq(TagRecord)
           /\ \A v : v \in Names(Changed(t, n)) /\ v # t =>
                      v \in Names(tagfile) /\ <<t, v>> \notin Within
           /\ \A v : v \in Names(tagfile) /\ (<<t, v>> \notin Within \/ v = t) =>
                      v \in Names(Changed(t, n))
           /\ t \in Names(Changed(t, n)) => LastSays(Changed(t, n), t, Tag(t, n))
           /\ \A v, q : <<t, v>> \notin Within /\ LastSays(tagfile, v, q) =>
                         LastSays(Changed(t, n), v, q)
<1> DEFINE u == Changed(t, n)
<1>1. DOMAIN tagfile = 1 .. Len(tagfile) /\ Len(tagfile) \in Nat OBVIOUS
<1>2. <<t, t>> \in Within BY TagsAssumption
<1>3. Tag(t, n) \in TagRecord /\ Tag(t, n).name = t BY DEF Tag, TagRecord
<1>4. /\ \A k \in 1 .. Len(tagfile) :
            u[k] = IF <<t, tagfile[k].name>> \in Within THEN Tag(t, n) ELSE tagfile[k]
      /\ u \in [1 .. Len(tagfile) -> TagRecord]
  BY <1>1, <1>3 DEF Changed
<1> HIDE DEF u
<1>5. u \in Seq(TagRecord) /\ Len(u) = Len(tagfile) /\ DOMAIN u = 1 .. Len(tagfile)
  BY <1>1, <1>4
<1>6. ASSUME NEW v \in Names(u), v # t PROVE v \in Names(tagfile) /\ <<t, v>> \notin Within
  <2>1. PICK k \in 1 .. Len(tagfile) : u[k].name = v BY <1>5 DEF Names
  <2>2. u[k] = tagfile[k] /\ <<t, tagfile[k].name>> \notin Within
    BY <1>3, <1>4, <1>6, <2>1
  <2>3. QED BY <1>1, <2>1, <2>2 DEF Names
<1>7. ASSUME NEW v \in Names(tagfile), <<t, v>> \notin Within \/ v = t PROVE v \in Names(u)
  <2>1. PICK k \in 1 .. Len(tagfile) : tagfile[k].name = v BY <1>1 DEF Names
  <2>2. u[k].name = v BY <1>2, <1>3, <1>4, <1>7, <2>1
  <2>3. QED BY <1>5, <2>1, <2>2 DEF Names
<1>8. ASSUME t \in Names(u) PROVE LastSays(u, t, Tag(t, n))
  <2>1. PICK k : IsLast(u, t, k) BY <1>5, <1>8, HasFirst
  <2>2. k \in 1 .. Len(tagfile) /\ u[k].name = t BY <1>5, <2>1 DEF IsLast, Places
  <2>3. u[k] = Tag(t, n) BY <1>2, <1>4, <2>2
  <2>4. QED BY <2>1, <2>3 DEF LastSays
<1>9. ASSUME NEW v, NEW q, <<t, v>> \notin Within, LastSays(tagfile, v, q)
      PROVE  LastSays(u, v, q)
  <2>1. PICK k : IsLast(tagfile, v, k) /\ tagfile[k] = q BY <1>9 DEF LastSays
  <2>2. k \in 1 .. Len(tagfile) /\ tagfile[k].name = v BY <2>1 DEF IsLast, Places
  <2>3. Places(u, v) = Places(tagfile, v)
    <3>1. v # t BY <1>2, <1>9
    <3>2. \A j \in 1 .. Len(tagfile) : u[j].name = v <=> tagfile[j].name = v
      BY <1>3, <1>4, <1>9, <3>1
    <3>3. QED BY <1>5, <3>2 DEF Places
  <2>4. u[k] = tagfile[k] BY <1>4, <1>9, <2>2
  <2>5. QED BY <2>1, <2>3, <2>4 DEF LastSays, IsLast
<1>10. QED BY <1>5, <1>6, <1>7, <1>8, <1>9 DEF u

\* The entries of a directory, in any order.
LEMMA GatherSays ==
    ASSUME stage \in [TagNames -> Int], NEW order \in Orders(Staged)
    PROVE  LET g == Gathered(order)
               h == Reverse(Gathered(order)) IN
           /\ g \in Seq(TagRecord) /\ h \in Seq(TagRecord)
           /\ Names(g) = Staged /\ Names(h) = Staged
           /\ \A t \in Staged : LastSays(g, t, Tag(t, stage[t])) /\ FirstSays(h, t, Tag(t, stage[t]))
<1> DEFINE g == Gathered(order)
           h == Reverse(Gathered(order))
           c == Cardinality(Staged)
<1>1. IsFiniteSet(Staged) /\ Staged \subseteq TagNames BY TagsAssumption, FS_Subset DEF Staged
<1>2. c \in Nat BY <1>1, FS_CardinalityType
<1>3. order \in [1 .. c -> Staged] /\ \A j, k \in 1 .. c : order[j] = order[k] => j = k
  BY DEF Orders, IsInjective
<1> HIDE DEF c
<1>4. \A t \in Staged : \E k \in 1 .. c : order[k] = t
  <2>1. order \in Injection(1 .. c, Staged) BY <1>3 DEF Injection, IsInjective
  <2>2. IsFiniteSet(1 .. c) /\ Cardinality(1 .. c) = c BY <1>2, FS_Interval
  <2>3. order \in Surjection(1 .. c, Staged) BY <1>1, <2>1, <2>2, FS_Injection DEF c
  <2>4. QED BY <2>3 DEF Surjection
<1>5. \A t \in Staged : Tag(t, stage[t]) \in TagRecord /\ Tag(t, stage[t]).name = t
  BY <1>1 DEF Tag, TagRecord
<1>6. /\ g \in [1 .. c -> TagRecord]
      /\ \A k \in 1 .. c : g[k] = Tag(order[k], stage[order[k]]) /\ g[k].name = order[k]
  BY <1>3, <1>5 DEF Gathered
<1> HIDE DEF g
<1>7. g \in Seq(TagRecord) /\ Len(g) = c /\ DOMAIN g = 1 .. c BY <1>2, <1>6
<1>8. /\ h \in [1 .. c -> TagRecord]
      /\ \A k \in 1 .. c : h[k] = g[c - k + 1] /\ c - k + 1 \in 1 .. c
  <2>1. h = [ix \in 1 .. c |-> g[(c - ix) + 1]] BY <1>7 DEF Reverse, g
  <2>2. \A k \in 1 .. c : c - k + 1 \in 1 .. c BY <1>2
  <2> HIDE DEF h
  <2>3. QED BY <1>6, <2>1, <2>2
<1> HIDE DEF h
<1>9. h \in Seq(TagRecord) /\ Len(h) = c /\ DOMAIN h = 1 .. c BY <1>2, <1>8
<1>10. \A k \in 1 .. c : h[k].name = order[c - k + 1] BY <1>6, <1>8
<1>11. Names(g) = Staged BY <1>3, <1>4, <1>6, <1>7 DEF Names
<1>12. \A k \in 1 .. c : c - k + 1 \in 1 .. c /\ c - (c - k + 1) + 1 = k BY <1>2
<1>13. \A t \in Staged : \E k \in 1 .. c : order[c - k + 1] = t
  <2> TAKE t \in Staged
  <2>1. PICK k \in 1 .. c : order[k] = t BY <1>4
  <2>2. c - k + 1 \in 1 .. c /\ c - (c - k + 1) + 1 = k BY <1>12
  <2>3. QED BY <2>1, <2>2
<1>14. Names(h) = Staged
  <2>1. \A k \in 1 .. c : h[k].name \in Staged BY <1>3, <1>10, <1>12
  <2>2. \A t \in Staged : \E k \in 1 .. c : h[k].name = t BY <1>10, <1>13
  <2>3. Names(h) = {h[k].name : k \in 1 .. c} BY <1>9 DEF Names
  <2>4. QED BY <2>1, <2>2, <2>3
<1>15. ASSUME NEW t \in Staged PROVE LastSays(g, t, Tag(t, stage[t]))
  <2>1. PICK k \in 1 .. c : order[k] = t BY <1>4
  <2>2. Places(g, t) = {k} BY <1>3, <1>6, <1>7, <2>1 DEF Places
  <2>3. g[k] = Tag(t, stage[t]) BY <1>6, <2>1
  <2>4. k >= k BY <1>2
  <2>5. QED BY <2>2, <2>3, <2>4 DEF LastSays, IsLast
<1>16. ASSUME NEW t \in Staged PROVE FirstSays(h, t, Tag(t, stage[t]))
  <2>1. PICK k \in 1 .. c : order[c - k + 1] = t BY <1>13
  <2>2. \A j \in 1 .. c : order[c - j + 1] = t => j = k
    <3> TAKE j \in 1 .. c
    <3>1. order[c - j + 1] = t => c - j + 1 = c - k + 1 BY <1>3, <1>12, <2>1
    <3>2. c - j + 1 = c - k + 1 => j = k BY <1>2
    <3>3. QED BY <3>1, <3>2
  <2>3. Places(h, t) = {k} BY <1>9, <1>10, <2>1, <2>2 DEF Places
  <2>4. h[k] = Tag(t, stage[t]) BY <1>6, <1>8, <2>1
  <2>5. k <= k BY <1>2
  <2>6. QED BY <2>3, <2>4, <2>5 DEF FirstSays, IsFirst
<1>17. QED BY <1>7, <1>9, <1>11, <1>14, <1>15, <1>16 DEF g, h

-----------------------------------------------------------------------------
(* The invariant.  TagsAgree speaks of the time between commands; while the *)
(* editor runs, the object in it has an empty file.                         *)

TagsTyped ==
    /\ stage \in [TagNames -> Int]
    /\ tg_list \in Seq(TagRecord) /\ tagfile \in Seq(TagRecord)
    /\ running \in BOOLEAN
    /\ \/ editing = NotEditing
       \/ running /\ editing \in [how : {"new", "write"}, tag : TagNames]
    /\ completing = Nothing \/ (running /\ editing = NotEditing)

\* An object on the stage is what its first tag says.
StageSaid(list, st, t) == st[t] # NoFile => FirstSays(list, t, Tag(t, st[t]))
\* The last line for a name says what its first tag does.
FileSaid(list, file, t) ==
    t \in Names(file) => \E r \in TagRecord : LastSays(file, t, r) /\ FirstSays(list, t, r)
\* A tag in memory has a line, or is one of those that may have none.
Listed(list, file, un, t) == t \in Names(list) => t \in Names(file) \cup un

AgreeInv ==
    running =>
        /\ \A t \in TagNames :
            /\ editing = NotEditing \/ editing.tag # t => StageSaid(tg_list, stage, t)
            /\ FileSaid(tg_list, tagfile, t)
            /\ Listed(tg_list, tagfile, unbooked, t)
        /\ editing # NotEditing /\ editing.how = "write" => editing.tag \in Names(tg_list)

Fits(names, text) == {k \in DOMAIN names : <<text, names[k]>> \in Begins}
FitsUpTo(names, text, place) == {k \in Fits(names, text) : k <= place}

\* A generator has returned the names up to its place; at the end none is behind it.
CompletionOK(c, names) ==
    /\ c \in [how : {"asked", "ended"}, of : {"command", "tag"}, text : TagNames,
              at : Nat, out : Seq(TagNames)]
    /\ c.out = Those(names, FitsUpTo(names, c.text, c.at))
    /\ c.how = "ended" => \A k \in Fits(names, c.text) : k <= c.at

CompletingInv == completing # Nothing => CompletionOK(completing, Offered(completing.of))

TagsInv == TagsTyped /\ AgreeInv /\ CompletingInv

-----------------------------------------------------------------------------
(* Every step keeps it *)

LEMMA InitInv ==
    ASSUME TagsInit
    PROVE  TagsInv
<1>1. stage \in [TagNames -> Int] BY DEF TagsInit, NoFile
<1>2. <<>> \in Seq(TagRecord) OBVIOUS
<1>3. TagsTyped BY <1>1, <1>2 DEF TagsInit, TagsTyped
<1>4. AgreeInv BY DEF TagsInit, AgreeInv
<1>5. CompletingInv BY DEF TagsInit, CompletingInv
<1>6. QED BY <1>3, <1>4, <1>5 DEF TagsInv

LEMMA StartInv ==
    ASSUME TagsInv, command_init
    PROVE  TagsInv'
<1> USE DEF TagsInv
<1>1. PICK order \in Orders(Staged), first \in BOOLEAN :
        /\ tg_list' = Reverse(Gathered(order))
        /\ tagfile' = Booked(order, first)
        /\ unbooked' = IF first THEN {} ELSE Staged
  BY DEF command_init
<1> DEFINE g == Gathered(order)
           h == Reverse(Gathered(order))
<1>2. /\ g \in Seq(TagRecord) /\ h \in Seq(TagRecord)
      /\ Names(g) = Staged /\ Names(h) = Staged
      /\ \A t \in Staged : LastSays(g, t, Tag(t, stage[t])) /\ FirstSays(h, t, Tag(t, stage[t]))
  BY GatherSays DEF TagsTyped
<1>3. tg_list' = h BY <1>1
<1>4. tagfile' = IF first THEN g ELSE <<>> BY <1>1 DEF Booked
<1> HIDE DEF g, h
<1>5. /\ ~running /\ running' = TRUE /\ stage' = stage
      /\ editing' = editing /\ completing' = completing
  BY DEF command_init
<1>6. editing = NotEditing /\ completing = Nothing BY <1>5 DEF TagsTyped
<1>7. TagsTyped'
  <2>1. tagfile' \in Seq(TagRecord) BY <1>2, <1>4
  <2>2. QED BY <1>2, <1>3, <1>5, <1>6, <2>1 DEF TagsTyped
<1>8. \A t \in TagNames : stage[t] # NoFile => t \in Staged BY DEF Staged
<1>9. ASSUME NEW t \in TagNames PROVE StageSaid(tg_list', stage', t)
  BY <1>2, <1>3, <1>5, <1>8 DEF StageSaid
<1>10. ASSUME NEW t \in TagNames PROVE FileSaid(tg_list', tagfile', t)
  <2>1. CASE first
    <3>1. ASSUME t \in Names(tagfile')
          PROVE \E r \in TagRecord : LastSays(tagfile', t, r) /\ FirstSays(tg_list', t, r)
      <4>1. t \in Staged BY <1>2, <1>4, <2>1, <3>1
      <4>2. Tag(t, stage[t]) \in TagRecord BY DEF TagsTyped, Tag, TagRecord
      <4>3. LastSays(tagfile', t, Tag(t, stage[t])) BY <1>2, <1>4, <2>1, <4>1
      <4>4. FirstSays(tg_list', t, Tag(t, stage[t])) BY <1>2, <1>3, <4>1
      <4>5. QED BY <4>2, <4>3, <4>4
    <3>2. QED BY <3>1 DEF FileSaid
  <2>2. CASE ~first
    <3>1. Names(tagfile') = {} BY <1>4, <2>2 DEF Names
    <3>2. QED BY <3>1 DEF FileSaid
  <2>3. QED BY <2>1, <2>2
<1>11. ASSUME NEW t \in TagNames PROVE Listed(tg_list', tagfile', unbooked', t)
  BY <1>1, <1>2, <1>3, <1>4 DEF Listed
<1>12. AgreeInv' BY <1>5, <1>6, <1>9, <1>10, <1>11 DEF AgreeInv
<1>13. CompletingInv' BY <1>5, <1>6 DEF CompletingInv
<1>14. QED BY <1>7, <1>12, <1>13

LEMMA LeaveInv ==
    ASSUME TagsInv, Leave
    PROVE  TagsInv'
<1>0. <<>> \in Seq(TagRecord) OBVIOUS
<1>1. TagsTyped' BY <1>0 DEF TagsInv, TagsTyped, Leave
<1>2. AgreeInv' BY DEF AgreeInv, Leave
<1>3. CompletingInv' BY DEF CompletingInv, Leave
<1>4. QED BY <1>1, <1>2, <1>3 DEF TagsInv

LEMMA ExportedInv ==
    ASSUME TagsInv, NEW t \in TagNames, NEW n \in Int, Exported(t, n)
    PROVE  TagsInv'
<1>1. TagsTyped' BY DEF TagsInv, TagsTyped, Exported
<1>2. AgreeInv' BY DEF AgreeInv, Exported
<1>3. completing' = Nothing BY DEF TagsInv, TagsTyped, Exported
<1>4. QED BY <1>1, <1>2, <1>3 DEF TagsInv, CompletingInv

\* The first half of cmd_modify.
LEMMA EditInv ==
    ASSUME TagsInv, NEW how \in {"new", "write"}, NEW t \in TagNames, Edit(how, t),
           how = "write" => t \in Names(tg_list)
    PROVE  TagsInv'
<1>1. /\ running /\ editing = NotEditing /\ completing = Nothing
      /\ editing' = [how |-> how, tag |-> t] /\ stage' = [stage EXCEPT ![t] = 0]
      /\ tg_list' = tg_list /\ tagfile' = tagfile /\ running' = running
      /\ completing' = completing /\ unbooked' = unbooked
  BY DEF Edit, AtPrompt
<1>2. /\ editing' \in [how : {"new", "write"}, tag : TagNames]
      /\ editing'.tag = t /\ editing'.how = how
  BY <1>1
<1>3. TagsTyped' BY <1>1, <1>2 DEF TagsInv, TagsTyped
<1>4. \A v \in TagNames : v # t => stage'[v] = stage[v] BY <1>1 DEF TagsInv, TagsTyped
<1>5. \A v \in TagNames : /\ StageSaid(tg_list, stage, v)
                          /\ FileSaid(tg_list, tagfile, v)
                          /\ Listed(tg_list, tagfile, unbooked, v)
  BY <1>1 DEF TagsInv, AgreeInv
<1>6. \A v \in TagNames : v # t => StageSaid(tg_list', stage', v)
  BY <1>1, <1>4, <1>5 DEF StageSaid
<1>7. editing' # NotEditing BY <1>2 DEF NotEditing
<1>8. AgreeInv'
  <2>1. \A v \in TagNames : editing' = NotEditing \/ editing'.tag # v => StageSaid(tg_list', stage', v)
    BY <1>2, <1>6, <1>7
  <2>2. \A v \in TagNames : /\ FileSaid(tg_list', tagfile', v)
                            /\ Listed(tg_list', tagfile', unbooked', v)
    BY <1>1, <1>5
  <2>3. editing'.how = "write" => editing'.tag \in Names(tg_list') BY <1>1, <1>2
  <2>4. QED BY <2>1, <2>2, <2>3 DEF AgreeInv
<1>9. QED BY <1>1, <1>3, <1>8 DEF TagsInv, CompletingInv

\* What holds while the editor runs.
LEMMA InTheEditor ==
    ASSUME TagsInv, running, NEW how \in {"new", "write"}, editing.how = how
    PROVE  /\ editing.tag \in TagNames /\ completing = Nothing
           /\ \A v \in TagNames : /\ v # editing.tag => StageSaid(tg_list, stage, v)
                                  /\ FileSaid(tg_list, tagfile, v)
                                  /\ Listed(tg_list, tagfile, unbooked, v)
           /\ how = "write" => editing.tag \in Names(tg_list)
<1>1. editing # NotEditing BY DEF NotEditing
<1>2. QED BY <1>1 DEF TagsInv, TagsTyped, AgreeInv

\* Its second half: nothing was made.
LEMMA EmptiedKeeps ==
    ASSUME TagsTyped, NEW t \in TagNames, Emptied(t),
           \A v \in TagNames : v # t => StageSaid(tg_list, stage, v)
    PROVE  /\ stage' \in [TagNames -> Int]
           /\ \A v \in TagNames : StageSaid(tg_list, stage', v)
<1>1. stage' = [stage EXCEPT ![t] = NoFile] /\ stage \in [TagNames -> Int]
  BY DEF Emptied, TagsTyped
<1>2. stage' \in [TagNames -> Int] BY <1>1 DEF NoFile
<1>3. stage'[t] = NoFile /\ \A v \in TagNames : v # t => stage'[v] = stage[v] BY <1>1
<1>4. QED BY <1>2, <1>3 DEF StageSaid

LEMMA NewDoneInv ==
    ASSUME TagsInv, NEW n \in Nat, NewDone(n)
    PROVE  TagsInv'
<1> DEFINE t == editing.tag
<1>1. running /\ editing.how = "new" /\ editing' = NotEditing /\ running' = running
      /\ completing' = completing
  BY DEF NewDone
<1>2. /\ t \in TagNames /\ completing = Nothing
      /\ \A v \in TagNames : /\ v # t => StageSaid(tg_list, stage, v)
                             /\ FileSaid(tg_list, tagfile, v)
                             /\ Listed(tg_list, tagfile, unbooked, v)
  BY <1>1, InTheEditor
<1> HIDE DEF t
<1>3. TagsTyped BY DEF TagsInv
<1>4. CASE n = 0
  <2>1. Emptied(t) /\ UNCHANGED <<tg_list, tagfile, unbooked>> BY <1>4 DEF NewDone, t
  <2>2. /\ stage' \in [TagNames -> Int]
        /\ \A v \in TagNames : StageSaid(tg_list, stage', v)
    BY <1>2, <1>3, <2>1, EmptiedKeeps
  <2>3. TagsTyped' BY <1>1, <1>2, <1>3, <2>1, <2>2 DEF TagsTyped
  <2>4. AgreeInv' BY <1>1, <1>2, <2>1, <2>2 DEF AgreeInv
  <2>5. QED BY <1>1, <1>2, <2>3, <2>4 DEF TagsInv, CompletingInv
<1>5. CASE n > 0
  <2> DEFINE r == Tag(t, n)
             u == <<r>> \o tg_list
             f == Append(tagfile, r)
  <2>1. /\ stage' = [stage EXCEPT ![t] = n] /\ tg_list' = u /\ tagfile' = f
        /\ unbooked' = unbooked \ {t}
    BY <1>5 DEF NewDone, Added, Appended, t
  <2>2. r \in TagRecord /\ r.name = t BY <1>2 DEF Tag, TagRecord
  <2>3. tg_list \in Seq(TagRecord) /\ tagfile \in Seq(TagRecord) BY <1>3 DEF TagsTyped
  <2> HIDE DEF r
  <2>4. /\ u \in Seq(TagRecord) /\ Names(u) = Names(tg_list) \cup {t}
        /\ FirstSays(u, t, r)
        /\ \A v, q : v # t /\ FirstSays(tg_list, v, q) => FirstSays(u, v, q)
    BY <2>2, <2>3, AddSays
  <2>5. /\ f \in Seq(TagRecord) /\ Names(f) = Names(tagfile) \cup {t}
        /\ LastSays(f, t, r)
        /\ \A v, q : v # t /\ LastSays(tagfile, v, q) => LastSays(f, v, q)
    BY <2>2, <2>3, AppendSays
  <2> HIDE DEF u, f
  <2>6. /\ stage' \in [TagNames -> Int] /\ stage'[t] = n
        /\ \A v \in TagNames : v # t => stage'[v] = stage[v]
    BY <1>2, <1>3, <2>1 DEF TagsTyped
  <2>7. TagsTyped' BY <1>1, <1>2, <1>3, <2>1, <2>4, <2>5, <2>6 DEF TagsTyped
  <2>8. ASSUME NEW v \in TagNames
        PROVE  /\ StageSaid(u, stage', v) /\ FileSaid(u, f, v)
               /\ Listed(u, f, unbooked', v)
    <3>1. CASE v = t
      <4>1. StageSaid(u, stage', v) BY <2>4, <2>6, <3>1 DEF StageSaid, r
      <4>2. FileSaid(u, f, v) BY <2>2, <2>4, <2>5, <3>1 DEF FileSaid
      <4>3. Listed(u, f, unbooked', v) BY <2>5, <3>1 DEF Listed
      <4>4. QED BY <4>1, <4>2, <4>3
    <3>2. CASE v # t
      <4>1. StageSaid(u, stage', v) BY <1>2, <2>4, <2>6, <3>2 DEF StageSaid
      <4>2. FileSaid(u, f, v) BY <1>2, <2>4, <2>5, <3>2 DEF FileSaid
      <4>3. Listed(u, f, unbooked', v) BY <1>2, <2>1, <2>4, <2>5, <3>2 DEF Listed
      <4>4. QED BY <4>1, <4>2, <4>3
    <3>3. QED BY <3>1, <3>2
  <2>9. AgreeInv' BY <1>1, <2>1, <2>8 DEF AgreeInv
  <2>10. QED BY <1>1, <1>2, <2>7, <2>9 DEF TagsInv, CompletingInv
<1>6. QED BY <1>4, <1>5

LEMMA WriteDoneInv ==
    ASSUME TagsInv, NEW n \in Nat, WriteDone(n)
    PROVE  TagsInv'
<1> DEFINE t == editing.tag
<1>1. running /\ editing.how = "write" /\ editing' = NotEditing /\ running' = running
      /\ completing' = completing
  BY DEF WriteDone
<1>2. /\ t \in TagNames /\ completing = Nothing
      /\ \A v \in TagNames : /\ v # t => StageSaid(tg_list, stage, v)
                             /\ FileSaid(tg_list, tagfile, v)
                             /\ Listed(tg_list, tagfile, unbooked, v)
      /\ t \in Names(tg_list)
  BY <1>1, InTheEditor
<1> HIDE DEF t
<1>3. TagsTyped BY DEF TagsInv
<1>4. tg_list \in Seq(TagRecord) /\ tagfile \in Seq(TagRecord) BY <1>3 DEF TagsTyped
<1>5. <<t, t>> \in Within BY <1>2, TagsAssumption
<1>6. unbooked' = unbooked \cup {v \in TagNames \ {t} : <<t, v>> \in Within}
                           \cup (IF n = 0 THEN {t} ELSE {})
  BY DEF WriteDone, Overwritten, t
<1>7. CASE n = 0
  <2>1. Emptied(t) /\ tagfile' = Deleted(t) /\ tg_list' = tg_list BY <1>7 DEF WriteDone, t
  <2>2. /\ stage' \in [TagNames -> Int]
        /\ \A v \in TagNames : StageSaid(tg_list, stage', v)
    BY <1>2, <1>3, <2>1, EmptiedKeeps
  <2>3. /\ tagfile' \in Seq(TagRecord)
        /\ \A v : v \in Names(tagfile') <=> v \in Names(tagfile) /\ <<t, v>> \notin Within
        /\ \A v, q : <<t, v>> \notin Within /\ LastSays(tagfile, v, q) => LastSays(tagfile', v, q)
    BY <1>4, <2>1, DeleteSays
  <2>4. TagsTyped' BY <1>1, <1>2, <1>3, <2>1, <2>2, <2>3 DEF TagsTyped
  <2>5. ASSUME NEW v \in TagNames
        PROVE  FileSaid(tg_list, tagfile', v) /\ Listed(tg_list, tagfile', unbooked', v)
    <3>1. FileSaid(tg_list, tagfile', v) BY <1>2, <2>3 DEF FileSaid
    <3>2. Listed(tg_list, tagfile', unbooked', v) BY <1>2, <1>6, <1>7, <2>3 DEF Listed
    <3>3. QED BY <3>1, <3>2
  <2>6. AgreeInv' BY <1>1, <2>1, <2>2, <2>5 DEF AgreeInv
  <2>7. QED BY <1>1, <1>2, <2>4, <2>6 DEF TagsInv, CompletingInv
<1>8. CASE n > 0
  <2> DEFINE u == [tg_list EXCEPT ![FirstOf(tg_list, t)].lines = n]
             f == Changed(t, n)
  <2>1. stage' = [stage EXCEPT ![t] = n] /\ tg_list' = u /\ tagfile' = f
    BY <1>8 DEF WriteDone, t
  <2>2. /\ u \in Seq(TagRecord) /\ Names(u) = Names(tg_list)
        /\ FirstSays(u, t, Tag(t, n))
        /\ \A v, q : v # t /\ FirstSays(tg_list, v, q) => FirstSays(u, v, q)
    <3>1. tg_list \in Seq(TagRecord) /\ t \in Names(tg_list) /\ n \in Int BY <1>2, <1>4
    <3>2. QED BY <3>1, WriteSays
  <2>3. /\ f \in Seq(TagRecord)
        /\ \A v : v \in Names(f) /\ v # t => v \in Names(tagfile) /\ <<t, v>> \notin Within
        /\ \A v : v \in Names(tagfile) /\ (<<t, v>> \notin Within \/ v = t) => v \in Names(f)
        /\ t \in Names(f) => LastSays(f, t, Tag(t, n))
        /\ \A v, q : <<t, v>> \notin Within /\ LastSays(tagfile, v, q) => LastSays(f, v, q)
    BY <1>2, <1>4, ChangeSays, SMTT(30)
  <2> HIDE DEF u, f
  <2>4. /\ stage' \in [TagNames -> Int] /\ stage'[t] = n
        /\ \A v \in TagNames : v # t => stage'[v] = stage[v]
    BY <1>2, <1>3, <2>1 DEF TagsTyped
  <2>5. TagsTyped' BY <1>1, <1>2, <1>3, <2>1, <2>2, <2>3, <2>4 DEF TagsTyped
  <2>6. Tag(t, n) \in TagRecord BY <1>2 DEF Tag, TagRecord
  <2>7. ASSUME NEW v \in TagNames
        PROVE  /\ StageSaid(u, stage', v) /\ FileSaid(u, f, v)
               /\ Listed(u, f, unbooked', v)
    <3>1. CASE v = t
      <4>1. StageSaid(u, stage', v) BY <2>2, <2>4, <3>1 DEF StageSaid
      <4>2. FileSaid(u, f, v) BY <2>2, <2>3, <2>6, <3>1 DEF FileSaid
      <4>3. Listed(u, f, unbooked', v) BY <1>2, <1>6, <2>2, <2>3, <3>1 DEF Listed
      <4>4. QED BY <4>1, <4>2, <4>3
    <3>2. CASE v # t
      <4>1. StageSaid(u, stage', v) BY <1>2, <2>2, <2>4, <3>2 DEF StageSaid
      <4>2. FileSaid(u, f, v) BY <1>2, <2>2, <2>3, <3>2 DEF FileSaid
      <4>3. Listed(u, f, unbooked', v) BY <1>2, <1>6, <2>2, <2>3, <3>2 DEF Listed
      <4>4. QED BY <4>1, <4>2, <4>3
    <3>3. QED BY <3>1, <3>2
  <2>8. AgreeInv' BY <1>1, <2>1, <2>7 DEF AgreeInv
  <2>9. QED BY <1>1, <1>2, <2>5, <2>8 DEF TagsInv, CompletingInv
<1>9. QED BY <1>7, <1>8

-----------------------------------------------------------------------------
(* Completion *)

LEMMA OfferedTyped ==
    ASSUME TagsTyped, NEW of
    PROVE  /\ Offered(of) \in Seq(TagNames)
           /\ DOMAIN Offered(of) = 1 .. Len(Offered(of)) /\ Len(Offered(of)) \in Nat
<1>1. Offered(of) \in Seq(TagNames)
  <2>1. CASE of = "command" BY <2>1, TagsAssumption DEF Offered
  <2>2. CASE of # "command"
    <3>1. tg_list \in Seq(TagRecord) BY DEF TagsTyped
    <3>02. DOMAIN tg_list = 1 .. Len(tg_list) /\ Len(tg_list) \in Nat
           /\ \A k \in 1 .. Len(tg_list) : tg_list[k] \in TagRecord
      BY <3>1
    <3>2. DOMAIN tg_list = 1 .. Len(tg_list) /\ Len(tg_list) \in Nat
          /\ \A k \in 1 .. Len(tg_list) : tg_list[k].name \in TagNames
      BY <3>02 DEF TagRecord
    <3>3. Offered(of) = [k \in 1 .. Len(tg_list) |-> tg_list[k].name]
      BY <2>2, <3>2 DEF Offered
    <3>4. QED BY <3>2, <3>3
  <2>3. QED BY <2>1, <2>2
<1>2. QED BY <1>1

LEMMA FitsSubset ==
    ASSUME NEW names \in Seq(TagNames), NEW text, NEW place
    PROVE  /\ Fits(names, text) \in SUBSET (1 .. Len(names))
           /\ FitsUpTo(names, text, place) \in SUBSET (1 .. Len(names))
           /\ IsFiniteSet(FitsUpTo(names, text, place)) /\ FitsUpTo(names, text, place) \subseteq Nat
           /\ IsFiniteSet(Fits(names, text)) /\ Fits(names, text) \subseteq Nat
<1>1. DOMAIN names = 1 .. Len(names) OBVIOUS
<1>2. Fits(names, text) \in SUBSET (1 .. Len(names)) BY <1>1 DEF Fits
<1>3. FitsUpTo(names, text, place) \in SUBSET (1 .. Len(names)) BY <1>2 DEF FitsUpTo
<1>4. QED BY <1>2, <1>3, ThoseTyped

\* One more place behind all others.
LEMMA ThoseAppended ==
    ASSUME NEW D, NEW s \in Seq(D), NEW S \in SUBSET (1 .. Len(s)), NEW m \in 1 .. Len(s),
           \A k \in S : k < m
    PROVE  Those(s, S \cup {m}) = Append(Those(s, S), s[m])
<1> DEFINE T == S \cup {m}
           r == Those(s, S)
           u == Those(s, T)
           c == Cardinality(S)
<1>1. T \in SUBSET (1 .. Len(s)) /\ m \in Nat OBVIOUS
<1>2. IsFiniteSet(S) /\ S \subseteq Nat /\ r \in Seq(D) /\ Len(r) = c BY ThoseTyped
<1> HIDE DEF T
<1>3. IsFiniteSet(T) /\ T \subseteq Nat /\ u \in Seq(D) /\ Len(u) = Cardinality(T)
  BY <1>1, ThoseTyped
<1>4. m \notin S BY <1>1, <1>2
<1>5. c \in Nat /\ Cardinality(T) = c + 1
  <2>1. c \in Nat BY <1>2, FS_CardinalityType
  <2>2. Cardinality(S \cup {m}) = c + 1 BY <1>2, <1>4, FS_AddElement
  <2>3. QED BY <2>1, <2>2 DEF T
<1>6. (\A k \in S : r[Rank(S, k)] = s[k]) /\ (\A k \in T : u[Rank(T, k)] = s[k])
  BY <1>2, <1>3, ThoseAt
<1>7. \A k \in S : Rank(T, k) = Rank(S, k)
  <2> TAKE k \in S
  <2>1. k \in Nat /\ \A j \in S : j \in Nat BY <1>2
  <2>2. ~(m <= k) BY <1>1, <2>1
  <2>3. {j \in T : j <= k} = {j \in S : j <= k} BY <2>2 DEF T
  <2>4. QED BY <2>3 DEF Rank
<1>8. Rank(T, m) = c + 1
  <2>1. \A j \in S : j <= m BY <1>1, <1>2
  <2>02. \A j \in T : j <= m BY <1>1, <2>1 DEF T
  <2>2. {j \in T : j <= m} = T BY <2>02
  <2>3. QED BY <1>5, <2>2 DEF Rank
<1>9. m \in T /\ S \subseteq T BY DEF T
<1>10. ASSUME NEW n \in 1 .. c PROVE u[n] = r[n]
  <2>1. PICK k \in S : Rank(S, k) = n BY <1>2, EveryRank
  <2>2. QED BY <1>6, <1>7, <1>9, <2>1
<1>11. u[c + 1] = s[m] BY <1>6, <1>8, <1>9
<1> DEFINE a == Append(r, s[m])
<1>12. /\ a \in Seq(D) /\ Len(a) = c + 1 /\ a[c + 1] = s[m]
       /\ \A n \in 1 .. c : a[n] = r[n]
  <2> HIDE DEF r, c
  <2>1. s[m] \in D OBVIOUS
  <2>2. QED BY <1>2, <2>1
<1> HIDE DEF a, u, r, c
<1>13. \A n \in 1 .. c + 1 : u[n] = a[n] BY <1>5, <1>10, <1>11, <1>12
<1>14. u = a BY <1>3, <1>5, <1>12, <1>13
<1>15. QED BY <1>14 DEF u, a, r, T

\* What is kept up to a place is a prefix of all that is kept.
LEMMA ThosePrefix ==
    ASSUME NEW D, NEW s \in Seq(D), NEW S \in SUBSET (1 .. Len(s)), NEW p \in Nat
    PROVE  IsPrefix(Those(s, {k \in S : k <= p}), Those(s, S))
<1> DEFINE P == {k \in S : k <= p}
           r == Those(s, P)
           u == Those(s, S)
           c == Cardinality(P)
<1>1. P \in SUBSET (1 .. Len(s)) /\ P \in SUBSET S /\ \A k \in P : k <= p OBVIOUS
<1>2. IsFiniteSet(S) /\ S \subseteq Nat /\ u \in Seq(D) /\ Len(u) = Cardinality(S)
  BY ThoseTyped
<1>03. \A k : k \in P <=> k \in S /\ k <= p OBVIOUS
<1> HIDE DEF P
<1>3. IsFiniteSet(P) /\ P \subseteq Nat /\ r \in Seq(D) /\ Len(r) = c BY <1>1, ThoseTyped
<1>4. c \in Nat /\ Cardinality(S) \in Nat /\ c <= Cardinality(S)
  BY <1>1, <1>2, FS_Subset, FS_CardinalityType
<1>5. (\A k \in P : r[Rank(P, k)] = s[k]) /\ (\A k \in S : u[Rank(S, k)] = s[k])
  BY <1>2, <1>3, ThoseAt
<1>6. \A k \in P : Rank(S, k) = Rank(P, k)
  <2> TAKE k \in P
  <2>1. k \in Nat /\ k <= p /\ \A j \in S : j \in Nat BY <1>1, <1>2, <1>3
  <2>2. \A j \in S : j <= k => j <= p BY <2>1
  <2>3. {j \in S : j <= k} = {j \in P : j <= k} BY <1>03, <2>2
  <2>4. QED BY <2>3 DEF Rank
<1>7. ASSUME NEW n \in 1 .. c PROVE u[n] = r[n]
  <2>1. PICK k \in P : Rank(P, k) = n BY <1>3, EveryRank
  <2>2. QED BY <1>1, <1>5, <1>6, <2>1
<1> HIDE DEF r, u, c
<1>8. SubSeq(r, 1, c) = SubSeq(u, 1, c) BY <1>2, <1>3, <1>4, <1>7
<1>9. QED BY <1>2, <1>3, <1>4, <1>8 DEF IsPrefix, r, u, P

LEMMA AskedInv ==
    ASSUME TagsInv, NEW text \in TagNames, NEW of \in {"command", "tag"},
           ltsys_completion(text, of)
    PROVE  TagsInv'
<1> DEFINE c == [how |-> "asked", of |-> of, text |-> text, at |-> 0, out |-> <<>>]
<1>1. /\ running /\ editing = NotEditing /\ completing' = c
      /\ stage' = stage /\ tg_list' = tg_list /\ tagfile' = tagfile /\ running' = running
      /\ editing' = editing /\ unbooked' = unbooked
  BY DEF ltsys_completion, AtPrompt
<1>2. TagsTyped' BY <1>1 DEF TagsInv, TagsTyped
<1>3. AgreeInv' BY <1>1 DEF TagsInv, AgreeInv
<1>4. PICK names : names = Offered(of) OBVIOUS
<1>5. names \in Seq(TagNames) BY <1>4, OfferedTyped DEF TagsInv
<1>6. FitsUpTo(names, text, 0) = {}
  <2>1. \A k \in 1 .. Len(names) : ~(k <= 0) OBVIOUS
  <2>2. QED BY <1>5, <2>1, FitsSubset DEF FitsUpTo
<1>7. Those(names, {}) = <<>>
  <2>1. Those(names, {}) \in Seq(TagNames) /\ Len(Those(names, {})) = Cardinality({})
    BY <1>5, ThoseTyped
  <2>2. Cardinality({}) = 0 BY FS_EmptySet
  <2>3. QED BY <2>1, <2>2
<1>8. c \in [how : {"asked", "ended"}, of : {"command", "tag"}, text : TagNames,
             at : Nat, out : Seq(TagNames)]
  <2>1. <<>> \in Seq(TagNames) OBVIOUS
  <2>2. QED BY <2>1
<1>9. c.text = text /\ c.at = 0 /\ c.out = <<>> /\ c.how # "ended" /\ c.of = of OBVIOUS
<1> HIDE DEF c
<1>10. CompletionOK(c, names) BY <1>6, <1>7, <1>8, <1>9 DEF CompletionOK
<1>11. Offered(c.of)' = names BY <1>1, <1>4, <1>9 DEF Offered
<1>12. CompletingInv' BY <1>1, <1>4, <1>9, <1>10, <1>11 DEF CompletingInv, Offered
<1>13. QED BY <1>2, <1>3, <1>12 DEF TagsInv

LEMMA GeneratesInv ==
    ASSUME TagsInv, NEW of, Generates(of)
    PROVE  TagsInv'
<1>1. /\ completing.how = "asked" /\ completing.of = of
      /\ stage' = stage /\ tg_list' = tg_list /\ tagfile' = tagfile /\ running' = running
      /\ editing' = editing /\ unbooked' = unbooked
      /\ completing' =
            IF Searched(completing) = {} THEN [completing EXCEPT !.how = "ended"]
            ELSE [completing EXCEPT !.at = Min(Searched(completing)),
                                    !.out = Append(@, Offered(of)[Min(Searched(completing))])]
  BY DEF Generates
<1>2. completing # Nothing BY <1>1 DEF Nothing
<1>3. TagsTyped' BY <1>1, <1>2 DEF TagsInv, TagsTyped
<1>4. AgreeInv' BY <1>1 DEF TagsInv, AgreeInv
<1>5. PICK names : names = Offered(of) OBVIOUS
<1>6. /\ names \in Seq(TagNames) /\ DOMAIN names = 1 .. Len(names) /\ Len(names) \in Nat
  BY <1>5, OfferedTyped DEF TagsInv
<1>7. PICK c : c = completing OBVIOUS
<1>8. CompletionOK(c, names) BY <1>1, <1>2, <1>5, <1>7 DEF TagsInv, CompletingInv
<1>9. c \in [how : {"asked", "ended"}, of : {"command", "tag"}, text : TagNames,
             at : Nat, out : Seq(TagNames)]
      /\ c.out = Those(names, FitsUpTo(names, c.text, c.at))
  BY <1>8 DEF CompletionOK
<1>10. PICK found : found = Searched(c) OBVIOUS
<1>11. \A k : k \in found <=> k \in Fits(names, c.text) /\ k > c.at
  BY <1>1, <1>5, <1>7, <1>10 DEF Searched, Fits
<1>12. Fits(names, c.text) \in SUBSET (1 .. Len(names)) BY <1>6, FitsSubset
<1>13. c.at \in Nat BY <1>9
<1>14. CASE found = {}
  <2>1. completing' = [c EXCEPT !.how = "ended"] BY <1>1, <1>7, <1>10, <1>14
  <2>2. /\ completing' \in [how : {"asked", "ended"}, of : {"command", "tag"}, text : TagNames,
                            at : Nat, out : Seq(TagNames)]
        /\ completing'.text = c.text /\ completing'.at = c.at /\ completing'.out = c.out
        /\ completing'.of = c.of
    BY <1>9, <2>1
  <2>3. \A k \in Fits(names, c.text) : k <= c.at BY <1>11, <1>12, <1>13, <1>14
  <2>4. PICK d : d = completing' OBVIOUS
  <2>5. CompletionOK(d, names) BY <1>9, <2>2, <2>3, <2>4 DEF CompletionOK
  <2>6. Offered(completing.of)' = names
    BY <1>1, <1>5, <1>7, <2>2 DEF Offered
  <2>7. CompletingInv' BY <2>4, <2>5, <2>6 DEF CompletingInv
  <2>8. QED BY <1>3, <1>4, <2>7 DEF TagsInv
<1>15. CASE found # {}
  <2>1. PICK m : m = Min(found) OBVIOUS
  <2>2. m \in found /\ \A k \in found : m <= k
    <3>1. found \subseteq Nat BY <1>11, <1>12
    <3>2. \E k \in found : \A j \in found : k <= j BY <1>15, <3>1, LeastOf
    <3>3. QED BY <2>1, <3>2, Zenon DEF Min
  <2>3. completing' = [c EXCEPT !.at = m, !.out = Append(@, names[m])]
    BY <1>1, <1>5, <1>7, <1>10, <1>15, <2>1
  <2>4. m \in 1 .. Len(names) /\ m \in Fits(names, c.text) /\ m > c.at BY <1>11, <1>12, <2>2
  <2>5. names[m] \in TagNames BY <1>6, <2>4
  <2>6. /\ completing' \in [how : {"asked", "ended"}, of : {"command", "tag"}, text : TagNames,
                            at : Nat, out : Seq(TagNames)]
        /\ completing'.text = c.text /\ completing'.at = m
        /\ completing'.out = Append(c.out, names[m])
        /\ completing'.of = c.of /\ completing'.how = c.how
    <3>1. m \in Nat BY <2>4
    <3>2. Append(c.out, names[m]) \in Seq(TagNames) BY <1>9, <2>5
    <3>3. QED BY <1>9, <2>3, <3>1, <3>2
  <2>7. PICK S : S = FitsUpTo(names, c.text, c.at) OBVIOUS
  <2>8. S \in SUBSET (1 .. Len(names)) /\ \A k \in S : k < m
    <3>1. S \in SUBSET (1 .. Len(names)) BY <1>6, <2>7, FitsSubset
    <3>2. \A k \in S : k <= c.at BY <2>7 DEF FitsUpTo
    <3>3. QED BY <1>13, <2>4, <3>1, <3>2
  <2>9. FitsUpTo(names, c.text, m) = S \cup {m}
    <3>1. \A k \in Fits(names, c.text) : k <= m <=> k <= c.at \/ k = m
      <4> TAKE k \in Fits(names, c.text)
      <4>1. k \in Nat BY <1>12
      <4>2. k > c.at => m <= k BY <1>11, <2>2
      <4>3. QED BY <1>13, <2>4, <4>1, <4>2
    <3>2. QED BY <2>4, <2>7, <3>1 DEF FitsUpTo
  <2>10. Those(names, S \cup {m}) = Append(Those(names, S), names[m])
    BY <1>6, <2>4, <2>8, ThoseAppended
  <2>11. PICK d : d = completing' OBVIOUS
  <2>12. d.out = Those(names, FitsUpTo(names, d.text, d.at))
    BY <1>9, <2>6, <2>7, <2>9, <2>10, <2>11
  <2>13. d.how # "ended" BY <1>1, <1>7, <2>6, <2>11
  <2>14. CompletionOK(d, names) BY <2>6, <2>11, <2>12, <2>13 DEF CompletionOK
  <2>15. Offered(completing.of)' = names
    BY <1>1, <1>5, <1>7, <2>6 DEF Offered
  <2>16. CompletingInv' BY <2>11, <2>14, <2>15 DEF CompletingInv
  <2>17. QED BY <1>3, <1>4, <2>16 DEF TagsInv
<1>16. QED BY <1>14, <1>15

LEMMA CompletedInv ==
    ASSUME TagsInv, Completed
    PROVE  TagsInv'
<1>1. TagsTyped' BY DEF TagsInv, TagsTyped, Completed
<1>2. AgreeInv' BY DEF TagsInv, AgreeInv, Completed
<1>3. CompletingInv' BY DEF CompletingInv, Completed
<1>4. QED BY <1>1, <1>2, <1>3 DEF TagsInv

LEMMA StutterInv ==
    ASSUME TagsInv, UNCHANGED tagVars
    PROVE  TagsInv'
<1>1. TagsTyped' BY DEF TagsInv, TagsTyped, tagVars
<1>2. AgreeInv' BY DEF TagsInv, AgreeInv, tagVars
<1>3. Offered(completing.of)' = Offered(completing.of) BY DEF Offered, tagVars
<1>4. completing' = completing BY DEF tagVars
<1>5. CompletingInv' BY <1>3, <1>4 DEF TagsInv, CompletingInv
<1>6. QED BY <1>1, <1>2, <1>5 DEF TagsInv

LEMMA StepInv ==
    ASSUME TagsInv, [TagsNext]_tagVars
    PROVE  TagsInv'
<1>1. CASE command_init BY <1>1, StartInv
<1>2. CASE Leave BY <1>2, LeaveInv
<1>3. CASE command_generator BY <1>3, GeneratesInv DEF command_generator
<1>4. CASE cmd_modify_n_generator BY <1>4, GeneratesInv DEF cmd_modify_n_generator
<1>5. CASE Completed BY <1>5, CompletedInv
<1>6. ASSUME NEW t \in TagNames, NEW n \in NoFile .. MaxLines, Exported(t, n) PROVE TagsInv'
  BY <1>6, TagsAssumption, ExportedInv DEF NoFile
<1>7. ASSUME NEW t \in TagNames, ModifyNew(t) PROVE TagsInv'
  BY <1>7, EditInv DEF ModifyNew
<1>8. ASSUME NEW t \in TagNames, ModifyWrite(t) PROVE TagsInv'
  <2>1. CASE t \in Names(tg_list)
    <3>1. Edit("write", t) BY <1>8, <2>1 DEF ModifyWrite
    <3>2. QED BY <2>1, <3>1, EditInv
  <2>2. CASE t \notin Names(tg_list)
    <3>1. Edit("new", t) BY <1>8, <2>2 DEF ModifyWrite
    <3>2. QED BY <3>1, EditInv
  <2>3. QED BY <2>1, <2>2
<1>9. ASSUME NEW t \in TagNames, NEW of \in {"command", "tag"}, ltsys_completion(t, of)
      PROVE TagsInv'
  BY <1>9, AskedInv
<1>10. ASSUME NEW n \in 0 .. MaxLines, NewDone(n) PROVE TagsInv'
  BY <1>10, TagsAssumption, NewDoneInv
<1>11. ASSUME NEW n \in 0 .. MaxLines, WriteDone(n) PROVE TagsInv'
  BY <1>11, TagsAssumption, WriteDoneInv
<1>12. CASE UNCHANGED tagVars BY <1>12, StutterInv
<1>13. QED
  BY <1>1, <1>2, <1>3, <1>4, <1>5, <1>6, <1>7, <1>8, <1>9, <1>10, <1>11, <1>12 DEF TagsNext

LEMMA TagsInvariant == TagsSpec => []TagsInv
<1>1. TagsInit => TagsInv BY InitInv
<1>2. TagsInv /\ [TagsNext]_tagVars => TagsInv' BY StepInv
<1>3. QED BY <1>1, <1>2, PTL DEF TagsSpec

-----------------------------------------------------------------------------
(* Theorems *)

LEMMA InvAgrees ==
    ASSUME TagsInv
    PROVE  StageIsListed
<1> SUFFICES ASSUME running, editing = NotEditing
             PROVE  /\ \A t \in Staged :
                        /\ t \in Names(tg_list)
                        /\ tg_list[FirstOf(tg_list, t)].lines = stage[t]
                    /\ \A t \in Names(tagfile) :
                        /\ t \in Names(tg_list)
                        /\ tagfile[LastOf(tagfile, t)] = tg_list[FirstOf(tg_list, t)]
                    /\ Staged \ Names(tagfile) \subseteq unbooked
  BY DEF StageIsListed, TagsAgree, MissesOnlyUnbooked
<1>1. tg_list \in Seq(TagRecord) /\ tagfile \in Seq(TagRecord) BY DEF TagsInv, TagsTyped
<1>2. \A t \in TagNames : /\ StageSaid(tg_list, stage, t)
                          /\ FileSaid(tg_list, tagfile, t)
                          /\ Listed(tg_list, tagfile, unbooked, t)
  BY DEF TagsInv, AgreeInv
<1>3. \A t, r : FirstSays(tg_list, t, r) =>
        t \in Names(tg_list) /\ tg_list[FirstOf(tg_list, t)] = r
  <2> SUFFICES ASSUME NEW t, NEW r, NEW k, IsFirst(tg_list, t, k), tg_list[k] = r
               PROVE  t \in Names(tg_list) /\ tg_list[FirstOf(tg_list, t)] = r
    BY DEF FirstSays
  <2>1. Places(tg_list, t) # {} BY DEF IsFirst
  <2>2. QED BY <1>1, <2>1, FirstIs, NamesPlaces
<1>4. \A t, r : LastSays(tagfile, t, r) => tagfile[LastOf(tagfile, t)] = r
  BY <1>1, LastIs DEF LastSays
<1>5. ASSUME NEW t \in Staged
      PROVE  t \in Names(tg_list) /\ tg_list[FirstOf(tg_list, t)].lines = stage[t]
  <2>1. t \in TagNames /\ stage[t] # NoFile BY DEF Staged
  <2>2. FirstSays(tg_list, t, Tag(t, stage[t])) BY <1>2, <2>1 DEF StageSaid
  <2>3. Tag(t, stage[t]).lines = stage[t] BY DEF Tag
  <2>4. QED BY <1>3, <2>2, <2>3
<1>6. ASSUME NEW t \in Names(tagfile)
      PROVE  t \in Names(tg_list) /\ tagfile[LastOf(tagfile, t)] = tg_list[FirstOf(tg_list, t)]
  <2>1. t \in TagNames BY <1>1, NamesPlaces
  <2>2. PICK r : LastSays(tagfile, t, r) /\ FirstSays(tg_list, t, r)
    BY <1>2, <2>1 DEF FileSaid
  <2>3. QED BY <1>3, <1>4, <2>2
<1>7. Staged \ Names(tagfile) \subseteq unbooked BY <1>2, <1>5 DEF Listed, Staged
<1>8. QED BY <1>5, <1>6, <1>7

LEMMA InvCompletes ==
    ASSUME TagsInv
    PROVE  CompletesRight
<1> SUFFICES ASSUME completing # Nothing PROVE CompletesRight BY DEF CompletesRight
<1>1. PICK names : names = Offered(completing.of) OBVIOUS
<1>2. CompletionOK(completing, names) BY <1>1 DEF TagsInv, CompletingInv
<1>3. names \in Seq(TagNames) BY <1>1, OfferedTyped DEF TagsInv
<1>4. PICK S : S = Fits(names, completing.text) OBVIOUS
<1>5. S \in SUBSET (1 .. Len(names)) BY <1>3, <1>4, FitsSubset
<1>6. completing.at \in Nat /\ completing.out = Those(names, {k \in S : k <= completing.at})
  BY <1>2, <1>4 DEF CompletionOK, FitsUpTo
<1>7. IsPrefix(completing.out, Those(names, S)) BY <1>3, <1>5, <1>6, ThosePrefix
<1>8. ASSUME completing.how = "ended" PROVE completing.out = Those(names, S)
  <2>1. {k \in S : k <= completing.at} = S BY <1>2, <1>4, <1>8 DEF CompletionOK
  <2>2. QED BY <1>6, <2>1
<1>9. S = {k \in DOMAIN names : <<completing.text, names[k]>> \in Begins} BY <1>4 DEF Fits
<1>10. QED BY <1>1, <1>7, <1>8, <1>9 DEF CompletesRight

\* Between commands memory and the tag list file say of the stage what TagsAgree states,
\* and the file misses an object only in the ways MissesOnlyUnbooked names, whatever the
\* user, his editor and other programs do and in whatever order readdir returns the stage.
THEOREM TagsStageIsListed == TagsSpec => []StageIsListed
  BY TagsInvariant, InvAgrees, PTL

\* A completion returns each name that fits once and in order, for any lists of names.
THEOREM TagsCompletesRight == TagsSpec => []CompletesRight
  BY TagsInvariant, InvCompletes, PTL

=============================================================================
