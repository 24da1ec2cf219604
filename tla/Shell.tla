------------------------------- MODULE Shell --------------------------------
(***************************************************************************)
(* User processes at the level of their system calls: init (user/init.c),  *)
(* the shell's main loop and runcmd() (user/sh.c), and two programs a      *)
(* command runs (user/cat.c, user/echo.c), on the open files of FileTable  *)
(* and on fork(), exit() and wait().                                       *)
(*                                                                         *)
(* A process is a script: the system calls it still has to make, in order. *)
(* Each action executes the first of them, and what the code does with the *)
(* result: goes on, or replaces the script.  A command line is parsed by   *)
(* the operators of ShParse.  In a script, P0 and P1 are the descriptors   *)
(* p[0] and p[1] that pipe() has filled in.                                *)
(***************************************************************************)
EXTENDS FileTable, ShParse, SequencesExt

CONSTANT Sessions   \* the lines that may be typed at the prompt, again and again, and how
                    \* many of the NPROC processes there are for them: [lines, procs]

VARIABLES
  session,
  files,     \* the tables of FileTable
  procs      \* per process: st, parent, kind, script, p; rf of a pipe() under way; init's pid

vars == <<session, files, procs>>
initproc == 1

\* System calls of a script.
P0 == -1
P1 == -2
Close(fd) == [op |-> "close", fd |-> fd]
Dup(fd) == [op |-> "dup", fd |-> fd]
Open(mode) == [op |-> "open", mode |-> mode]
Fork(kind, child) == [op |-> "fork", kind |-> kind, child |-> child]
Run(cmd) == [op |-> "run", cmd |-> cmd]
Op(op) == [op |-> op]
Exit == <<Op("exit")>>

Unused == [st |-> "unused", parent |-> 0, kind |-> "none", script |-> <<>>, p |-> <<>>, rf |-> 0,
           pid |-> 0]

-----------------------------------------------------------------------------
\* init's main(): three descriptors of the console, then start the shell and
\* wait for it, again and again.
sh_main == <<Op("console")>>
StartShell == <<Fork("sh", sh_main), Op("initwait")>>
init_main == <<Open("console"), Dup(0), Dup(0)>> \o StartShell

\* runcmd(): the calls that a command stands for.
PipeEnd_keeps(std, p, cmd) == <<Close(std), Dup(p), Close(p), Run(cmd)>>
PipeEnd(std, p, cmd) == <<Close(std), Dup(p), Close(P0), Close(P1), Run(cmd)>>

runcmd_waits(cmd) ==
  CASE cmd.type = "EXEC" -> IF cmd.argv = <<>> THEN Exit ELSE <<[op |-> "exec", argv |-> cmd.argv]>>
    [] cmd.type = "REDIR" -> <<Close(cmd.fd), Open(cmd.mode), Run(cmd.cmd)>>
    [] cmd.type = "LIST" -> <<Fork("cmd", <<Run(cmd.left)>>), Op("wait"), Run(cmd.right)>>
    [] cmd.type = "PIPE" ->
         <<Op("pipe"),
           Fork("cmd", PipeEnd(1, P1, cmd.left)),
           Fork("cmd", PipeEnd(0, P0, cmd.right)),
           Op("wait"), Op("wait"), Close(P0), Close(P1), Op("exit")>>
    [] cmd.type = "BACK" -> <<Fork("cmd", <<Run(cmd.cmd)>>), Op("exit")>>

runcmd(cmd) ==
  CASE cmd.type = "EXEC" -> IF cmd.argv = <<>> THEN Exit ELSE <<[op |-> "exec", argv |-> cmd.argv]>>
    [] cmd.type = "REDIR" -> <<Close(cmd.fd), Open(cmd.mode), Run(cmd.cmd)>>
    [] cmd.type = "LIST" -> <<Fork("cmd", <<Run(cmd.left)>>), Op("wait"), Run(cmd.right)>>
    [] cmd.type = "PIPE" ->
         <<Op("pipe"),
           Fork("cmd", PipeEnd(1, P1, cmd.left)),
           Fork("cmd", PipeEnd(0, P0, cmd.right)),
           Close(P0), Close(P1), Op("wait"), Op("wait"), Op("exit")>>
    [] cmd.type = "BACK" -> <<Fork("cmd", <<Run(cmd.cmd)>>), Op("exit")>>

\* runcmd(parsecmd(line)), in the child: a line that does not parse is a
\* panic().
Parsed == [line \in UNION {s.lines : s \in Sessions} |-> parsecmd(line)]
RunLine(c) == IF c.s = 0 THEN Exit ELSE <<Run(c.cmd)>>

\* The programs: e is echo, which writes each argument and what follows it,
\* and c is cat of its standard input; there is no other.
Program(argv) ==
  CASE argv[1] = <<"e">> -> [i \in 1..2 * (Len(argv) - 1) |-> Op("write")] \o Exit
    [] argv = <<<<"c">>>> -> <<Op("catread")>>
    [] OTHER -> Exit

Init ==
  /\ session \in Sessions
  /\ files = fileinit
  /\ procs = [q \in Procs |->
       IF q = initproc
       THEN [Unused EXCEPT !.st = "used", !.kind = "init", !.script = init_main] ELSE Unused]

-----------------------------------------------------------------------------
\* Process q is about to make the call op; its script after it.
Calls(q, op) == procs[q].st = "used" /\ Head(procs[q].script).op = op
Call(q) == Head(procs[q].script)
Rest(q) == Tail(procs[q].script)
Goto(q, script) == procs' = [procs EXCEPT ![q].script = script]
Fd(q, fd) == IF fd \in {P0, P1} THEN procs[q].p[-fd] ELSE fd

close(q) ==
  /\ Calls(q, "close")
  /\ files' = sys_close(files, q, Fd(q, Call(q).fd))
  /\ Goto(q, Rest(q))

\* dup(), whose result nobody looks at.
dup(q) ==
  /\ Calls(q, "dup")
  /\ files' = sys_dup(files, q, Fd(q, Call(q).fd)).k
  /\ Goto(q, Rest(q))

\* open() of init and of runcmd(): the console is there, a file may not be.
open(q) ==
  /\ Calls(q, "open")
  /\ LET mode == Call(q).mode
         type == IF mode = "console" THEN "device" ELSE "inode"
         r == sys_open(files, q, type, mode # "r")
     IN \/ files' = r.k /\ Goto(q, IF r.ret = -1 THEN Exit ELSE Rest(q))
        \/ mode # "console" /\ Goto(q, Exit) /\ UNCHANGED files

\* The loop at the start of the shell: open the console until there is a
\* descriptor above 2, which is closed again.
console(q) ==
  /\ Calls(q, "console")
  /\ LET r == sys_open(files, q, "device", TRUE)
     IN /\ files' = r.k
        /\ Goto(q, IF r.ret >= 3 THEN <<Close(r.ret), Op("getcmd")>>
                   ELSE IF r.ret = -1 THEN <<Op("getcmd")>> ELSE procs[q].script)

\* The prompt: end of file, "cd", which the shell does itself, or a line.
getcmd(q) ==
  /\ Calls(q, "getcmd")
  /\ \/ Goto(q, Exit)
     \/ \E line \in session.lines :
          Goto(q, IF line[1] = "cd" THEN <<Op("getcmd")>>
                  ELSE <<Fork("cmd", RunLine(Parsed[line])), Op("wait"), Op("getcmd")>>)
  /\ UNCHANGED files

\* pipealloc()'s first file, then the rest of pipe(); panic("pipe").
pipealloc(q) ==
  /\ Calls(q, "pipe") /\ procs[q].rf = 0
  /\ LET a == filealloc(files)
     IN /\ files' = a.k
        /\ procs' = [procs EXCEPT ![q].rf = a.ret,
                                  ![q].script = IF a.ret = 0 THEN Exit ELSE @]

pipe(q) ==
  /\ Calls(q, "pipe") /\ procs[q].rf # 0
  /\ LET r == sys_pipe(files, q, procs[q].rf)
     IN /\ files' = r.k
        /\ procs' = [procs EXCEPT ![q].rf = 0, ![q].p = r.ret,
                                  ![q].script = IF r.ret = <<>> THEN Exit ELSE Tail(@)]

\* fork1(), and init's fork(): the child has a copy of p and of the files;
\* no free process is a panic("fork").
fork(q) ==
  /\ Calls(q, "fork")
  /\ LET np == Least({r \in 1..session.procs : procs[r].st = "unused"}, 0)
         child == [st |-> "used", parent |-> q, kind |-> Call(q).kind,
                   script |-> Call(q).child, p |-> procs[q].p, rf |-> 0, pid |-> 0]
     IN IF np = 0 THEN Goto(q, Exit) /\ UNCHANGED files
        ELSE /\ files' = fork_files(files, q, np)
             /\ procs' = [procs EXCEPT ![np] = child, ![q].script = Tail(@),
                                       ![q].pid = IF q = initproc THEN np ELSE 0]

run(q) == Calls(q, "run") /\ Goto(q, runcmd(Call(q).cmd)) /\ UNCHANGED files

\* exec(): the program, or "exec failed" and the end of runcmd().
exec(q) ==
  /\ Calls(q, "exec")
  /\ procs' = [procs EXCEPT ![q].script = Program(Call(q).argv), ![q].p = <<>>]
  /\ UNCHANGED files

\* exit(): the descriptors are closed one by one; then the children go to
\* init and the process is a zombie.
exit_close(q) ==
  /\ Calls(q, "exit") /\ q # initproc
  /\ \E fd \in Fds :
       /\ files.ofile[q][fd] # 0
       /\ \A d \in 0..fd-1 : files.ofile[q][d] = 0
       /\ files' = sys_close(files, q, fd)
  /\ UNCHANGED procs

exit(q) ==
  /\ Calls(q, "exit") /\ q # initproc
  /\ \A fd \in Fds : files.ofile[q][fd] = 0
  /\ procs' = [r \in Procs |->
       IF r = q THEN [Unused EXCEPT !.st = "zombie", !.parent = procs[q].parent]
       ELSE IF procs[r].parent = q THEN [procs[r] EXCEPT !.parent = initproc] ELSE procs[r]]
  /\ UNCHANGED files

\* exit() of init is a panic() of the kernel, and nothing happens any more.
exit_panics(q) ==
  /\ Calls(q, "exit") /\ q = initproc
  /\ procs' = [procs EXCEPT ![q].st = "panic"]
  /\ UNCHANGED files

\* wait(0): some child that has exited; or -1 when there is no child.
Children(q) == {r \in Procs : procs[r].st # "unused" /\ procs[r].parent = q}
Reaped(q, r, script) == procs' = [procs EXCEPT ![r] = Unused, ![q].script = script]

wait(q) ==
  /\ Calls(q, "wait")
  /\ IF Children(q) = {} THEN Goto(q, Rest(q))
     ELSE \E r \in Children(q) : procs[r].st = "zombie" /\ Reaped(q, r, Rest(q))
  /\ UNCHANGED files

\* init's wait(): another turn, until it was the shell, the only child init
\* has forked; -1 is the end of init.
initwait(q) ==
  /\ Calls(q, "initwait")
  /\ IF Children(q) = {} THEN Goto(q, Exit)
     ELSE \E r \in Children(q) :
            /\ procs[r].st = "zombie"
            /\ Reaped(q, r, IF r = procs[q].pid THEN StartShell ELSE procs[q].script)
  /\ UNCHANGED files

\* echo ignores the result of write(); cat ends at the end of its input, and
\* when it cannot read or write.
write(q) ==
  /\ Calls(q, "write")
  /\ LET r == sys_write(files, q, 1)
     IN r.ret # "wait" /\ files' = r.k /\ Goto(q, Rest(q))

catread(q) ==
  /\ Calls(q, "catread")
  /\ LET r == sys_read(files, q, 0)
     IN /\ r.ret # "wait" /\ files' = r.k
        /\ Goto(q, IF r.ret = "done" THEN <<Op("catwrite")>> ELSE Exit)

catwrite(q) ==
  /\ Calls(q, "catwrite")
  /\ LET r == sys_write(files, q, 1)
     IN /\ r.ret # "wait" /\ files' = r.k
        /\ Goto(q, IF r.ret = "done" THEN <<Op("catread")>> ELSE Exit)

-----------------------------------------------------------------------------
Step(q) ==
  \/ close(q) \/ dup(q) \/ open(q) \/ console(q) \/ getcmd(q)
  \/ pipealloc(q) \/ pipe(q) \/ fork(q) \/ run(q) \/ exec(q)
  \/ exit_close(q) \/ exit(q) \/ exit_panics(q) \/ wait(q) \/ initwait(q)
  \/ write(q) \/ catread(q) \/ catwrite(q)

Panicked == procs[initproc].st = "panic"
Runs(q) == ~Panicked /\ Step(q) /\ UNCHANGED session

Next == \E q \in Procs : Runs(q)

Spec == Init /\ [][Next]_vars

-----------------------------------------------------------------------------

\* When the shell prompts, and when a process becomes the program of a
\* command, it has its three standard descriptors and no other, in
\* particular no end of a pipe that would keep a reader from its end of
\* file, and it has no child left that it has not waited for; and whoever
\* calls wait() has a child to wait for.
StartsClean ==
  \A q \in Procs :
    /\ Calls(q, "exec") \/ Calls(q, "getcmd") =>
         {fd \in Fds : files.ofile[q][fd] # 0} = 0..2 /\ Children(q) = {}
    /\ Calls(q, "initwait") \/ Calls(q, "wait") => Children(q) # {}

Holders(i, writable) ==
  {r \in Procs : \E fd \in Fds :
     LET f == files.ofile[r][fd]
     IN f # 0 /\ files.ftable[f].pipe = i /\ files.ftable[f].writable = writable}

PipeAt(q, fd) == files.ftable[files.ofile[q][fd]].pipe

\* Whom q waits for; nobody in particular (0) if it can go on.
WaitsFor(q) ==
  CASE Calls(q, "wait") \/ Calls(q, "initwait") -> Children(q)
    [] Calls(q, "catread") /\ sys_read(files, q, 0).ret = "wait" -> Holders(PipeAt(q, 0), TRUE)
    [] Calls(q, "write") \/ Calls(q, "catwrite") ->
         IF sys_write(files, q, 1).ret = "wait" THEN Holders(PipeAt(q, 1), FALSE) ELSE {0}
    [] OTHER -> {0}

\* Nobody waits for good: there is no set of processes each of which is in
\* a wait(), a read() of an empty pipe or a write() to a full one, and for
\* the end of which only processes of the same set could do something: the
\* children, the holders of the pipe's write end, or of its read end.  A
\* descriptor that a process forgets to close makes it wait for itself.
NobodyWaitsForGood ==
  \A S \in SUBSET {q \in Procs : procs[q].st = "used"} :
    (\A q \in S : WaitsFor(q) \subseteq S) => S = {}
=============================================================================
