----------------------------- MODULE FileTable ------------------------------
(***************************************************************************)
(* Open files (kernel/file.c and the descriptor calls of kernel/sysfile.c  *)
(* and kernel/pipe.c): the table of open files with their reference        *)
(* counts, the descriptors of each process, and the two ends of pipes.     *)
(*                                                                         *)
(* The operators take the state k of the three tables and return what the  *)
(* code makes of it: an operator named after a function that returns a     *)
(* value gives the record [k, ret].  Every one of them is a critical       *)
(* section of ftable.lock or touches only the caller's own descriptors;    *)
(* pipealloc() is two, between which the first file is the caller's.       *)
(* What a pipe holds is counted, not stored; its bytes are in Pipe.tla.    *)
(***************************************************************************)
EXTENDS Integers, FiniteSets

CONSTANTS
  NPROC, NFILE, NOFILE,
  NPIPE,        \* pipes there is memory for
  PIPESIZE

Procs == 1..NPROC
Files == 1..NFILE
Fds == 0..NOFILE-1
Pipes == 1..NPIPE

NoFile == [ref |-> 0, type |-> "none", pipe |-> 0, writable |-> FALSE]
NoPipe == [readopen |-> FALSE, writeopen |-> FALSE, n |-> 0]

\* fileinit(), and processes without descriptors.
fileinit ==
  [ftable |-> [f \in Files |-> NoFile],
   ofile |-> [p \in Procs |-> [fd \in Fds |-> 0]],
   pipes |-> [i \in Pipes |-> NoPipe],
   panicked |-> FALSE]

Least(S, none) == IF S = {} THEN none ELSE CHOOSE x \in S : \A y \in S : x <= y

Ret(k, ret) == [k |-> k, ret |-> ret]

-----------------------------------------------------------------------------
filealloc(k) ==
  LET f == Least({g \in Files : k.ftable[g].ref = 0}, 0) IN
    Ret(IF f = 0 THEN k ELSE [k EXCEPT !.ftable[f].ref = 1], f)

filedup(k, f) ==
  [k EXCEPT !.ftable[f].ref = @ + 1, !.panicked = @ \/ k.ftable[f].ref < 1]

\* pipeclose(); the page is free again when both ends are closed.
pipeclose(k, i, writable) ==
  LET pi == IF writable THEN [k.pipes[i] EXCEPT !.writeopen = FALSE]
            ELSE [k.pipes[i] EXCEPT !.readopen = FALSE]
  IN [k EXCEPT !.pipes[i] = IF pi.readopen \/ pi.writeopen THEN pi ELSE NoPipe]

fileclose(k, f) ==
  LET ff == k.ftable[f] IN
    IF ff.ref < 1 THEN [k EXCEPT !.panicked = TRUE]
    ELSE IF ff.ref > 1 THEN [k EXCEPT !.ftable[f].ref = @ - 1]
    ELSE LET k1 == [k EXCEPT !.ftable[f] = NoFile] IN
           IF ff.type = "pipe" THEN pipeclose(k1, ff.pipe, ff.writable) ELSE k1

fdalloc(k, p, f) ==
  LET fd == Least({d \in Fds : k.ofile[p][d] = 0}, -1) IN
    Ret(IF fd = -1 THEN k ELSE [k EXCEPT !.ofile[p][fd] = f], fd)

sys_close(k, p, fd) ==
  IF k.ofile[p][fd] = 0 THEN k
  ELSE fileclose([k EXCEPT !.ofile[p][fd] = 0], k.ofile[p][fd])

sys_dup(k, p, fd) ==
  LET f == k.ofile[p][fd]
      r == fdalloc(k, p, f)
  IN IF f = 0 \/ r.ret = -1 THEN Ret(k, -1) ELSE Ret(filedup(r.k, f), r.ret)

\* sys_open() once the inode is there.
sys_open(k, p, type, writable) ==
  LET a == filealloc(k)
      r == fdalloc(a.k, p, a.ret)
  IN IF a.ret = 0 THEN Ret(k, -1)
     ELSE IF r.ret = -1 THEN Ret(fileclose(a.k, a.ret), -1)
     ELSE Ret([r.k EXCEPT !.ftable[a.ret].type = type, !.ftable[a.ret].writable = writable],
              r.ret)


\* sys_pipe() once pipealloc() has its first file rf: the second file, the
\* page, both descriptors; ret is the pair of them, or <<>> for -1.  The
\* copyout() to the array of the caller, which is on its stack, succeeds.
sys_pipe(k, p, rf) ==
  LET w == filealloc(k)
      i == Least({j \in Pipes : k.pipes[j] = NoPipe}, 0)
      end(writable) == [ref |-> 1, type |-> "pipe", pipe |-> i, writable |-> writable]
      k1 == [w.k EXCEPT !.ftable[rf] = end(FALSE), !.ftable[w.ret] = end(TRUE),
                        !.pipes[i] = [readopen |-> TRUE, writeopen |-> TRUE, n |-> 0]]
      fd0 == fdalloc(k1, p, rf)
      fd1 == fdalloc(fd0.k, p, w.ret)
      closeboth(s) == fileclose(fileclose(s, rf), w.ret)
  IN IF w.ret = 0 THEN Ret(fileclose(k, rf), <<>>)
     ELSE IF i = 0 THEN Ret(closeboth(w.k), <<>>)
     ELSE IF fd0.ret = -1 THEN Ret(closeboth(k1), <<>>)
     ELSE IF fd1.ret = -1 THEN Ret(closeboth([fd0.k EXCEPT !.ofile[p][fd0.ret] = 0]), <<>>)
     ELSE Ret(fd1.k, <<fd0.ret, fd1.ret>>)

\* fork(): the child's descriptors, each with a reference of its own.
fork_files(k, p, np) ==
  LET uses(f) == Cardinality({fd \in Fds : k.ofile[p][fd] = f}) IN
    [k EXCEPT !.ofile[np] = k.ofile[p],
              !.ftable = [f \in Files |-> [@[f] EXCEPT !.ref = @ + uses(f)]],
              !.panicked = @ \/ \E f \in Files : uses(f) > 0 /\ k.ftable[f].ref < 1]

-----------------------------------------------------------------------------
\* read() and write() of one unit: "wait" when they block, else what they
\* return.  A file or the console has nothing to read and takes anything.
sys_read(k, p, fd) ==
  LET ff == k.ftable[k.ofile[p][fd]]
      pi == k.pipes[ff.pipe]
  IN IF k.ofile[p][fd] = 0 THEN Ret(k, "error")
     ELSE IF ff.type # "pipe" THEN Ret(k, "end")
     ELSE IF ff.writable THEN Ret(k, "error")
     ELSE IF pi.n > 0 THEN Ret([k EXCEPT !.pipes[ff.pipe].n = @ - 1], "done")
     ELSE Ret(k, IF pi.writeopen THEN "wait" ELSE "end")

sys_write(k, p, fd) ==
  LET ff == k.ftable[k.ofile[p][fd]]
      pi == k.pipes[ff.pipe]
  IN IF k.ofile[p][fd] = 0 \/ ~ff.writable THEN Ret(k, "error")
     ELSE IF ff.type # "pipe" THEN Ret(k, "done")
     ELSE IF ~pi.readopen THEN Ret(k, "error")
     ELSE IF pi.n = PIPESIZE THEN Ret(k, "wait")
     ELSE Ret([k EXCEPT !.pipes[ff.pipe].n = @ + 1], "done")

-----------------------------------------------------------------------------
\* The reference count of every open file is the number of descriptors that
\* refer to it, plus held(f), the references a pipe() under way has; a pipe
\* is there as long as one of its ends is; and an end is open exactly as
\* long as a file for it is.  Every error path of file.c, sysfile.c and
\* pipe.c has to give back what it took.
RefsExact(k, held(_)) ==
  /\ ~k.panicked
  /\ \A f \in Files :
       k.ftable[f].ref = held(f) + Cardinality({d \in Procs \X Fds : k.ofile[d[1]][d[2]] = f})
  /\ \A i \in Pipes : \A w \in BOOLEAN :
       (IF w THEN k.pipes[i].writeopen ELSE k.pipes[i].readopen) <=>
         \E f \in Files : /\ k.ftable[f].ref > 0 /\ k.ftable[f].type = "pipe"
                          /\ k.ftable[f].pipe = i /\ k.ftable[f].writable = w
=============================================================================
