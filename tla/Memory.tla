-------------------------------- MODULE Memory --------------------------------
(***************************************************************************)
(* Physical memory: kalloc() and kfree() (kernel/kalloc.c), page tables    *)
(* (kernel/vm.c), and what fork(), exec(), sbrk(), exit(), wait() and      *)
(* pipes do with them, along every path on which memory runs out half way. *)
(*                                                                         *)
(* A page is not told from another: the free list is its length.  User     *)
(* memory lies below 2 MB, so a page table has a root, two page-table      *)
(* pages for it (low), and two for the trampoline and the trapframe, which *)
(* are neighbours at the top (high).                                       *)
(*                                                                         *)
(* Every kalloc() is an action, since any other process may take the last  *)
(* page before it.  What a path frees, it frees in one action; to free a   *)
(* page later only makes others find fewer in the meantime, as pipes do.   *)
(***************************************************************************)
EXTENDS Naturals, FiniteSetsExt

CONSTANTS
  NPROC,
  PGSIZE,
  NPAGES,     \* pages that booting leaves free
  MaxSz,      \* bound on the end of a segment and of what sbrk() asks for
  MaxArgs,    \* bound on the arguments of exec()
  MaxPipes    \* bound on the number of pipes

ASSUME NPROCAssumption == NPROC \in Nat /\ NPROC >= 1
ASSUME PGSIZEAssumption == PGSIZE \in Nat /\ PGSIZE >= 1
ASSUME NPAGESAssumption == NPAGES \in Nat /\ NPAGES >= 8    \* userinit() succeeds
ASSUME BoundsAssumption == MaxSz \in Nat /\ MaxArgs \in Nat /\ MaxPipes \in Nat

VARIABLES
  free,     \* the length of kmem.freelist
  pipes,    \* the number of pipes, each of which is a page
  proc,     \* proc[]
  call      \* the system call each process is in, and its locals

vars == <<free, pipes, proc, call>>

Procs == 1..NPROC
initproc == 1

\* PGROUNDUP(s) / PGSIZE
Pages(s) == (s + PGSIZE - 1) \div PGSIZE

\* A page table: the number of its page-table pages, and of the pages that
\* are mapped from address 0 on.  NoTable is the null pointer.
NoTable == [root |-> 0, high |-> 0, low |-> 0, user |-> 0]
TablePages(t) == t.root + t.high + t.low

\* An entry of proc[]; ALIVE stands for the states between USED and ZOMBIE.
Unused == [state |-> "UNUSED", trapframe |-> 0, backupTrapframe |-> 0,
           pagetable |-> NoTable, sz |-> 0]

\* op, and where it is; fork's np; exec's pagetable, sz and argument pages;
\* what uvmalloc() or uvmcopy() is to reach (goal), the page it has not
\* mapped yet (mem), and where exec goes on after it (then).
Idle == [op |-> "none", pc |-> "user", np |-> 0, pagetable |-> NoTable, sz |-> 0,
         args |-> 0, goal |-> 0, mem |-> 0, then |-> "none"]

\* userinit(), which is the first to take pages that are ever freed.
Init ==
  /\ free = NPAGES - 8
  /\ pipes = 0
  /\ proc = [p \in Procs |-> IF p # initproc THEN Unused
       ELSE [state |-> "ALIVE", trapframe |-> 1, backupTrapframe |-> 1, sz |-> PGSIZE,
             pagetable |-> [root |-> 1, high |-> 2, low |-> 2, user |-> 1]]]
  /\ call = [p \in Procs |-> Idle]

-----------------------------------------------------------------------------
kalloc == free > 0 /\ free' = free - 1
kfree(n) == free' = free + n

At(p, pc) == call[p].pc = pc
In(p, op, pc) == call[p].op = op /\ At(p, pc)
Calls(p) == proc[p].state = "ALIVE" /\ At(p, "user")
Return(p) == call' = [call EXCEPT ![p] = Idle]

\* The pages that uvmfree(t, sz) frees.  Where sz is not what is mapped,
\* uvmunmap() or freewalk() panics; here pages would get lost or come up twice.
uvmfree(t, sz) == Pages(sz) + TablePages(t)

\* freeproc() of an entry e of proc[]: the pages that it frees.
Freed(e) ==
  e.trapframe + e.backupTrapframe
    + IF e.pagetable = NoTable THEN 0 ELSE uvmfree(e.pagetable, e.sz)

\* The page table that the call of p works on.
Table(p) ==
  CASE call[p].op = "fork" -> proc[call[p].np].pagetable
    [] call[p].op = "exec" -> call[p].pagetable
    [] OTHER -> proc[p].pagetable

\* It becomes t, and the locals of the call c.
Becomes(p, t, c) ==
  /\ call' = [call EXCEPT ![p] = IF c.op = "exec" THEN [c EXCEPT !.pagetable = t] ELSE c]
  /\ proc' = CASE c.op = "fork" -> [proc EXCEPT ![c.np].pagetable = t]
               [] c.op = "exec" -> proc
               [] OTHER -> [proc EXCEPT ![p].pagetable = t]

-----------------------------------------------------------------------------
\* fork() and allocproc(): an unused entry, whose lock is held from here on.
fork(p, np) ==
  /\ Calls(p)
  /\ proc[np].state = "UNUSED"
  /\ proc' = [proc EXCEPT ![np].state = "USED"]
  /\ call' = [call EXCEPT ![p] = [Idle EXCEPT !.op = "fork", !.pc = "trapframe", !.np = np,
                                              !.goal = proc[p].sz]]
  /\ UNCHANGED <<free, pipes>>

alloc_trapframe(p) ==
  /\ At(p, "trapframe")
  /\ kalloc
  /\ proc' = [proc EXCEPT ![call[p].np].trapframe = 1]
  /\ call' = [call EXCEPT ![p].pc = "proc_pagetable"]
  /\ UNCHANGED pipes

alloc_trapframe_fails(p) ==
  /\ At(p, "trapframe")
  /\ free = 0
  /\ kfree(Freed(proc[call[p].np]))
  /\ proc' = [proc EXCEPT ![call[p].np] = Unused]
  /\ Return(p)
  /\ UNCHANGED pipes

\* proc_pagetable(): uvmcreate(), ...
uvmcreate(p) ==
  /\ At(p, "proc_pagetable")
  /\ Table(p).root = 0
  /\ kalloc
  /\ Becomes(p, [NoTable EXCEPT !.root = 1], call[p])
  /\ UNCHANGED pipes

\* ... and walk() for the trampoline, whose page-table pages are those of
\* the trapframe, too.
map_trampoline(p) ==
  LET t == Table(p)
      next == IF t.high = 0 THEN "proc_pagetable"
              ELSE IF call[p].op = "fork" THEN "backup" ELSE "load" IN
  /\ At(p, "proc_pagetable")
  /\ t.root = 1
  /\ kalloc
  /\ Becomes(p, [t EXCEPT !.high = @ + 1], [call[p] EXCEPT !.pc = next])
  /\ UNCHANGED pipes

\* proc_pagetable() frees what it has got, and fork() or exec() the rest.
proc_pagetable_fails(p) ==
  LET c == call[p] IN
  /\ At(p, "proc_pagetable")
  /\ free = 0
  /\ \/ /\ c.op = "fork"
        /\ kfree(uvmfree(Table(p), 0) + Freed([proc[c.np] EXCEPT !.pagetable = NoTable]))
        /\ proc' = [proc EXCEPT ![c.np] = Unused]
     \/ /\ c.op = "exec"
        /\ kfree(uvmfree(Table(p), 0) + c.args)
        /\ UNCHANGED proc
  /\ Return(p)
  /\ UNCHANGED pipes

\* The end of allocproc(), which does not look whether kalloc() has failed.
alloc_backup(p) ==
  /\ At(p, "backup")
  /\ \/ kalloc /\ proc' = [proc EXCEPT ![call[p].np].backupTrapframe = 1]
     \/ free = 0 /\ UNCHANGED <<free, proc>>
  /\ call' = [call EXCEPT ![p].pc = "uvm"]
  /\ UNCHANGED pipes

-----------------------------------------------------------------------------
\* The loops of uvmalloc() and uvmcopy(): a page, ...
AtGoal(p) == Table(p).user * PGSIZE >= call[p].goal

uvm_kalloc(p) ==
  /\ At(p, "uvm") /\ ~AtGoal(p)
  /\ call[p].mem = 0
  /\ kalloc
  /\ call' = [call EXCEPT ![p].mem = 1]
  /\ UNCHANGED <<pipes, proc>>

\* ... the page-table pages that walk() finds missing, ...
uvm_walk(p) ==
  /\ At(p, "uvm")
  /\ call[p].mem = 1 /\ Table(p).low < 2
  /\ kalloc
  /\ Becomes(p, [Table(p) EXCEPT !.low = @ + 1], call[p])
  /\ UNCHANGED pipes

\* ... and the mapping.
uvm_map(p) ==
  /\ At(p, "uvm")
  /\ call[p].mem = 1 /\ Table(p).low = 2
  /\ Becomes(p, [Table(p) EXCEPT !.user = @ + 1], [call[p] EXCEPT !.mem = 0])
  /\ UNCHANGED <<free, pipes>>

uvm_fails(p) ==
  /\ At(p, "uvm") /\ ~AtGoal(p)
  /\ free = 0
  /\ call[p].mem = 0 \/ Table(p).low < 2

\* Mutation: uvmcopy() does not unmap what it has copied.
uvmcopy_fails_mapped(p) ==
  LET c == call[p] IN
  /\ c.op = "fork" /\ uvm_fails(p)
  /\ kfree(c.mem + Freed(proc[c.np]))
  /\ proc' = [proc EXCEPT ![c.np] = Unused]
  /\ Return(p)
  /\ UNCHANGED pipes

\* uvmcopy() frees what it has copied; freeproc() frees an image of size 0.
uvmcopy_fails(p) ==
  LET c == call[p] IN
  /\ c.op = "fork" /\ uvm_fails(p)
  /\ kfree(c.mem + Table(p).user + Freed(proc[c.np]))
  /\ proc' = [proc EXCEPT ![c.np] = Unused]
  /\ Return(p)
  /\ UNCHANGED pipes

\* The rest of fork().
fork_done(p) ==
  /\ In(p, "fork", "uvm") /\ AtGoal(p)
  /\ proc' = [proc EXCEPT ![call[p].np].sz = proc[p].sz, ![call[p].np].state = "ALIVE"]
  /\ Return(p)
  /\ UNCHANGED <<free, pipes>>

-----------------------------------------------------------------------------
\* growproc(n) for n > 0.
sbrk(p, n) ==
  /\ Calls(p)
  /\ call' = [call EXCEPT ![p] = [Idle EXCEPT !.op = "sbrk", !.pc = "uvm",
                                              !.goal = proc[p].sz + n]]
  /\ UNCHANGED <<free, pipes, proc>>

growproc_done(p) ==
  /\ In(p, "sbrk", "uvm") /\ AtGoal(p)
  /\ proc' = [proc EXCEPT ![p].sz = call[p].goal]
  /\ Return(p)
  /\ UNCHANGED <<free, pipes>>

\* uvmalloc() takes back what it has mapped; the page-table pages stay.
growproc_fails(p) ==
  /\ call[p].op = "sbrk" /\ uvm_fails(p)
  /\ kfree(call[p].mem + Table(p).user - Pages(proc[p].sz))
  /\ proc' = [proc EXCEPT ![p].pagetable.user = Pages(proc[p].sz)]
  /\ Return(p)
  /\ UNCHANGED pipes

\* Mutation: uvmdealloc() rounds the new size down.
sbrk_shrink_down(p, n) ==
  LET sz == proc[p].sz - n IN
  /\ Calls(p)
  /\ n <= proc[p].sz
  /\ kfree(Pages(proc[p].sz) - (sz \div PGSIZE))
  /\ proc' = [proc EXCEPT ![p].sz = sz,
                         ![p].pagetable.user = @ - (Pages(proc[p].sz) - (sz \div PGSIZE))]
  /\ UNCHANGED <<pipes, call>>

\* growproc(-n).  If n > sz, sz - n wraps to a size above sz, and
\* uvmdealloc() does nothing.
sbrk_shrink(p, n) ==
  LET sz == proc[p].sz - n IN
  /\ Calls(p)
  /\ n <= proc[p].sz
  /\ kfree(Pages(proc[p].sz) - Pages(sz))
  /\ proc' = [proc EXCEPT ![p].sz = sz,
                         ![p].pagetable.user = @ - (Pages(proc[p].sz) - Pages(sz))]
  /\ UNCHANGED <<pipes, call>>

-----------------------------------------------------------------------------
\* sys_exec(): a page for each argument.
sys_exec(p) ==
  /\ Calls(p)
  /\ call' = [call EXCEPT ![p] = [Idle EXCEPT !.op = "exec", !.pc = "args"]]
  /\ UNCHANGED <<free, pipes, proc>>

sys_exec_arg(p) ==
  /\ At(p, "args")
  /\ call[p].args < MaxArgs
  /\ kalloc
  /\ call' = [call EXCEPT ![p].args = @ + 1]
  /\ UNCHANGED <<pipes, proc>>

\* exec(), for a file that is there and is a program.
exec(p) ==
  /\ At(p, "args")
  /\ call' = [call EXCEPT ![p].pc = "proc_pagetable"]
  /\ UNCHANGED <<free, pipes, proc>>

\* A segment that ends at e, beyond what there is; uvmalloc() does nothing
\* for another one.
exec_segment(p, e) ==
  /\ At(p, "load")
  /\ e >= call[p].sz
  /\ call' = [call EXCEPT ![p].pc = "uvm", ![p].goal = e, ![p].then = "load"]
  /\ UNCHANGED <<free, pipes, proc>>

\* The stack and its guard page.
exec_stack(p) ==
  LET sz == Pages(call[p].sz) * PGSIZE IN
  /\ At(p, "load")
  /\ call' = [call EXCEPT ![p].pc = "uvm", ![p].sz = sz, ![p].goal = sz + 2 * PGSIZE,
                          ![p].then = "commit"]
  /\ UNCHANGED <<free, pipes, proc>>

exec_uvmalloc_done(p) ==
  /\ In(p, "exec", "uvm") /\ AtGoal(p)
  /\ call' = [call EXCEPT ![p].pc = call[p].then, ![p].sz = call[p].goal]
  /\ UNCHANGED <<free, pipes, proc>>

exec_uvmalloc_fails(p) ==
  LET c == call[p] IN
  /\ c.op = "exec" /\ uvm_fails(p)
  /\ kfree(c.mem + (c.pagetable.user - Pages(c.sz)) + uvmfree(c.pagetable, c.sz) + c.args)
  /\ Return(p)
  /\ UNCHANGED <<pipes, proc>>

\* Everything else that can fail: no page for an argument, a file that is
\* not a program or cannot be read, and arguments that do not fit.
exec_bad(p) ==
  LET c == call[p] IN
  /\ c.pc \in {"args", "load", "commit"}
  /\ kfree(c.args + IF c.pagetable = NoTable THEN 0 ELSE uvmfree(c.pagetable, c.sz))
  /\ Return(p)
  /\ UNCHANGED <<pipes, proc>>

exec_commit(p) ==
  LET c == call[p] IN
  /\ At(p, "commit")
  /\ kfree(uvmfree(proc[p].pagetable, proc[p].sz) + c.args)
  /\ proc' = [proc EXCEPT ![p].pagetable = c.pagetable, ![p].sz = c.sz]
  /\ Return(p)
  /\ UNCHANGED pipes

-----------------------------------------------------------------------------
\* exit() keeps all memory, ...
exit(p) ==
  /\ Calls(p) /\ p # initproc
  /\ proc' = [proc EXCEPT ![p].state = "ZOMBIE"]
  /\ UNCHANGED <<free, pipes, call>>

\* ... and wait(), of whoever is the parent then, frees it.
wait(np) ==
  /\ proc[np].state = "ZOMBIE"
  /\ kfree(Freed(proc[np]))
  /\ proc' = [proc EXCEPT ![np] = Unused]
  /\ UNCHANGED <<pipes, call>>

\* Pipes come and go at any time.
pipealloc ==
  /\ pipes < MaxPipes
  /\ kalloc
  /\ pipes' = pipes + 1
  /\ UNCHANGED <<proc, call>>

pipeclose ==
  /\ pipes > 0
  /\ kfree(1)
  /\ pipes' = pipes - 1
  /\ UNCHANGED <<proc, call>>

Next ==
  \/ \E p \in Procs :
       \/ \E np \in Procs : fork(p, np)
       \/ alloc_trapframe(p)
       \/ alloc_trapframe_fails(p)
       \/ uvmcreate(p)
       \/ map_trampoline(p)
       \/ proc_pagetable_fails(p)
       \/ alloc_backup(p)
       \/ uvm_kalloc(p)
       \/ uvm_walk(p)
       \/ uvm_map(p)
       \/ uvmcopy_fails(p)
       \/ fork_done(p)
       \/ \E n \in 1..MaxSz : proc[p].sz + n <= MaxSz /\ sbrk(p, n)
       \/ growproc_done(p)
       \/ growproc_fails(p)
       \/ \E n \in 1..MaxSz : sbrk_shrink(p, n)
       \/ sys_exec(p)
       \/ sys_exec_arg(p)
       \/ exec(p)
       \/ \E e \in 1..MaxSz : exec_segment(p, e)
       \/ exec_stack(p)
       \/ exec_uvmalloc_done(p)
       \/ exec_uvmalloc_fails(p)
       \/ exec_bad(p)
       \/ exec_commit(p)
       \/ exit(p)
       \/ wait(p)
  \/ pipealloc
  \/ pipeclose

Spec == Init /\ [][Next]_vars

-----------------------------------------------------------------------------
(***************************************************************************)
(* No page is lost and none is in use twice: on every path of fork(),      *)
(* exec() and sbrk(), also on those that give up half way, the pages that  *)
(* are free and those that processes, calls under way and pipes hold add   *)
(* up to all there are.                                                    *)
(***************************************************************************)
Held(p) ==
  LET e == proc[p]
      c == call[p] IN
  e.trapframe + e.backupTrapframe + TablePages(e.pagetable) + e.pagetable.user
    + c.mem + c.args + TablePages(c.pagetable) + c.pagetable.user

PagesConserved == free + pipes + MapThenSumSet(Held, Procs) = NPAGES

(***************************************************************************)
(* What is mapped is what sz says, rounded up to pages, as uvmunmap() and  *)
(* freewalk() insist on: for each process that runs or has exited, except  *)
(* while sbrk() adds pages, and for the image exec() builds, except while  *)
(* uvmalloc() does.  An unused entry of proc[] has nothing, so that        *)
(* allocproc() does not lose it.                                           *)
(***************************************************************************)
Mapped(t, sz) ==
  /\ t.root = 1 /\ t.high = 2
  /\ t.user = Pages(sz)
  /\ sz > 0 => t.low = 2

ImagesComplete ==
  \A p \in Procs :
    /\ proc[p].state = "UNUSED" => proc[p] = Unused
    /\ proc[p].state = "USED" => proc[p].sz = 0
    /\ proc[p].state \in {"ALIVE", "ZOMBIE"} =>
         /\ proc[p].trapframe = 1
         /\ In(p, "sbrk", "uvm") \/ Mapped(proc[p].pagetable, proc[p].sz)
    /\ call[p].pc \in {"load", "commit"} => Mapped(call[p].pagetable, call[p].sz)
=============================================================================
