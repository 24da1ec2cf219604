-------------------------------- MODULE Proc --------------------------------
(***************************************************************************)
(* Processes (kernel/proc.c): fork, exit, wait and kill, the scheduler of  *)
(* each CPU, yield, and the sleep and wakeup of wait(), at the level of    *)
(* the spinlocks wait_lock and p->lock.                                    *)
(*                                                                         *)
(* A spinlock records the CPU that holds it (lk->cpu), and so it does      *)
(* here: 0 is a free lock.  swtch() moves a CPU between the scheduler and  *)
(* a process while p->lock stays held by that CPU.  A critical section of  *)
(* p->lock that begins and ends inside one function, and in which nothing  *)
(* else is locked, is one action that needs the lock free; wait_lock, and  *)
(* p->lock across sched(), are held from action to action.                 *)
(*                                                                         *)
(* Loops over proc[] that only look (allocproc, kill, wakeup) act where    *)
(* they find what they look for, under that entry's lock; the other visits *)
(* change nothing.  Files and memory are left to other modules.            *)
(***************************************************************************)
EXTENDS Naturals, FiniteSets

CONSTANTS
  NPROC,    \* size of the process table
  NCPU,     \* number of CPUs
  MaxPid    \* bound: fork() is not called once this pid has been handed out

ASSUME NPROCAssumption == NPROC \in Nat \ {0}
ASSUME NCPUAssumption == NCPU \in Nat \ {0}
ASSUME MaxPidAssumption == MaxPid \in Nat \ {0}

Procs == 1..NPROC
Cpus == 1..NCPU
initproc == 1      \* userinit() runs first and takes the first entry

VARIABLES
  state, chan, killed, pid, parent,  \* the fields of struct proc (chan, parent: 0 is null)
  plock,       \* p->lock: the CPU that holds it, or 0
  wait_lock,   \* likewise
  nextpid,
  proc,        \* c->proc
  cpc,         \* "scan": in scheduler(); "run": c->proc executes; "back": swtch() has returned
  pc,          \* where each process is in the kernel
  insched,     \* the process is inside sched(), or was never run
  idx,         \* loop variable of wait(); for fork(), the new entry np
  havekids,    \* wait()'s local
  panicked     \* panic("init exiting")

procvars == <<state, chan, killed, pid, parent>>
locks == <<plock, wait_lock>>
locals == <<pc, insched, idx, havekids>>
vars == <<procvars, locks, nextpid, proc, cpc, locals, panicked>>

\* Labels at which interrupts are on; at which the process waits for
\* wait_lock in acquire(), where they are off; at which it holds wait_lock.
Interruptible == {"user", "fork_parent", "fork_run", "wait_lock"}
Spinning == {"fork_spin", "wait_spin", "exit_spin"}
Locked == {"exit_reparent", "exit_wakeparent", "exit_zombie", "wait_scan", "wait_sleep"}

Init ==
  /\ state = [p \in Procs |-> IF p = initproc THEN "RUNNABLE" ELSE "UNUSED"]
  /\ chan = [p \in Procs |-> 0]
  /\ killed = [p \in Procs |-> FALSE]
  /\ pid = [p \in Procs |-> IF p = initproc THEN 1 ELSE 0]
  /\ parent = [p \in Procs |-> 0]
  /\ plock = [p \in Procs |-> 0]
  /\ wait_lock = 0
  /\ nextpid = 2
  /\ proc = [c \in Cpus |-> 0]
  /\ cpc = [c \in Cpus |-> "scan"]
  /\ pc = [p \in Procs |-> "user"]
  /\ insched = [p \in Procs |-> TRUE]
  /\ idx = [p \in Procs |-> 1]
  /\ havekids = [p \in Procs |-> FALSE]
  /\ panicked = FALSE

-----------------------------------------------------------------------------
\* CPU c executes process p in the kernel, at label l.
At(c, p, l) ==
  /\ ~panicked
  /\ cpc[c] = "run" /\ proc[c] = p /\ ~insched[p] /\ pc[p] = l

Goto(p, l) == pc' = [pc EXCEPT ![p] = l]

\* A system call: usertrap() makes none for a process that has been killed.
Syscall(c, p) == At(c, p, "user") /\ ~killed[p]

\* sched(): swtch() to the scheduler of c, p->lock (now c's) still held.
sched(c, p) ==
  /\ cpc' = [cpc EXCEPT ![c] = "back"]
  /\ insched' = [insched EXCEPT ![p] = TRUE]

Acquire(c, p) == plock[p] = 0 /\ plock' = [plock EXCEPT ![p] = c]

\* What wakeup(ch) does to entry q when it gets to it, under q's lock.
Wakeup(q, ch) ==
  /\ plock[q] = 0
  /\ state' = IF state[q] = "SLEEPING" /\ chan[q] = ch
              THEN [state EXCEPT ![q] = "RUNNABLE"] ELSE state

-----------------------------------------------------------------------------
\* scheduler(): pick a RUNNABLE process and swtch() to it, its lock held.
scheduler(c, p) ==
  /\ ~panicked
  /\ cpc[c] = "scan"
  /\ state[p] = "RUNNABLE"
  /\ Acquire(c, p)
  /\ state' = [state EXCEPT ![p] = "RUNNING"]
  /\ proc' = [proc EXCEPT ![c] = p]
  /\ cpc' = [cpc EXCEPT ![c] = "run"]
  /\ UNCHANGED <<chan, killed, pid, parent, wait_lock, nextpid, locals, panicked>>

\* scheduler() after its swtch() returned: c->proc = 0; release(&p->lock).
scheduler_back(c) ==
  /\ ~panicked
  /\ cpc[c] = "back"
  /\ plock' = [plock EXCEPT ![proc[c]] = 0]
  /\ proc' = [proc EXCEPT ![c] = 0]
  /\ cpc' = [cpc EXCEPT ![c] = "scan"]
  /\ UNCHANGED <<procvars, wait_lock, nextpid, locals, panicked>>

\* The process runs again after sched(), or for the first time in forkret():
\* sleep() clears p->chan (0 in the other cases) and p->lock is released.
resume(c, p) ==
  /\ ~panicked
  /\ cpc[c] = "run" /\ proc[c] = p /\ insched[p]
  /\ chan' = [chan EXCEPT ![p] = 0]
  /\ plock' = [plock EXCEPT ![p] = 0]
  /\ insched' = [insched EXCEPT ![p] = FALSE]
  /\ UNCHANGED <<state, killed, pid, parent, wait_lock, nextpid, proc, cpc,
                 pc, idx, havekids, panicked>>

\* yield(), from a timer interrupt in user space or in the kernel.
yield(c, p) ==
  /\ \E l \in Interruptible : At(c, p, l)
  /\ Acquire(c, p)
  /\ state' = [state EXCEPT ![p] = "RUNNABLE"]
  /\ sched(c, p)
  /\ UNCHANGED <<chan, killed, pid, parent, wait_lock, nextpid, proc, pc, idx,
                 havekids, panicked>>

-----------------------------------------------------------------------------
\* freeproc(q), the part of it that is state of this module.
freeproc(q) ==
  /\ state' = [state EXCEPT ![q] = "UNUSED"]
  /\ chan' = [chan EXCEPT ![q] = 0]
  /\ killed' = [killed EXCEPT ![q] = FALSE]
  /\ pid' = [pid EXCEPT ![q] = 0]
  /\ parent' = [parent EXCEPT ![q] = 0]

\* allocproc() and the copying, up to the first release(&np->lock).  The
\* field killed keeps the value it has in the unused entry.
fork(c, p, np) ==
  /\ Syscall(c, p)
  /\ nextpid <= MaxPid
  /\ state[np] = "UNUSED" /\ plock[np] = 0
  /\ state' = [state EXCEPT ![np] = "USED"]
  /\ pid' = [pid EXCEPT ![np] = nextpid]
  /\ nextpid' = nextpid + 1
  /\ insched' = [insched EXCEPT ![np] = TRUE]
  /\ idx' = [idx EXCEPT ![p] = np]
  /\ pc' = [pc EXCEPT ![p] = "fork_parent", ![np] = "user"]
  /\ UNCHANGED <<chan, killed, parent, locks, proc, cpc, havekids, panicked>>

\* The same when a page for the trapframe, the page table or the copy of the
\* memory cannot be had: the entry is freed again, the pid is used up.
fork_fails(c, p, np) ==
  /\ Syscall(c, p)
  /\ nextpid <= MaxPid
  /\ state[np] = "UNUSED" /\ plock[np] = 0
  /\ freeproc(np)
  /\ nextpid' = nextpid + 1
  /\ UNCHANGED <<locks, proc, cpc, locals, panicked>>

fork_parent(c, p) ==
  /\ At(c, p, "fork_parent") \/ At(c, p, "fork_spin")
  /\ wait_lock = 0
  /\ parent' = [parent EXCEPT ![idx[p]] = p]
  /\ Goto(p, "fork_run")
  /\ UNCHANGED <<state, chan, killed, pid, locks, nextpid, proc, cpc, insched, idx,
                 havekids, panicked>>

fork_run(c, p) ==
  /\ At(c, p, "fork_run")
  /\ plock[idx[p]] = 0
  /\ state' = [state EXCEPT ![idx[p]] = "RUNNABLE"]
  /\ idx' = [idx EXCEPT ![p] = 1]
  /\ Goto(p, "user")
  /\ UNCHANGED <<chan, killed, pid, parent, locks, nextpid, proc, cpc, insched,
                 havekids, panicked>>

-----------------------------------------------------------------------------
\* exit(): a process exits when it likes or, on its way to or from user
\* space, because it has been killed.  initproc's program never calls exit.
exit_panics(c) ==
  /\ At(c, initproc, "user")
  /\ killed[initproc]
  /\ panicked' = TRUE
  /\ UNCHANGED <<procvars, locks, nextpid, proc, cpc, locals>>

\* panic() ends in an endless loop.
panic == panicked /\ UNCHANGED vars

exit(c, p) ==
  /\ At(c, p, "user") \/ At(c, p, "exit_spin")
  /\ p # initproc
  /\ wait_lock = 0
  /\ wait_lock' = c
  /\ Goto(p, "exit_reparent")
  /\ UNCHANGED <<procvars, plock, nextpid, proc, cpc, insched, idx, havekids, panicked>>

\* reparent(p): all children go to initproc, with a wakeup(initproc) each.
\* initproc cannot look at its children before wait_lock is released, so the
\* first of these wakeups does what they all do.
Children(p) == {q \in Procs : parent[q] = p}

\* Mutation: exit() does not call reparent().
exit_no_reparent(c, p) ==
  /\ At(c, p, "exit_reparent")
  /\ Goto(p, "exit_wakeparent")
  /\ UNCHANGED <<procvars, locks, nextpid, proc, cpc, insched, idx, havekids, panicked>>

exit_reparent(c, p) ==
  /\ At(c, p, "exit_reparent")
  /\ parent' = [q \in Procs |-> IF q \in Children(p) THEN initproc ELSE parent[q]]
  /\ IF Children(p) = {} THEN UNCHANGED state ELSE Wakeup(initproc, initproc)
  /\ Goto(p, "exit_wakeparent")
  /\ UNCHANGED <<chan, killed, pid, locks, nextpid, proc, cpc, insched, idx,
                 havekids, panicked>>

\* Mutation: exit() without wakeup(p->parent).
exit_wakenobody(c, p) ==
  /\ At(c, p, "exit_wakeparent")
  /\ Goto(p, "exit_zombie")
  /\ UNCHANGED <<procvars, locks, nextpid, proc, cpc, insched, idx, havekids, panicked>>

exit_wakeparent(c, p) ==
  /\ At(c, p, "exit_wakeparent")
  /\ Wakeup(parent[p], parent[p])
  /\ Goto(p, "exit_zombie")
  /\ UNCHANGED <<chan, killed, pid, parent, locks, nextpid, proc, cpc, insched, idx,
                 havekids, panicked>>

\* Mutation: exit() does not release wait_lock.
exit_keeps_wait_lock(c, p) ==
  /\ At(c, p, "exit_zombie")
  /\ Acquire(c, p)
  /\ state' = [state EXCEPT ![p] = "ZOMBIE"]
  /\ sched(c, p)
  /\ UNCHANGED <<chan, killed, pid, parent, wait_lock, nextpid, proc, pc, idx, havekids,
                 panicked>>

exit_zombie(c, p) ==
  /\ At(c, p, "exit_zombie")
  /\ Acquire(c, p)
  /\ state' = [state EXCEPT ![p] = "ZOMBIE"]
  /\ wait_lock' = 0
  /\ sched(c, p)
  /\ UNCHANGED <<chan, killed, pid, parent, nextpid, proc, pc, idx, havekids, panicked>>

-----------------------------------------------------------------------------
StartScan(p) ==
  /\ Goto(p, "wait_scan")
  /\ idx' = [idx EXCEPT ![p] = 1]
  /\ havekids' = [havekids EXCEPT ![p] = FALSE]

\* acquire(&wait_lock) of wait(), at entry and at the end of sleep().
wait(c, p) ==
  /\ Syscall(c, p) \/ At(c, p, "wait_lock") \/ At(c, p, "wait_spin")
  /\ wait_lock = 0
  /\ wait_lock' = c
  /\ StartScan(p)
  /\ UNCHANGED <<procvars, plock, nextpid, proc, cpc, insched, panicked>>

Return(p) ==
  /\ Goto(p, "user")
  /\ idx' = [idx EXCEPT ![p] = 1]
  /\ havekids' = [havekids EXCEPT ![p] = FALSE]

\* Children the scan has not come to; np is the next.
Ahead(p) == {q \in Children(p) : idx[p] <= q}
NextChild(p, np) == np \in Ahead(p) /\ \A q \in Ahead(p) : np <= q

\* Mutation: wait() does not take the child's lock.
wait_reap_unlocked(c, p, np) ==
  /\ At(c, p, "wait_scan")
  /\ NextChild(p, np)
  /\ state[np] = "ZOMBIE"
  /\ freeproc(np)
  /\ wait_lock' = 0
  /\ Return(p)
  /\ UNCHANGED <<plock, nextpid, proc, cpc, insched, panicked>>

wait_reap(c, p, np) ==
  /\ At(c, p, "wait_scan")
  /\ NextChild(p, np)
  /\ plock[np] = 0
  /\ state[np] = "ZOMBIE"
  /\ freeproc(np)
  /\ wait_lock' = 0
  /\ Return(p)
  /\ UNCHANGED <<plock, nextpid, proc, cpc, insched, panicked>>

\* copyout of the exit status fails: both locks are released, -1 is returned.
\* initproc's program passes a null address, for which nothing is copied.
wait_copyout_fails(c, p, np) ==
  /\ At(c, p, "wait_scan")
  /\ p # initproc
  /\ NextChild(p, np)
  /\ plock[np] = 0
  /\ state[np] = "ZOMBIE"
  /\ wait_lock' = 0
  /\ Return(p)
  /\ UNCHANGED <<procvars, plock, nextpid, proc, cpc, insched, panicked>>

wait_skip(c, p, np) ==
  /\ At(c, p, "wait_scan")
  /\ NextChild(p, np)
  /\ plock[np] = 0
  /\ state[np] # "ZOMBIE"
  /\ havekids' = [havekids EXCEPT ![p] = TRUE]
  /\ idx' = [idx EXCEPT ![p] = np + 1]
  /\ UNCHANGED <<procvars, locks, nextpid, proc, cpc, pc, insched, panicked>>

wait_fails(c, p) ==
  /\ At(c, p, "wait_scan")
  /\ Ahead(p) = {}
  /\ ~havekids[p] \/ killed[p]
  /\ wait_lock' = 0
  /\ Return(p)
  /\ UNCHANGED <<procvars, plock, nextpid, proc, cpc, insched, panicked>>

\* The test of p->killed and sleep() are two steps: kill() may come between.
wait_childless(c, p) ==
  /\ At(c, p, "wait_scan")
  /\ Ahead(p) = {}
  /\ havekids[p] /\ ~killed[p]
  /\ Goto(p, "wait_sleep")
  /\ UNCHANGED <<procvars, locks, nextpid, proc, cpc, insched, idx, havekids, panicked>>

\* sleep(p, &wait_lock): take p->lock, release wait_lock, SLEEPING, sched().
wait_sleep(c, p) ==
  /\ At(c, p, "wait_sleep")
  /\ Acquire(c, p)
  /\ wait_lock' = 0
  /\ chan' = [chan EXCEPT ![p] = p]
  /\ state' = [state EXCEPT ![p] = "SLEEPING"]
  /\ sched(c, p)
  /\ Goto(p, "wait_lock")
  /\ idx' = [idx EXCEPT ![p] = 1]
  /\ havekids' = [havekids EXCEPT ![p] = FALSE]
  /\ UNCHANGED <<killed, pid, parent, nextpid, proc, panicked>>

-----------------------------------------------------------------------------
\* acquire(&wait_lock) by fork(), wait() and exit() while another CPU has it:
\* the process spins, interrupts off, until it gets the lock.
fork_spin(c, p) == wait_lock # 0 /\ At(c, p, "fork_parent") /\ Goto(p, "fork_spin")
wait_spin(c, p) ==
  wait_lock # 0 /\ (Syscall(c, p) \/ At(c, p, "wait_lock")) /\ Goto(p, "wait_spin")
exit_spin(c, p) ==
  wait_lock # 0 /\ At(c, p, "user") /\ p # initproc /\ Goto(p, "exit_spin")

acquire_spins(c, p) ==
  /\ fork_spin(c, p) \/ wait_spin(c, p) \/ exit_spin(c, p)
  /\ UNCHANGED <<procvars, locks, nextpid, proc, cpc, insched, idx, havekids, panicked>>

\* kill(n, SIGKILL).  An unused entry has pid 0, and kill(0, SIGKILL) finds
\* one.  The other signals are in module Signals.
kill(c, p, n, q) ==
  /\ Syscall(c, p)
  /\ pid[q] = n
  /\ plock[q] = 0
  /\ killed' = [killed EXCEPT ![q] = TRUE]
  /\ state' = IF state[q] = "SLEEPING" THEN [state EXCEPT ![q] = "RUNNABLE"] ELSE state
  /\ UNCHANGED <<chan, pid, parent, locks, nextpid, proc, cpc, locals, panicked>>

Pids == 0..MaxPid

Next ==
  \/ panic
  \/ \E c \in Cpus :
      \/ scheduler_back(c)
      \/ exit_panics(c)
      \/ \E p \in Procs :
           \/ scheduler(c, p)
           \/ resume(c, p)
           \/ yield(c, p)
           \/ \E np \in Procs : fork(c, p, np)
           \/ \E np \in Procs : fork_fails(c, p, np)
           \/ fork_parent(c, p)
           \/ fork_run(c, p)
           \/ exit(c, p)
           \/ exit_reparent(c, p)
           \/ exit_wakeparent(c, p)
           \/ exit_zombie(c, p)
           \/ wait(c, p)
           \/ acquire_spins(c, p)
           \/ \E np \in Procs : wait_reap(c, p, np)
           \/ \E np \in Procs : wait_copyout_fails(c, p, np)
           \/ \E np \in Procs : wait_skip(c, p, np)
           \/ wait_fails(c, p)
           \/ wait_childless(c, p)
           \/ wait_sleep(c, p)
           \/ \E n \in Pids, q \in Procs : kill(c, p, n, q)

Spec == Init /\ [][Next]_vars
-----------------------------------------------------------------------------
(***************************************************************************)
(* None of the panics of sched() can happen: when a CPU is between sched() *)
(* and scheduler() it holds p->lock and no other lock, and p->state is not *)
(* RUNNING any more.                                                       *)
(***************************************************************************)
SchedNeverPanics ==
  \A c \in Cpus : cpc[c] = "back" =>
    /\ plock[proc[c]] = c
    /\ \A q \in Procs \ {proc[c]} : plock[q] # c
    /\ wait_lock # c
    /\ state[proc[c]] # "RUNNING"

(***************************************************************************)
(* A kernel stack is used by one CPU at a time, and never after freeproc:  *)
(* no two CPUs are on the same process, and an entry that wait() or fork() *)
(* freed is on no CPU, although an exiting child still runs on its stack   *)
(* after it has become a ZOMBIE.                                           *)
(***************************************************************************)
StackHasOneUser ==
  /\ \A c, d \in Cpus : proc[c] = proc[d] /\ proc[c] # 0 => c = d
  /\ \A c \in Cpus : proc[c] # 0 => state[proc[c]] \notin {"UNUSED", "USED"}

(***************************************************************************)
(* No orphans: whenever wait_lock is free, every process but initproc that *)
(* has been made RUNNABLE has a parent that has not exited.  (The child of *)
(* a fork() under way is USED and has none yet.)                           *)
(***************************************************************************)
ParentIsAlive ==
  wait_lock = 0 =>
    \A p \in Procs \ {initproc} :
      state[p] \notin {"UNUSED", "USED"} =>
        /\ parent[p] # 0
        /\ state[parent[p]] \notin {"UNUSED", "USED", "ZOMBIE"}

(***************************************************************************)
(* No exit goes unnoticed: while wait_lock is free, no process asleep in   *)
(* wait() has a child that is a ZOMBIE.                                    *)
(***************************************************************************)
NoZombieMissed ==
  wait_lock = 0 =>
    \A p, q \in Procs :
      state[p] = "SLEEPING" /\ chan[p] = p /\ parent[q] = p => state[q] # "ZOMBIE"
=============================================================================
