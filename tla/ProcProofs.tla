------------------------------ MODULE ProcProofs ------------------------------
(***************************************************************************)
(* Proofs about Proc, for every size of the process table, every number of *)
(* CPUs and any number of processes created.  This module has the          *)
(* inductive invariant PInv and the part of its proof that is about types  *)
(* and CPUs; ProcLabelProofs has the part about wait_lock and labels, and  *)
(* ProcFamilyProofs the part about fork(), parents and children, and the   *)
(* theorems.                                                               *)
(***************************************************************************)
EXTENDS Proc, TLAPS

States == {"UNUSED", "USED", "SLEEPING", "RUNNABLE", "RUNNING", "ZOMBIE"}
Live == {"SLEEPING", "RUNNABLE", "RUNNING"}
Labels == Interruptible \union Spinning \union Locked

TypeOK ==
  /\ state \in [Procs -> States]
  /\ chan \in [Procs -> Procs \union {0}]
  /\ parent \in [Procs -> Procs \union {0}]
  /\ plock \in [Procs -> Cpus \union {0}]
  /\ wait_lock \in Cpus \union {0}
  /\ proc \in [Cpus -> Procs \union {0}]
  /\ cpc \in [Cpus -> {"scan", "run", "back"}]
  /\ pc \in [Procs -> Labels]
  /\ insched \in [Procs -> BOOLEAN]
  /\ idx \in [Procs -> Nat]

\* What a CPU is doing with its process, and which of its locks are held.
OnCpu(c) ==
  /\ cpc[c] = "scan" => proc[c] = 0
  /\ cpc[c] = "run" =>
       /\ proc[c] \in Procs /\ state[proc[c]] = "RUNNING"
       /\ insched[proc[c]] <=> plock[proc[c]] = c
  /\ cpc[c] = "back" =>
       /\ proc[c] \in Procs /\ state[proc[c]] \in {"RUNNABLE", "SLEEPING", "ZOMBIE"}
       /\ insched[proc[c]] /\ plock[proc[c]] = c
CpuInv ==
  /\ \A c \in Cpus : OnCpu(c)
  /\ \A c, d \in Cpus : proc[c] = proc[d] /\ proc[c] # 0 => c = d
  /\ \A p \in Procs : plock[p] # 0 => proc[plock[p]] = p
  /\ \A p \in Procs : ~insched[p] => \E c \in Cpus : cpc[c] = "run" /\ proc[c] = p

\* wait_lock is held by the CPU of the one process that is at a label in Locked.
Holds(c) == cpc[c] = "run" /\ ~insched[proc[c]] /\ pc[proc[c]] \in Locked
WaitLockInv == \A c \in Cpus : Holds(c) <=> wait_lock = c

\* Where a process in each state is.
Placed(p) ==
  /\ state[p] = "ZOMBIE" => pc[p] = "exit_zombie" /\ insched[p]
  /\ state[p] = "UNUSED" => pc[p] \in {"user", "exit_zombie"} /\ insched[p]
  /\ state[p] = "USED" => pc[p] = "user" /\ insched[p]
  /\ state[p] = "SLEEPING" => pc[p] = "wait_lock" /\ chan[p] = p /\ insched[p]
  /\ state[p] = "RUNNABLE" => insched[p]
  /\ state[p] \in {"RUNNABLE", "RUNNING"} /\ insched[p] => pc[p] \in Interruptible
Exiting == {"exit_spin", "exit_reparent", "exit_wakeparent", "exit_zombie"}
LabelInv ==
  /\ \A p \in Procs : Placed(p)
  /\ state[initproc] \in Live
  /\ pc[initproc] \notin Exiting

\* The entry a fork() under way has taken is its own.
Forking == {"fork_parent", "fork_spin", "fork_run"}
ForkInv ==
  \A p \in Procs : pc[p] \in Forking =>
    /\ idx[p] \in Procs /\ state[idx[p]] = "USED"
    /\ \A q \in Procs : pc[q] \in Forking /\ idx[q] = idx[p] => q = p
    /\ pc[p] = "fork_run" => parent[idx[p]] = p

\* Parents are alive, and a process that exits has no children any more.
ParentInv ==
  /\ \A p \in Procs \ {initproc} : state[p] \in Live \union {"ZOMBIE"} => parent[p] # 0
  /\ \A p \in Procs : parent[p] # 0 => state[parent[p]] \in Live
  /\ \A p, q \in Procs : pc[p] \in {"exit_wakeparent", "exit_zombie"} => parent[q] # p

\* The parent of a process that is or becomes a ZOMBIE is awake, and a wait()
\* under way has seen every ZOMBIE among the children it has come past.
Dying(q) == pc[q] = "exit_zombie" /\ state[q] \in {"RUNNING", "ZOMBIE"}
ZombieInv ==
  /\ \A p, q \in Procs : parent[q] = p /\ Dying(q) => state[p] # "SLEEPING"
  /\ \A p, q \in Procs : parent[q] = p =>
       /\ pc[p] = "wait_scan" /\ q < idx[p] => state[q] # "ZOMBIE"
       /\ pc[p] = "wait_sleep" => state[q] # "ZOMBIE"

PInv == TypeOK /\ CpuInv /\ WaitLockInv /\ LabelInv /\ ForkInv /\ ParentInv /\ ZombieInv

-----------------------------------------------------------------------------
\* 0 is neither a process nor a CPU.
LEMMA ConstantFacts == 0 \notin Procs /\ 0 \notin Cpus /\ initproc \in Procs /\ Procs \subseteq Nat
BY NPROCAssumption, NCPUAssumption DEF Procs, Cpus, initproc

\* Init satisfies the invariant.
LEMMA InitPInv == Init => PInv
<1> SUFFICES ASSUME Init PROVE PInv
  OBVIOUS
<1> USE ConstantFacts DEF Init
<1>1. TypeOK
  <2>1. insched \in [Procs -> BOOLEAN]
    BY Zenon
  <2>2. pc \in [Procs -> Labels] /\ idx \in [Procs -> Nat]
    BY DEF Labels, Interruptible
  <2> QED
    BY <2>1, <2>2 DEF TypeOK, States
<1>2. CpuInv
  <2>1. \A p \in Procs : insched[p]
    BY Zenon
  <2>2. \A c \in Cpus : cpc[c] = "scan" /\ proc[c] = 0
    OBVIOUS
  <2>3. \A p \in Procs : plock[p] = 0
    OBVIOUS
  <2> QED
    BY <2>1, <2>2, <2>3 DEF CpuInv, OnCpu
<1>3. WaitLockInv
  BY DEF WaitLockInv, Holds
<1>4. LabelInv
  <2>1. \A p \in Procs : insched[p]
    BY Zenon
  <2>2. /\ \A p \in Procs : pc[p] = "user" /\ state[p] \in {"RUNNABLE", "UNUSED"}
        /\ state[initproc] = "RUNNABLE"
    OBVIOUS
  <2> QED
    BY <2>1, <2>2 DEF LabelInv, Placed, Exiting, Live, Interruptible
<1>5. ForkInv /\ ParentInv /\ ZombieInv
  BY DEF ForkInv, Forking, ParentInv, ZombieInv, Dying, Live
<1> QED
  BY <1>1, <1>2, <1>3, <1>4, <1>5 DEF PInv

\* A CPU that executes a process has it for itself.
LEMMA Executing ==
  ASSUME PInv, NEW c \in Cpus, NEW p \in Procs, NEW l, At(c, p, l)
  PROVE  /\ cpc[c] = "run" /\ proc[c] = p /\ state[p] = "RUNNING"
         /\ ~insched[p] /\ pc[p] = l /\ plock[p] # c
         /\ l \in Locked <=> wait_lock = c
BY DEF At, PInv, CpuInv, OnCpu, WaitLockInv, Holds

\* A process at a label in Locked has wait_lock, or has exited.
LEMMA LockedFacts ==
  ASSUME PInv, NEW q \in Procs, pc[q] \in Locked, state[q] \notin {"ZOMBIE", "UNUSED"}
  PROVE  wait_lock \in Cpus /\ proc[wait_lock] = q
<1>1. TypeOK /\ CpuInv /\ LabelInv /\ WaitLockInv
  BY DEF PInv
<1>2. state[q] \in {"USED", "SLEEPING", "RUNNABLE", "RUNNING"}
  BY <1>1 DEF TypeOK, States
<1>3. ~insched[q]
  BY <1>1, <1>2 DEF LabelInv, Placed, Locked, Interruptible
<1>4. PICK c \in Cpus : cpc[c] = "run" /\ proc[c] = q
  BY <1>1, <1>3 DEF CpuInv
<1>5. wait_lock = c
  BY <1>1, <1>3, <1>4, SMTT(30) DEF WaitLockInv, Holds
<1> QED
  BY <1>4, <1>5

\* Every action keeps the variables in their types.
LEMMA TypeStep == PInv /\ [Next]_vars => TypeOK'
<1> SUFFICES ASSUME PInv, [Next]_vars PROVE TypeOK'
  OBVIOUS
<1>0. TypeOK /\ ForkInv
  BY DEF PInv
<1> USE <1>0, ConstantFacts DEF TypeOK
<1>1. CASE panic \/ UNCHANGED vars
  BY <1>1 DEF panic, vars, procvars, locks, locals
<1>2. ASSUME NEW c \in Cpus, scheduler_back(c) \/ exit_panics(c) PROVE TypeOK'
  BY <1>2 DEF scheduler_back, exit_panics, procvars, locks, locals
<1>3. ASSUME NEW c \in Cpus, NEW p \in Procs, scheduler(c, p) \/ resume(c, p) \/ yield(c, p)
      PROVE  TypeOK'
  <2>1. insched' \in [Procs -> BOOLEAN]
    BY <1>3, Zenon DEF scheduler, resume, yield, sched, locals
  <2>2. /\ state' \in [Procs -> States] /\ chan' \in [Procs -> Procs \union {0}]
        /\ plock' \in [Procs -> Cpus \union {0}] /\ proc' \in [Cpus -> Procs \union {0}]
        /\ cpc' \in [Cpus -> {"scan", "run", "back"}]
    BY <1>3 DEF scheduler, resume, yield, sched, Acquire, States
  <2>3. UNCHANGED <<parent, wait_lock, pc, idx>>
    BY <1>3 DEF scheduler, resume, yield, locals
  <2> QED
    BY <2>1, <2>2, <2>3
<1>4. ASSUME NEW c \in Cpus, NEW p \in Procs, NEW np \in Procs, fork(c, p, np) PROVE TypeOK'
  BY <1>4 DEF fork, locks, States, Labels, Interruptible
<1>5. ASSUME NEW c \in Cpus, NEW p \in Procs, NEW np \in Procs, fork_fails(c, p, np)
      PROVE  TypeOK'
  BY <1>5 DEF fork_fails, freeproc, locks, locals, States
<1>6. ASSUME NEW c \in Cpus, NEW p \in Procs, fork_parent(c, p) \/ fork_run(c, p) PROVE TypeOK'
  BY <1>6 DEF fork_parent, fork_run, Goto, locks, States, Labels, Interruptible
<1>7. ASSUME NEW c \in Cpus, NEW p \in Procs, exit(c, p) PROVE TypeOK'
  BY <1>7 DEF exit, Goto, procvars, Labels, Locked
<1>8. ASSUME NEW c \in Cpus, NEW p \in Procs, exit_reparent(c, p) \/ exit_wakeparent(c, p)
      PROVE  TypeOK'
  BY <1>8 DEF exit_reparent, exit_wakeparent, Wakeup, Goto, locks, Labels, Locked, States
<1>9. ASSUME NEW c \in Cpus, NEW p \in Procs, exit_zombie(c, p) \/ wait_sleep(c, p) PROVE TypeOK'
  <2>1. insched' \in [Procs -> BOOLEAN]
    BY <1>9, Zenon DEF exit_zombie, wait_sleep, sched
  <2>2. /\ state' \in [Procs -> States] /\ chan' \in [Procs -> Procs \union {0}]
        /\ plock' \in [Procs -> Cpus \union {0}] /\ wait_lock' \in Cpus \union {0}
        /\ cpc' \in [Cpus -> {"scan", "run", "back"}]
    BY <1>9 DEF exit_zombie, wait_sleep, sched, Acquire, States
  <2>3. pc' \in [Procs -> Labels] /\ idx' \in [Procs -> Nat]
    BY <1>9 DEF exit_zombie, wait_sleep, Goto, Labels, Interruptible
  <2>4. UNCHANGED <<parent, proc>>
    BY <1>9 DEF exit_zombie, wait_sleep
  <2> QED
    BY <2>1, <2>2, <2>3, <2>4
<1>10. ASSUME NEW c \in Cpus, NEW p \in Procs, wait(c, p) PROVE TypeOK'
  BY <1>10 DEF wait, StartScan, Goto, procvars, Labels, Locked
<1>11. ASSUME NEW c \in Cpus, NEW p \in Procs, acquire_spins(c, p) PROVE TypeOK'
  BY <1>11 DEF acquire_spins, fork_spin, wait_spin, exit_spin, Goto, procvars, locks, Labels,
     Spinning
<1>12. ASSUME NEW c \in Cpus, NEW p \in Procs, NEW np \in Procs, wait_reap(c, p, np)
       PROVE  TypeOK'
  BY <1>12 DEF wait_reap, freeproc, Return, Goto, States, Labels, Interruptible
<1>13. ASSUME NEW c \in Cpus, NEW p \in Procs, NEW np \in Procs,
              wait_copyout_fails(c, p, np) \/ wait_fails(c, p)
       PROVE  TypeOK'
  BY <1>13 DEF wait_copyout_fails, wait_fails, Return, Goto, procvars, Labels, Interruptible
<1>14. ASSUME NEW c \in Cpus, NEW p \in Procs, NEW np \in Procs, wait_skip(c, p, np)
       PROVE  TypeOK'
  BY <1>14 DEF wait_skip, procvars, locks
<1>15. ASSUME NEW c \in Cpus, NEW p \in Procs, wait_childless(c, p) PROVE TypeOK'
  BY <1>15 DEF wait_childless, Goto, procvars, locks, Labels, Locked
<1>16. ASSUME NEW c \in Cpus, NEW p \in Procs, NEW n \in Pids, NEW q \in Procs, kill(c, p, n, q)
       PROVE  TypeOK'
  BY <1>16 DEF kill, locks, locals, States
<1> QED
  BY <1>1, <1>2, <1>3, <1>4, <1>5, <1>6, <1>7, <1>8, <1>9, <1>10, <1>11, <1>12, <1>13, <1>14,
     <1>15,
     <1>16 DEF Next

-----------------------------------------------------------------------------
\* Steps by what they do to CPUs and locks.  A step of a process that leaves
\* them alone:
LEMMA CpuSame ==
  ASSUME CpuInv, UNCHANGED <<state, plock, proc, cpc, insched>>
  PROVE  CpuInv'
BY DEF CpuInv, OnCpu

\* a change of the state of a process that is on no CPU:
LEMMA CpuOther ==
  ASSUME PInv, UNCHANGED <<plock, proc, cpc, insched>>,
         NEW q \in Procs, plock[q] = 0, state[q] # "RUNNING",
         \A r \in Procs \ {q} : state'[r] = state[r]
  PROVE  CpuInv'
<1>1. CpuInv
  BY DEF PInv
<1>2. \A c \in Cpus : proc[c] \in Procs /\ cpc[c] \in {"run", "back"} => proc[c] # q
  BY <1>1, ConstantFacts DEF CpuInv, OnCpu
<1>3. \A c \in Cpus : OnCpu(c)'
  BY <1>1, <1>2 DEF CpuInv, OnCpu
<1> QED
  BY <1>1, <1>3 DEF CpuInv

\* a call of sched(), which leaves the CPU to the scheduler:
LEMMA CpuSched ==
  ASSUME PInv, NEW c \in Cpus, NEW p \in Procs, NEW l, At(c, p, l),
         Acquire(c, p), sched(c, p), proc' = proc,
         NEW st \in {"RUNNABLE", "SLEEPING", "ZOMBIE"}, state' = [state EXCEPT ![p] = st]
  PROVE  CpuInv'
<1>1. TypeOK /\ CpuInv
  BY DEF PInv
<1>2. cpc[c] = "run" /\ proc[c] = p /\ state[p] = "RUNNING" /\ ~insched[p]
  BY Executing
<1>3. /\ cpc'[c] = "back" /\ \A d \in Cpus \ {c} : cpc'[d] = cpc[d] /\ proc[d] # p
      /\ plock'[p] = c /\ state'[p] = st /\ insched'[p]
      /\ \A q \in Procs \ {p} : plock'[q] = plock[q] /\ state'[q] = state[q]
                                  /\ insched'[q] = insched[q]
  BY <1>1, <1>2, ConstantFacts DEF TypeOK, CpuInv, Acquire, sched
<1>4. \A d \in Cpus : OnCpu(d)'
  BY <1>1, <1>2, <1>3 DEF CpuInv, OnCpu
<1>5. \A q \in Procs : plock'[q] # 0 => proc'[plock'[q]] = q
  BY <1>1, <1>2, <1>3 DEF CpuInv
<1>6. \A q \in Procs : ~insched'[q] => \E d \in Cpus : cpc'[d] = "run" /\ proc'[d] = q
  BY <1>1, <1>2, <1>3 DEF CpuInv
<1> QED
  BY <1>1, <1>4, <1>5, <1>6 DEF CpuInv

\* Every action keeps a CPU's process, its state and p->lock in agreement.
LEMMA CpuStep == PInv /\ [Next]_vars => CpuInv'
<1> SUFFICES ASSUME PInv, [Next]_vars PROVE CpuInv'
  OBVIOUS
<1>0. TypeOK /\ CpuInv /\ LabelInv /\ ForkInv /\ ParentInv
  BY DEF PInv
<1>1. CASE panic \/ UNCHANGED vars
  BY <1>0, <1>1, CpuSame DEF panic, vars, procvars, locks, locals
<1>2. ASSUME NEW c \in Cpus, scheduler_back(c) PROVE CpuInv'
  <2>1. PICK p \in Procs : p = proc[c]
    BY <1>0, <1>2 DEF scheduler_back, CpuInv, OnCpu
  <2>2. /\ cpc[c] = "back" /\ cpc'[c] = "scan" /\ proc'[c] = 0
        /\ \A d \in Cpus \ {c} : cpc'[d] = cpc[d] /\ proc'[d] = proc[d] /\ proc[d] # p
        /\ plock'[p] = 0 /\ \A q \in Procs \ {p} : plock'[q] = plock[q]
        /\ UNCHANGED <<state, insched>>
    BY <1>0, <1>2, <2>1, ConstantFacts DEF scheduler_back, CpuInv, TypeOK, procvars, locals
  <2>3. \A d \in Cpus : OnCpu(d)'
    BY <1>0, <2>2 DEF CpuInv, OnCpu
  <2>4. plock[p] = c /\ insched[p]
    BY <1>0, <2>1, <2>2 DEF CpuInv, OnCpu
  <2>5. \A q \in Procs : plock'[q] # 0 => proc'[plock'[q]] = q
    BY <1>0, <2>1, <2>2, <2>4 DEF CpuInv, TypeOK
  <2>6. \A q \in Procs : ~insched'[q] => \E d \in Cpus : cpc'[d] = "run" /\ proc'[d] = q
    BY <1>0, <2>2 DEF CpuInv
  <2>7. \A d, e \in Cpus : proc'[d] = proc'[e] /\ proc'[d] # 0 => d = e
    BY <1>0, <2>2 DEF CpuInv
  <2> QED
    BY <2>3, <2>5, <2>6, <2>7 DEF CpuInv
<1>3. ASSUME NEW c \in Cpus, exit_panics(c) PROVE CpuInv'
  BY <1>0, <1>3, CpuSame DEF exit_panics, procvars, locks, locals
<1>4. ASSUME NEW c \in Cpus, NEW p \in Procs, scheduler(c, p) PROVE CpuInv'
  <2>1. /\ cpc[c] = "scan" /\ proc[c] = 0 /\ state[p] = "RUNNABLE" /\ plock[p] = 0
        /\ cpc'[c] = "run" /\ proc'[c] = p /\ state'[p] = "RUNNING" /\ plock'[p] = c
        /\ \A d \in Cpus \ {c} : cpc'[d] = cpc[d] /\ proc'[d] = proc[d]
        /\ \A q \in Procs \ {p} : plock'[q] = plock[q] /\ state'[q] = state[q]
        /\ UNCHANGED insched
    BY <1>0, <1>4 DEF scheduler, Acquire, CpuInv, OnCpu, TypeOK, locals
  <2>2. insched[p]
    BY <1>0, <2>1 DEF LabelInv, Placed
  <2>3. \A d \in Cpus : proc[d] # p
    BY <1>0, <2>1, ConstantFacts DEF CpuInv, OnCpu, TypeOK
  <2>4. \A d \in Cpus : OnCpu(d)'
    <3>1. OnCpu(c)'
      <4>1. insched'[p]
        BY <2>1, <2>2
      <4> QED
        BY <2>1, <4>1 DEF OnCpu
    <3>2. ASSUME NEW d \in Cpus \ {c} PROVE OnCpu(d)'
      <4>1. OnCpu(d) /\ cpc'[d] = cpc[d] /\ proc'[d] = proc[d] /\ proc[d] # p
        BY <1>0, <2>1, <2>3 DEF CpuInv
      <4> QED
        BY <2>1, <4>1 DEF OnCpu
    <3> QED
      BY <3>1, <3>2
  <2>5. \A q \in Procs : plock'[q] # 0 => proc'[plock'[q]] = q
    BY <1>0, <2>1, ConstantFacts DEF CpuInv, TypeOK
  <2>6. \A q \in Procs : ~insched'[q] => \E d \in Cpus : cpc'[d] = "run" /\ proc'[d] = q
    BY <1>0, <2>1 DEF CpuInv
  <2>7. \A d, e \in Cpus : proc'[d] = proc'[e] /\ proc'[d] # 0 => d = e
    BY <1>0, <2>1, <2>3 DEF CpuInv
  <2> QED
    BY <2>4, <2>5, <2>6, <2>7 DEF CpuInv
<1>5. ASSUME NEW c \in Cpus, NEW p \in Procs, resume(c, p) PROVE CpuInv'
  <2>1. /\ cpc[c] = "run" /\ proc[c] = p /\ insched[p] /\ plock'[p] = 0 /\ ~insched'[p]
        /\ \A q \in Procs \ {p} : plock'[q] = plock[q] /\ insched'[q] = insched[q]
        /\ UNCHANGED <<state, cpc, proc>>
    BY <1>0, <1>5 DEF resume, TypeOK
  <2>2. \A d \in Cpus : proc[d] = p => d = c
    BY <1>0, <2>1, ConstantFacts DEF CpuInv
  <2>3. \A d \in Cpus : OnCpu(d)'
    BY <1>0, <2>1, <2>2, ConstantFacts DEF CpuInv, OnCpu
  <2>4. \A q \in Procs : ~insched'[q] => \E d \in Cpus : cpc'[d] = "run" /\ proc'[d] = q
    BY <1>0, <2>1 DEF CpuInv
  <2>5. \A q \in Procs : plock'[q] # 0 => proc'[plock'[q]] = q
    BY <1>0, <2>1 DEF CpuInv
  <2> QED
    BY <1>0, <2>1, <2>3, <2>4, <2>5 DEF CpuInv
<1>6. ASSUME NEW c \in Cpus, NEW p \in Procs,
             yield(c, p) \/ exit_zombie(c, p) \/ wait_sleep(c, p)
      PROVE  CpuInv'
  <2>1. PICK l : At(c, p, l)
    BY <1>6 DEF yield, exit_zombie, wait_sleep
  <2>2. PICK st \in {"RUNNABLE", "SLEEPING", "ZOMBIE"} : state' = [state EXCEPT ![p] = st]
    BY <1>6 DEF yield, exit_zombie, wait_sleep
  <2>3. Acquire(c, p) /\ sched(c, p) /\ proc' = proc
    BY <1>6 DEF yield, exit_zombie, wait_sleep
  <2> QED
    BY <2>1, <2>2, <2>3, CpuSched, Zenon
<1>7. ASSUME NEW c \in Cpus, NEW p \in Procs, NEW np \in Procs, fork(c, p, np) PROVE CpuInv'
  <2>1. insched' = insched
    BY <1>0, <1>7 DEF fork, LabelInv, Placed, TypeOK
  <2> QED
    BY <1>0, <1>7, <2>1, CpuOther DEF fork, locks, TypeOK
<1>8. ASSUME NEW c \in Cpus, NEW p \in Procs, NEW np \in Procs,
             fork_fails(c, p, np) \/ wait_reap(c, p, np)
      PROVE  CpuInv'
  BY <1>0, <1>8, CpuOther DEF fork_fails, wait_reap, freeproc, locks, locals, TypeOK
<1>9. ASSUME NEW c \in Cpus, NEW p \in Procs, fork_run(c, p) PROVE CpuInv'
  <2>1. idx[p] \in Procs /\ state[idx[p]] = "USED"
    BY <1>0, <1>9 DEF ForkInv, Forking, fork_run, At
  <2> QED
    BY <1>0, <1>9, <2>1, CpuOther DEF fork_run, locks, TypeOK
<1>10. ASSUME NEW q \in Procs, plock[q] = 0, UNCHANGED <<plock, proc, cpc, insched>>,
              \/ state' = state
              \/ state[q] = "SLEEPING" /\ state' = [state EXCEPT ![q] = "RUNNABLE"]
       PROVE  CpuInv'
  <2>1. CASE state' = state
    BY <1>0, <1>10, <2>1, CpuSame
  <2>2. CASE state[q] = "SLEEPING" /\ state' = [state EXCEPT ![q] = "RUNNABLE"]
    BY <1>0, <1>10, <2>2, CpuOther DEF TypeOK
  <2> QED
    BY <1>10, <2>1, <2>2
<1>11. ASSUME NEW c \in Cpus, NEW p \in Procs, exit_reparent(c, p) PROVE CpuInv'
  <2>1. CASE Children(p) = {}
    BY <1>0, <1>11, <2>1, CpuSame DEF exit_reparent, locks
  <2>2. CASE Children(p) # {}
    BY <1>10, <1>11, <2>2, ConstantFacts DEF exit_reparent, Wakeup, locks
  <2> QED
    BY <2>1, <2>2
<1>12. ASSUME NEW c \in Cpus, NEW p \in Procs, exit_wakeparent(c, p) PROVE CpuInv'
  <2>1. p # initproc /\ state[p] = "RUNNING"
    BY <1>0, <1>12, Executing DEF exit_wakeparent, LabelInv, Exiting, At
  <2>2. parent[p] \in Procs
    BY <1>0, <2>1, SMTT(30) DEF ParentInv, TypeOK, Live
  <2> QED
    BY <1>10, <1>12, <2>2, SMTT(30) DEF exit_wakeparent, Wakeup, locks
<1>13. ASSUME NEW c \in Cpus, NEW p \in Procs, NEW n \in Pids, NEW q \in Procs, kill(c, p, n, q)
       PROVE  CpuInv'
  BY <1>10, <1>13 DEF kill, locks, locals
<1>14. ASSUME NEW c \in Cpus, NEW p \in Procs, NEW np \in Procs,
              \/ fork_parent(c, p) \/ exit(c, p) \/ wait(c, p) \/ acquire_spins(c, p)
              \/ wait_copyout_fails(c, p, np) \/ wait_skip(c, p, np) \/ wait_fails(c, p)
              \/ wait_childless(c, p)
       PROVE  CpuInv'
  BY <1>0, <1>14, CpuSame DEF fork_parent, exit, wait, acquire_spins, wait_copyout_fails,
     wait_skip,
     wait_fails, wait_childless, procvars, locks
<1> QED
  BY <1>1, <1>2, <1>3, <1>4, <1>5, <1>6, <1>7, <1>8, <1>9, <1>11, <1>12, <1>13, <1>14 DEF Next
=============================================================================
