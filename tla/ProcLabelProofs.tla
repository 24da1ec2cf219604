--------------------------- MODULE ProcLabelProofs ----------------------------
(***************************************************************************)
(* Proofs about Proc, continued: who holds wait_lock, and where in the     *)
(* kernel a process in each state is.                                      *)
(***************************************************************************)
EXTENDS ProcProofs

\* wait_lock belongs to the CPU whose process is at a label in Locked.
LEMMA WaitLockStep == PInv /\ [Next]_vars => WaitLockInv'
<1> SUFFICES ASSUME PInv, [Next]_vars PROVE WaitLockInv'
  OBVIOUS
<1>0. TypeOK /\ CpuInv /\ WaitLockInv /\ LabelInv
  BY SMTT(30) DEF PInv
<1>a. ASSUME UNCHANGED <<cpc, proc, insched, wait_lock>>,
             \A r \in Procs : ~insched[r] => (pc'[r] \in Locked <=> pc[r] \in Locked)
      PROVE  WaitLockInv'
  BY <1>0, <1>a DEF WaitLockInv, Holds, CpuInv, OnCpu
<1>b. ASSUME NEW c \in Cpus, NEW p \in Procs, NEW l, At(c, p, l),
             UNCHANGED <<cpc, proc, insched>>, NEW k, pc' = [pc EXCEPT ![p] = k],
             \/ l \notin Locked /\ k \in Locked /\ wait_lock = 0 /\ wait_lock' = c
             \/ l \in Locked /\ k \notin Locked /\ wait_lock' = 0
      PROVE  WaitLockInv'
  <2>1. cpc[c] = "run" /\ proc[c] = p /\ ~insched[p] /\ (l \in Locked <=> wait_lock = c)
    BY <1>b, Executing
  <2>2. pc'[p] = k /\ \A q \in Procs \ {p} : pc'[q] = pc[q]
    BY <1>0, <1>b DEF TypeOK
  <2>3. Holds(c)' <=> k \in Locked
    BY <1>b, <2>1, <2>2 DEF Holds
  <2>4. \A d \in Cpus \ {c} : Holds(d)' <=> Holds(d)
    BY <1>0, <1>b, <2>1, <2>2, ConstantFacts DEF Holds, CpuInv, OnCpu
  <2>5. \A d \in Cpus \ {c} : ~Holds(d)
    BY <1>0, <1>b, <2>1, ConstantFacts DEF WaitLockInv
  <2> QED
    BY <1>b, <2>3, <2>4, <2>5, ConstantFacts DEF WaitLockInv
<1>1. CASE panic \/ UNCHANGED vars
  BY <1>a, <1>1 DEF panic, vars, locks, locals
<1>2. ASSUME NEW c \in Cpus, scheduler_back(c) PROVE WaitLockInv'
  <2>1. /\ cpc[c] = "back" /\ cpc'[c] = "scan" /\ UNCHANGED <<insched, pc, wait_lock>>
        /\ \A d \in Cpus \ {c} : cpc'[d] = cpc[d] /\ proc'[d] = proc[d]
    BY <1>0, <1>2 DEF scheduler_back, TypeOK, locals
  <2> QED
    BY <1>0, <2>1 DEF WaitLockInv, Holds
<1>3. ASSUME NEW c \in Cpus, exit_panics(c) PROVE WaitLockInv'
  BY <1>a, <1>3 DEF exit_panics, locks, locals
<1>4. ASSUME NEW c \in Cpus, NEW p \in Procs, scheduler(c, p) PROVE WaitLockInv'
  <2>1. /\ cpc[c] = "scan" /\ state[p] = "RUNNABLE"
        /\ cpc'[c] = "run" /\ proc'[c] = p /\ UNCHANGED <<insched, pc, wait_lock>>
        /\ \A d \in Cpus \ {c} : cpc'[d] = cpc[d] /\ proc'[d] = proc[d]
    BY <1>0, <1>4 DEF scheduler, TypeOK, locals
  <2>2. insched[p]
    BY <1>0, <2>1 DEF LabelInv, Placed
  <2> QED
    BY <1>0, <2>1, <2>2 DEF WaitLockInv, Holds
<1>5. ASSUME NEW c \in Cpus, NEW p \in Procs, resume(c, p) PROVE WaitLockInv'
  <2>1. /\ cpc[c] = "run" /\ proc[c] = p /\ insched[p] /\ UNCHANGED <<cpc, proc, pc, wait_lock>>
        /\ \A q \in Procs \ {p} : insched'[q] = insched[q]
    BY <1>0, <1>5 DEF resume, TypeOK
  <2>2. pc[p] \in Interruptible
    BY <1>0, <2>1 DEF LabelInv, Placed, CpuInv, OnCpu
  <2>3. pc[p] \notin Locked
    BY <2>2 DEF Interruptible, Locked
  <2>4. \A d \in Cpus : cpc[d] = "run" => proc[d] \in Procs
    BY <1>0 DEF CpuInv, OnCpu
  <2> QED
    BY <1>0, <2>1, <2>3, <2>4 DEF WaitLockInv, Holds
<1>6. ASSUME NEW c \in Cpus, NEW p \in Procs, NEW l, At(c, p, l), sched(c, p), proc' = proc,
             \A q \in Procs \ {p} : pc'[q] = pc[q],
             wait_lock' = IF l \in Locked THEN 0 ELSE wait_lock
      PROVE  WaitLockInv'
  <2>1. cpc[c] = "run" /\ proc[c] = p /\ ~insched[p] /\ (l \in Locked <=> wait_lock = c)
    BY <1>6, Executing
  <2>2. /\ cpc'[c] = "back" /\ \A d \in Cpus \ {c} : cpc'[d] = cpc[d]
        /\ \A q \in Procs \ {p} : insched'[q] = insched[q]
    BY <1>0, <1>6, SMTT(30) DEF sched, TypeOK
  <2>3. \A d \in Cpus \ {c} : Holds(d)' <=> Holds(d)
    BY <1>0, <1>6, <2>1, <2>2, ConstantFacts DEF Holds, CpuInv, OnCpu
  <2>4. ~Holds(c)'
    BY <2>2 DEF Holds
  <2> QED
    BY <1>0, <1>6, <2>1, <2>3, <2>4, ConstantFacts DEF WaitLockInv
<1>7. ASSUME NEW c \in Cpus, NEW p \in Procs, yield(c, p) PROVE WaitLockInv'
  <2>1. PICK l \in Interruptible : At(c, p, l)
    BY <1>7 DEF yield
  <2>2. l \notin Locked
    BY DEF Interruptible, Locked
  <2> QED
    BY <1>6, <1>7, <2>1, <2>2 DEF yield
<1>8. ASSUME NEW c \in Cpus, NEW p \in Procs, exit_zombie(c, p) \/ wait_sleep(c, p)
      PROVE  WaitLockInv'
  <2>1. PICK l \in Locked : At(c, p, l)
    BY <1>8 DEF exit_zombie, wait_sleep, Locked
  <2>2. \A q \in Procs \ {p} : pc'[q] = pc[q]
    BY <1>0, <1>8 DEF exit_zombie, wait_sleep, Goto, TypeOK
  <2> QED
    BY <1>6, <1>8, <2>1, <2>2 DEF exit_zombie, wait_sleep
<1>9. ASSUME NEW c \in Cpus, NEW p \in Procs, NEW np \in Procs, fork(c, p, np) PROVE WaitLockInv'
  <2>1. insched[np] /\ insched' = insched
    BY <1>0, <1>9 DEF fork, LabelInv, Placed, TypeOK
  <2>2. pc[p] = "user" /\ pc'[p] \in {"user", "fork_parent"} /\ \A q \in Procs \ {p,
  np} : pc'[q] = pc[q]
    BY <1>0, <1>9 DEF fork, Syscall, At, TypeOK
  <2> QED
    BY <1>a, <1>9, <2>1, <2>2, Zenon DEF fork, locks, Locked
<1>10. ASSUME NEW c \in Cpus, NEW p \in Procs, NEW np \in Procs, fork_fails(c, p, np)
       PROVE  WaitLockInv'
  BY <1>a, <1>10 DEF fork_fails, locks, locals
<1>11. ASSUME NEW c \in Cpus, NEW p \in Procs, NEW np \in Procs,
              \/ fork_parent(c, p) \/ fork_run(c, p) \/ exit_reparent(c, p) \/ exit_wakeparent(c, p)
              \/ acquire_spins(c, p) \/ wait_skip(c, p, np) \/ wait_childless(c, p)
       PROVE  WaitLockInv'
  <2>1. UNCHANGED <<cpc, proc, insched, wait_lock>> /\ \A q \in Procs \ {p} : pc'[q] = pc[q]
    BY <1>0, <1>11, SMTT(30) DEF fork_parent, fork_run, exit_reparent, exit_wakeparent,
       acquire_spins, fork_spin,
       wait_spin, exit_spin, wait_skip, wait_childless, Goto, locks, TypeOK
  <2>2. pc'[p] \in Locked <=> pc[p] \in Locked
    BY <1>0, <1>11, SMTT(30) DEF fork_parent, fork_run, exit_reparent, exit_wakeparent,
       acquire_spins, fork_spin,
       wait_spin, exit_spin, wait_skip, wait_childless, Goto, TypeOK, Locked, At, Syscall
  <2> QED
    BY <1>a, <2>1, <2>2, SMTT(30)
<1>12. ASSUME NEW c \in Cpus, NEW p \in Procs, NEW n \in Pids, NEW q \in Procs, kill(c, p, n, q)
       PROVE  WaitLockInv'
  BY <1>a, <1>12, Zenon DEF kill, locks, locals
<1>13. ASSUME NEW c \in Cpus, NEW p \in Procs, exit(c, p) \/ wait(c, p) PROVE WaitLockInv'
  <2>1. PICK l \in {"user", "exit_spin", "wait_lock", "wait_spin"} : At(c, p, l)
    BY <1>13 DEF exit, wait, Syscall
  <2>2. PICK k \in {"exit_reparent", "wait_scan"} : pc' = [pc EXCEPT ![p] = k]
    BY <1>13 DEF exit, wait, StartScan, Goto
  <2>3. l \notin Locked /\ k \in Locked
    BY DEF Locked
  <2> QED
    BY <1>b, <1>13, <2>1, <2>2, <2>3, Zenon DEF exit, wait
<1>14. ASSUME NEW c \in Cpus, NEW p \in Procs, NEW np \in Procs,
              wait_reap(c, p, np) \/ wait_copyout_fails(c, p, np) \/ wait_fails(c, p)
       PROVE  WaitLockInv'
  <2>1. At(c, p, "wait_scan") /\ pc' = [pc EXCEPT ![p] = "user"]
    BY <1>14 DEF wait_reap, wait_copyout_fails, wait_fails, Return, Goto
  <2>2. "wait_scan" \in Locked /\ "user" \notin Locked
    BY DEF Locked
  <2>3. wait_lock' = 0 /\ UNCHANGED <<cpc, proc, insched>>
    BY <1>14 DEF wait_reap, wait_copyout_fails, wait_fails
  <2> QED
    BY <1>b, <2>1, <2>2, <2>3, ZenonT(30)
<1> QED
  BY <1>1, <1>2, <1>3, <1>4, <1>5, <1>7, <1>8, <1>9, <1>10, <1>11, <1>12, <1>13, <1>14 DEF Next

-----------------------------------------------------------------------------
\* What wakeup() and kill() may do to a sleeping process.
Woken(q) ==
  \/ state' = state
  \/ state[q] = "SLEEPING" /\ state' = [state EXCEPT ![q] = "RUNNABLE"]

\* Who has exited, has been freed or is asleep is where its state says.
LEMMA LabelStep == PInv /\ [Next]_vars => LabelInv'
<1> SUFFICES ASSUME PInv, [Next]_vars PROVE LabelInv'
  OBVIOUS
<1>0. TypeOK /\ CpuInv /\ LabelInv /\ ForkInv /\ ParentInv
  BY DEF PInv
<1>a. ASSUME NEW c \in Cpus, NEW p \in Procs, NEW l, At(c, p, l), UNCHANGED <<state, chan, insched>>,
             \A q \in Procs \ {p} : pc'[q] = pc[q], p = initproc => pc'[p] \notin Exiting
      PROVE  LabelInv'
  <2>1. state[p] = "RUNNING" /\ ~insched[p]
    BY <1>a, Executing
  <2>2. \A q \in Procs : Placed(q)'
    BY <1>0, <1>a, <2>1 DEF LabelInv, Placed
  <2> QED
    BY <1>0, <1>a, <2>2, ConstantFacts, Zenon DEF LabelInv
<1>b. ASSUME NEW q \in Procs, Woken(q), UNCHANGED <<chan, insched>>,
             \A r \in Procs : state[r] # "RUNNING" \/ insched[r] => pc'[r] = pc[r],
             pc'[initproc] \notin Exiting
      PROVE  LabelInv'
  <2>1. \A r \in Procs : \/ state'[r] = state[r]
                         \/ state[r] = "SLEEPING" /\ state'[r] = "RUNNABLE"
    BY <1>0, <1>b, SMTT(30) DEF Woken, TypeOK
  <2>2. \A r \in Procs : Placed(r)'
    BY <1>0, <1>b, <2>1 DEF LabelInv, Placed, Interruptible
  <2> QED
    BY <1>0, <1>b, <2>1, <2>2, ConstantFacts DEF LabelInv, Live
<1>c. ASSUME NEW q \in Procs, NEW st, state' = [state EXCEPT ![q] = st],
             \A r \in Procs \ {q} : chan'[r] = chan[r] /\ insched'[r] = insched[r] /\ pc'[r] = pc[r],
             Placed(q)', q = initproc => st \in Live /\ pc'[q] \notin Exiting
      PROVE  LabelInv'
  <2>1. state'[q] = st /\ \A r \in Procs \ {q} : state'[r] = state[r]
    BY <1>0, <1>c DEF TypeOK
  <2>2. \A r \in Procs : Placed(r)'
    BY <1>0, <1>c, <2>1 DEF LabelInv, Placed
  <2> QED
    BY <1>0, <1>c, <2>1, <2>2, ConstantFacts DEF LabelInv
<1>1. CASE panic \/ UNCHANGED vars
  BY <1>0, <1>1 DEF panic, vars, procvars, locals, LabelInv, Placed
<1>2. ASSUME NEW c \in Cpus, scheduler_back(c) \/ exit_panics(c) PROVE LabelInv'
  BY <1>0, <1>2, SMTT(30) DEF scheduler_back, exit_panics, procvars, locals, LabelInv, Placed
<1>3. ASSUME NEW c \in Cpus, NEW p \in Procs, scheduler(c, p) PROVE LabelInv'
  <2>1. state'[p] = "RUNNING" /\ pc'[p] = pc[p] /\ pc[p] \in Interruptible
    BY <1>0, <1>3 DEF scheduler, locals, LabelInv, Placed, TypeOK
  <2>2. Placed(p)' /\ pc'[p] \notin Exiting
    BY <2>1 DEF Placed, Exiting, Interruptible
  <2> QED
    BY <1>c, <1>3, <2>2, Zenon DEF scheduler, locals, Live
<1>4. ASSUME NEW c \in Cpus, NEW p \in Procs, resume(c, p) PROVE LabelInv'
  <2>1. state[p] = "RUNNING"
    BY <1>0, <1>4 DEF resume, CpuInv, OnCpu
  <2>2. UNCHANGED <<state, pc>> /\ ~insched'[p]
        /\ \A q \in Procs \ {p} : chan'[q] = chan[q] /\ insched'[q] = insched[q]
    BY <1>0, <1>4, SMTT(30) DEF resume, TypeOK
  <2>3. \A q \in Procs : Placed(q)'
    BY <1>0, <2>1, <2>2 DEF LabelInv, Placed
  <2> QED
    BY <1>0, <2>2, <2>3 DEF LabelInv
<1>5. ASSUME NEW c \in Cpus, NEW p \in Procs, yield(c, p) PROVE LabelInv'
  <2>1. state'[p] = "RUNNABLE" /\ insched'[p] /\ pc'[p] = pc[p] /\ pc[p] \in Interruptible
    BY <1>0, <1>5 DEF yield, sched, At, TypeOK
  <2>2. Placed(p)' /\ pc'[p] \notin Exiting
    BY <2>1 DEF Placed, Exiting, Interruptible
  <2>3. \A q \in Procs \ {p} : insched'[q] = insched[q]
    BY <1>0, <1>5 DEF yield, sched, TypeOK
  <2> QED
    BY <1>c, <1>5, <2>2, <2>3, Zenon DEF yield, Live
<1>6. ASSUME NEW c \in Cpus, NEW p \in Procs, exit_zombie(c, p) PROVE LabelInv'
  <2>1. /\ state'[p] = "ZOMBIE" /\ insched'[p] /\ pc'[p] = "exit_zombie" /\ pc' = pc
        /\ p # initproc
    BY <1>0, <1>6 DEF exit_zombie, sched, At, TypeOK, LabelInv, Exiting
  <2>2. Placed(p)'
    BY <2>1 DEF Placed
  <2>3. \A q \in Procs \ {p} : insched'[q] = insched[q]
    BY <1>0, <1>6, SMTT(30) DEF exit_zombie, sched, TypeOK
  <2> QED
    BY <1>c, <1>6, <2>1, <2>2, <2>3, Zenon DEF exit_zombie
<1>7. ASSUME NEW c \in Cpus, NEW p \in Procs, wait_sleep(c, p) PROVE LabelInv'
  <2>1. state'[p] = "SLEEPING" /\ insched'[p] /\ pc'[p] = "wait_lock" /\ chan'[p] = p
    BY <1>0, <1>7 DEF wait_sleep, sched, Goto, TypeOK
  <2>2. Placed(p)' /\ pc'[p] \notin Exiting
    BY <2>1 DEF Placed, Exiting
  <2>3. \A q \in Procs \ {p} : insched'[q] = insched[q] /\ chan'[q] = chan[q] /\ pc'[q] = pc[q]
    BY <1>0, <1>7, SMTT(30) DEF wait_sleep, sched, Goto, TypeOK
  <2> QED
    BY <1>c, <1>7, <2>2, <2>3, Zenon DEF wait_sleep, Live
<1>8. ASSUME NEW c \in Cpus, NEW p \in Procs, NEW np \in Procs, fork(c, p, np) PROVE LabelInv'
  <2>1. state[p] = "RUNNING" /\ ~insched[p] /\ p # np /\ np # initproc
    BY <1>0, <1>8, Executing DEF fork, Syscall, LabelInv, Live
  <2>2. /\ state'[np] = "USED" /\ pc'[np] = "user" /\ insched'[np]
        /\ state'[p] = "RUNNING" /\ pc'[p] = "fork_parent" /\ ~insched'[p] /\ chan' = chan
        /\ \A q \in Procs \ {p, np} : state'[q] = state[q] /\ pc'[q] = pc[q] /\ insched'[q] = insched[q]
    BY <1>0, <1>8, <2>1, Zenon DEF fork, TypeOK
  <2>3. \A q \in Procs : Placed(q)'
    BY <1>0, <2>2 DEF LabelInv, Placed
  <2> QED
    BY <1>0, <2>1, <2>2, <2>3, ConstantFacts DEF LabelInv, Exiting, Live
<1>9. ASSUME NEW c \in Cpus, NEW p \in Procs, NEW np \in Procs, fork_fails(c, p, np)
      PROVE  LabelInv'
  <2>1. np # initproc /\ Placed(np) /\ state[np] = "UNUSED"
    BY <1>0, <1>9 DEF fork_fails, LabelInv, Live
  <2>2. /\ state' = [state EXCEPT ![np] = "UNUSED"] /\ state'[np] = "UNUSED"
        /\ UNCHANGED <<pc, insched>> /\ \A q \in Procs \ {np} : chan'[q] = chan[q]
    BY <1>0, <1>9 DEF fork_fails, freeproc, locals, TypeOK
  <2>3. Placed(np)'
    BY <2>1, <2>2 DEF Placed
  <2> QED
    BY <1>c, <2>1, <2>2, <2>3, Zenon
<1>10. ASSUME NEW c \in Cpus, NEW p \in Procs, NEW np \in Procs, wait_reap(c, p, np)
       PROVE  LabelInv'
  <2>1. state[p] = "RUNNING" /\ ~insched[p] /\ p # np /\ np # initproc /\ Placed(np)
    BY <1>0, <1>10, Executing DEF wait_reap, LabelInv, Live
  <2>2. /\ state[np] = "ZOMBIE" /\ state'[np] = "UNUSED" /\ insched' = insched
        /\ pc'[p] = "user" /\ \A q \in Procs \ {p} : pc'[q] = pc[q]
        /\ \A q \in Procs \ {np} : chan'[q] = chan[q] /\ state'[q] = state[q]
    BY <1>0, <1>10, SMTT(30) DEF wait_reap, freeproc, Return, Goto, TypeOK
  <2>3. Placed(np)' /\ Placed(p)'
    BY <2>1, <2>2, ZenonT(30) DEF Placed
  <2>4. \A q \in Procs : Placed(q)'
    BY <1>0, <2>2, <2>3 DEF LabelInv, Placed
  <2> QED
    BY <1>0, <2>1, <2>2, <2>4, ConstantFacts, SMTT(30) DEF LabelInv, Exiting
<1>11. ASSUME NEW c \in Cpus, NEW p \in Procs, fork_run(c, p) PROVE LabelInv'
  <2>1. state[p] = "RUNNING" /\ ~insched[p]
    BY <1>11, Executing DEF fork_run
  <2>2. PICK np \in Procs : np = idx[p] /\ state[np] = "USED"
    BY <1>0, <1>11, SMTT(30) DEF ForkInv, Forking, fork_run, At
  <2>3. np # initproc /\ np # p /\ pc[np] = "user" /\ insched[np]
    BY <1>0, <2>1, <2>2 DEF LabelInv, Placed, Live
  <2>4. /\ state'[np] = "RUNNABLE" /\ \A q \in Procs \ {np} : state'[q] = state[q]
        /\ pc'[p] = "user" /\ (\A q \in Procs \ {p} : pc'[q] = pc[q]) /\ UNCHANGED <<chan, insched>>
    BY <1>0, <1>11, <2>2, SMTT(30) DEF fork_run, Goto, TypeOK
  <2>5. \A q \in Procs : Placed(q)'
    BY <1>0, <2>1, <2>2, <2>3, <2>4 DEF LabelInv, Placed, Interruptible
  <2> QED
    BY <1>0, <2>3, <2>4, <2>5, ConstantFacts DEF LabelInv, Exiting
<1>12. ASSUME NEW c \in Cpus, NEW p \in Procs, exit_reparent(c, p) \/ exit_wakeparent(c, p)
       PROVE  LabelInv'
  <2>1. PICK l \in {"exit_reparent", "exit_wakeparent"} : At(c, p, l)
    BY <1>12, SMTT(30) DEF exit_reparent, exit_wakeparent
  <2>2. state[p] = "RUNNING" /\ ~insched[p] /\ p # initproc
    BY <1>0, <2>1, Executing DEF LabelInv, Exiting
  <2>3. parent[p] \in Procs
    BY <1>0, <2>2 DEF ParentInv, TypeOK, Live
  <2>4. \E q \in Procs : Woken(q)
    BY <1>12, <2>3, ConstantFacts, Zenon DEF exit_reparent, exit_wakeparent, Wakeup, Woken
  <2>5. UNCHANGED <<chan, insched>> /\ \A q \in Procs \ {p} : pc'[q] = pc[q]
    BY <1>0, <1>12 DEF exit_reparent, exit_wakeparent, Goto, TypeOK
  <2>6. pc'[initproc] \notin Exiting
    BY <1>0, <2>2, <2>5, ConstantFacts DEF LabelInv
  <2> QED
    BY <1>b, <2>2, <2>4, <2>5, <2>6
<1>13. ASSUME NEW c \in Cpus, NEW p \in Procs, NEW n \in Pids, NEW q \in Procs, kill(c, p, n, q)
       PROVE  LabelInv'
  <2>1. Woken(q) /\ UNCHANGED <<chan, insched, pc>>
    BY <1>13 DEF kill, locals, Woken
  <2> QED
    BY <1>0, <1>b, <2>1 DEF LabelInv
<1>14. ASSUME NEW c \in Cpus, NEW p \in Procs, NEW np \in Procs,
              \/ fork_parent(c, p) \/ exit(c, p) \/ wait(c, p) \/ acquire_spins(c, p)
              \/ wait_copyout_fails(c, p, np) \/ wait_skip(c, p, np) \/ wait_fails(c, p)
              \/ wait_childless(c, p)
       PROVE  LabelInv'
  <2>1. \E l : At(c, p, l)
    BY <1>14, SMTT(30) DEF fork_parent, exit, wait, acquire_spins, fork_spin, wait_spin,
       exit_spin,
       wait_copyout_fails, wait_skip, wait_fails, wait_childless, Syscall
  <2>2. UNCHANGED <<state, chan, insched>>
    BY <1>14, SMTT(30) DEF fork_parent, exit, wait, acquire_spins, wait_copyout_fails, wait_skip,
       wait_fails,
       wait_childless, procvars
  <2>3. \A q \in Procs \ {p} : pc'[q] = pc[q]
    BY <1>0, <1>14, SMTT(30) DEF fork_parent, exit, wait, acquire_spins, fork_spin, wait_spin,
       exit_spin,
       wait_copyout_fails, wait_skip, wait_fails, wait_childless, StartScan, Return, Goto, TypeOK
  <2>4. p = initproc => pc'[p] \notin Exiting
    BY <1>0, <1>14 DEF fork_parent, exit, wait, acquire_spins, fork_spin, wait_spin, exit_spin,
       LabelInv,
       wait_copyout_fails, wait_skip, wait_fails, wait_childless, StartScan, Return, Goto, TypeOK, Exiting
  <2> QED
    BY <1>a, <2>1, <2>2, <2>3, <2>4, SMTT(30)
<1> QED
  BY <1>1, <1>2, <1>3, <1>4, <1>5, <1>6, <1>7, <1>8, <1>9, <1>10, <1>11, <1>12, <1>13, <1>14,
     SMTT(30) DEF Next
=============================================================================
