--------------------------- MODULE ProcFamilyProofs ---------------------------
(***************************************************************************)
(* Proofs about Proc, continued: the conjuncts of PInv about fork(),       *)
(* parents and children, and the theorems that follow from PInv.           *)
(***************************************************************************)
EXTENDS ProcLabelProofs

\* Steps of process p that change neither states nor parents.
Quiet(c, p) ==
  \/ exit(c, p) \/ wait(c, p) \/ acquire_spins(c, p) \/ wait_fails(c, p) \/ wait_childless(c, p)
  \/ \E np \in Procs : wait_copyout_fails(c, p, np) \/ wait_skip(c, p, np)

\* They are steps of p alone, from one label to another.
LEMMA QuietFacts ==
  ASSUME PInv, NEW c \in Cpus, NEW p \in Procs, Quiet(c, p)
  PROVE  /\ UNCHANGED <<state, parent>> /\ state[p] = "RUNNING"
         /\ \A q \in Procs \ {p} : pc'[q] = pc[q] /\ idx'[q] = idx[q]
         /\ pc'[p] \in Forking => pc[p] \in Forking \ {"fork_run"} /\ pc'[p] = "fork_spin"
                                   /\ idx'[p] = idx[p]
         /\ pc'[p] \notin {"exit_wakeparent", "exit_zombie"}
<1>0. TypeOK
  BY DEF PInv
<1>1. UNCHANGED <<state, parent>>
  BY DEF Quiet, exit, wait, acquire_spins, wait_fails, wait_childless, wait_copyout_fails,
     wait_skip,
     procvars
<1>2. \E l : At(c, p, l)
  BY DEF Quiet, exit, wait, acquire_spins, fork_spin, wait_spin, exit_spin, wait_fails,
     wait_childless,
     wait_copyout_fails, wait_skip, Syscall
<1>3. state[p] = "RUNNING"
  BY <1>2, Executing
<1>4. CASE exit(c, p) \/ wait(c, p)
  BY <1>0, <1>1, <1>3, <1>4 DEF exit, wait, StartScan, Goto, TypeOK, Forking
<1>5. CASE acquire_spins(c, p)
  BY <1>0, <1>1, <1>3, <1>5 DEF acquire_spins, fork_spin, wait_spin, exit_spin, Goto, At, TypeOK,
     Forking
<1>6. CASE wait_fails(c, p) \/ wait_childless(c, p) \/ \E np \in Procs : wait_copyout_fails(c, p, np)
  BY <1>0, <1>1, <1>3, <1>6 DEF wait_fails, wait_childless, wait_copyout_fails, Return, Goto,
     TypeOK, Forking
<1>7. CASE \E np \in Procs : wait_skip(c, p, np)
  BY <1>0, <1>1, <1>3, <1>7 DEF wait_skip, At, TypeOK, Forking
<1> QED
  BY <1>4, <1>5, <1>6, <1>7 DEF Quiet

\* The parent an exiting process wakes is a process.
LEMMA ExitFacts ==
  ASSUME PInv, NEW c \in Cpus, NEW p \in Procs,
         NEW l \in {"exit_reparent", "exit_wakeparent", "exit_zombie"}, At(c, p, l)
  PROVE  p # initproc /\ state[p] = "RUNNING" /\ pc[p] = l /\ wait_lock = c /\ proc[c] = p
         /\ parent[p] \in Procs
<1>1. state[p] = "RUNNING" /\ pc[p] = l /\ proc[c] = p /\ wait_lock = c
  BY Executing DEF Locked
<1>2. p # initproc
  BY <1>1 DEF PInv, LabelInv, Exiting
<1> QED
  BY <1>1, <1>2 DEF PInv, ParentInv, TypeOK, Live

\* No step but the fork()'s own touches the entry it has taken.
LEMMA ForkStep == PInv /\ [Next]_vars => ForkInv'
<1> SUFFICES ASSUME PInv, [Next]_vars PROVE ForkInv'
  OBVIOUS
<1>0. TypeOK /\ CpuInv /\ LabelInv /\ ForkInv /\ ParentInv
  BY DEF PInv
<1>a. ASSUME \A q \in Procs : state[q] = "USED" => state'[q] = "USED" /\ parent'[q] = parent[q],
             \A q \in Procs : pc'[q] \in Forking =>
                  /\ pc[q] \in Forking /\ idx'[q] = idx[q]
                  /\ pc'[q] = "fork_run" => pc[q] = "fork_run"
      PROVE  ForkInv'
  <2> SUFFICES ASSUME NEW p \in Procs, pc'[p] \in Forking
               PROVE  /\ idx'[p] \in Procs /\ state'[idx'[p]] = "USED"
                      /\ \A q \in Procs : pc'[q] \in Forking /\ idx'[q] = idx'[p] => q = p
                      /\ pc'[p] = "fork_run" => parent'[idx'[p]] = p
    BY DEF ForkInv
  <2>1. PICK np \in Procs : np = idx[p] /\ np = idx'[p] /\ state[np] = "USED" /\ pc[p] \in Forking
    BY <1>0, <1>a DEF ForkInv
  <2>2. \A q \in Procs : pc'[q] \in Forking /\ idx'[q] = idx'[p] => q = p
    BY <1>0, <1>a, <2>1 DEF ForkInv
  <2>3. pc'[p] = "fork_run" => parent'[np] = p
    BY <1>0, <1>a, <2>1 DEF ForkInv
  <2> QED
    BY <1>a, <2>1, <2>2, <2>3
<1>1. CASE panic \/ UNCHANGED vars
  BY <1>a, <1>1 DEF panic, vars, procvars, locals
<1>2. ASSUME NEW c \in Cpus, scheduler_back(c) \/ exit_panics(c) PROVE ForkInv'
  BY <1>a, <1>2 DEF scheduler_back, exit_panics, procvars, locals
<1>3. ASSUME NEW c \in Cpus, NEW p \in Procs,
             scheduler(c, p) \/ resume(c, p) \/ yield(c, p) \/ exit_zombie(c, p) \/ wait_sleep(c, p)
      PROVE  ForkInv'
  <2>1. /\ state[p] \in {"RUNNABLE", "RUNNING"} /\ UNCHANGED parent
        /\ \A q \in Procs \ {p} : state'[q] = state[q]
    BY <1>0, <1>3, Executing DEF scheduler, resume, yield, exit_zombie, wait_sleep, TypeOK,
       CpuInv, OnCpu
  <2>2. \A q \in Procs : pc'[q] \in Forking => pc'[q] = pc[q] /\ idx'[q] = idx[q]
    BY <1>0, <1>3 DEF scheduler, resume, yield, exit_zombie, wait_sleep, Goto, locals, TypeOK,
       Forking
  <2> QED
    BY <1>a, <2>1, <2>2
<1>4. ASSUME NEW c \in Cpus, NEW p \in Procs, NEW np \in Procs, fork(c, p, np) PROVE ForkInv'
  <2>1. state[p] = "RUNNING" /\ state[np] = "UNUSED" /\ p # np
    BY <1>4, Executing DEF fork, Syscall
  <2>2. /\ state'[np] = "USED" /\ \A q \in Procs \ {np} : state'[q] = state[q]
        /\ pc'[np] = "user" /\ pc'[p] = "fork_parent" /\ \A q \in Procs \ {p, np} : pc'[q] = pc[q]
        /\ idx'[p] = np /\ (\A q \in Procs \ {p} : idx'[q] = idx[q]) /\ parent' = parent
    BY <1>0, <1>4, <2>1 DEF fork, TypeOK
  <2>3. \A q \in Procs \ {p, np} : pc[q] \in Forking => idx[q] \in Procs \ {np}
    BY <1>0, <2>1 DEF ForkInv
  <2>4. "user" \notin Forking /\ "fork_parent" # "fork_run"
    BY DEF Forking
  <2>5. ASSUME NEW r \in Procs, pc'[r] \in Forking
        PROVE  /\ idx'[r] \in Procs /\ state'[idx'[r]] = "USED"
               /\ pc'[r] = "fork_run" => parent'[idx'[r]] = r
    <3>1. CASE r = p
      BY <2>2, <2>4, <3>1
    <3>2. CASE r # p
      BY <1>0, <2>2, <2>3, <2>4, <2>5, <3>2 DEF ForkInv
    <3> QED
      BY <3>1, <3>2
  <2>6. \A r, q \in Procs :
          pc'[r] \in Forking /\ pc'[q] \in Forking /\ idx'[q] = idx'[r] => q = r
    <3> SUFFICES ASSUME NEW r \in Procs, NEW q \in Procs, pc'[r] \in Forking, pc'[q] \in Forking,
                        idx'[q] = idx'[r]
                 PROVE  q = r
      OBVIOUS
    <3>1. CASE r = p \/ q = p
      BY <2>2, <2>3, <2>4, <3>1
    <3>2. CASE r # p /\ q # p
      BY <1>0, <2>2, <2>4, <3>2 DEF ForkInv
    <3> QED
      BY <3>1, <3>2
  <2> QED
    BY <2>5, <2>6 DEF ForkInv
<1>5. ASSUME NEW c \in Cpus, NEW p \in Procs, NEW np \in Procs, fork_fails(c, p, np)
      PROVE  ForkInv'
  BY <1>0, <1>a, <1>5 DEF fork_fails, freeproc, locals, TypeOK
<1>6. ASSUME NEW c \in Cpus, NEW p \in Procs, NEW np \in Procs, wait_reap(c, p, np)
      PROVE  ForkInv'
  BY <1>0, <1>a, <1>6 DEF wait_reap, freeproc, Return, Goto, TypeOK, Forking
<1>7. ASSUME NEW c \in Cpus, NEW p \in Procs, fork_parent(c, p) PROVE ForkInv'
  <2>1. pc[p] \in Forking
    BY <1>7 DEF fork_parent, At, Forking
  <2>2. PICK np \in Procs : np = idx[p]
    BY <1>0, <2>1 DEF ForkInv
  <2>3. /\ UNCHANGED <<state, idx>> /\ pc'[p] = "fork_run" /\ \A q \in Procs \ {p} : pc'[q] = pc[q]
        /\ parent'[np] = p /\ \A q \in Procs \ {np} : parent'[q] = parent[q]
    BY <1>0, <1>7, <2>2 DEF fork_parent, Goto, TypeOK
  <2>4. \A q \in Procs \ {p} : pc[q] \in Forking => idx[q] # np
    BY <1>0, <2>1, <2>2 DEF ForkInv
  <2> QED
    BY <1>0, <2>1, <2>2, <2>3, <2>4 DEF ForkInv
<1>8. ASSUME NEW c \in Cpus, NEW p \in Procs, fork_run(c, p) PROVE ForkInv'
  <2>1. pc[p] \in Forking
    BY <1>8 DEF fork_run, At, Forking
  <2>2. PICK np \in Procs : np = idx[p]
    BY <1>0, <2>1 DEF ForkInv
  <2>3. /\ \A q \in Procs \ {np} : state'[q] = state[q]
        /\ pc'[p] = "user" /\ parent' = parent
        /\ \A q \in Procs \ {p} : pc'[q] = pc[q] /\ idx'[q] = idx[q]
    BY <1>0, <1>8, <2>2 DEF fork_run, Goto, TypeOK
  <2>4. \A q \in Procs \ {p} : pc[q] \in Forking => idx[q] # np
    BY <1>0, <2>1, <2>2 DEF ForkInv
  <2>5. "user" \notin Forking
    BY DEF Forking
  <2> QED
    BY <1>0, <2>1, <2>2, <2>3, <2>4, <2>5 DEF ForkInv
<1>9. ASSUME NEW c \in Cpus, NEW p \in Procs, exit_reparent(c, p) PROVE ForkInv'
  <2>1. pc[p] = "exit_reparent"
    BY <1>9 DEF exit_reparent, At
  <2>2. /\ \A q \in Procs : state[q] = "USED" => state'[q] = "USED"
        /\ \A q \in Procs : parent[q] # p => parent'[q] = parent[q]
        /\ pc'[p] = "exit_wakeparent" /\ (\A q \in Procs \ {p} : pc'[q] = pc[q]) /\ idx' = idx
    BY <1>0, <1>9 DEF exit_reparent, Wakeup, Children, Goto, TypeOK
  <2>3. "exit_reparent" \notin Forking /\ "exit_wakeparent" \notin Forking
    BY DEF Forking
  <2>4. \A q \in Procs : pc'[q] \in Forking => q # p /\ pc'[q] = pc[q]
    BY <2>2, <2>3
  <2> QED
    BY <1>0, <2>2, <2>4 DEF ForkInv
<1>10. ASSUME NEW c \in Cpus, NEW p \in Procs, exit_wakeparent(c, p) PROVE ForkInv'
  <2>1. parent[p] \in Procs
    BY <1>10, ExitFacts DEF exit_wakeparent
  <2> QED
    BY <1>0, <1>a, <1>10, <2>1 DEF exit_wakeparent, Wakeup, Goto, TypeOK, Forking
<1>11. ASSUME NEW c \in Cpus, NEW p \in Procs, NEW n \in Pids, NEW q \in Procs, kill(c, p, n, q)
       PROVE  ForkInv'
  BY <1>0, <1>a, <1>11 DEF kill, locals, TypeOK
<1>12. ASSUME NEW c \in Cpus, NEW p \in Procs, Quiet(c, p) PROVE ForkInv'
  <2>1. \A q \in Procs : pc'[q] \in Forking =>
                  /\ pc[q] \in Forking /\ idx'[q] = idx[q]
                  /\ pc'[q] = "fork_run" => pc[q] = "fork_run"
    BY <1>12, QuietFacts
  <2>2. UNCHANGED <<state, parent>>
    BY <1>12, QuietFacts
  <2> QED
    BY <1>a, <2>1, <2>2
<1> QED
  BY <1>1, <1>2, <1>3, <1>4, <1>5, <1>6, <1>7, <1>8, <1>9, <1>10, <1>11, <1>12 DEF Next, Quiet

\* A process that exits hands its children on before it dies.
LEMMA ParentStep == PInv /\ [Next]_vars => ParentInv'
<1> SUFFICES ASSUME PInv, [Next]_vars PROVE ParentInv'
  OBVIOUS
<1>0. TypeOK /\ CpuInv /\ LabelInv /\ ForkInv /\ ParentInv
  BY DEF PInv
<1> DEFINE Gone == {"exit_wakeparent", "exit_zombie"}
<1>a. ASSUME \A q \in Procs :
               /\ parent'[q] = parent[q] \/ (parent'[q] = 0 /\ state'[q] = "UNUSED")
               /\ state'[q] \in Live \union {"ZOMBIE"} => state[q] \in Live \union {"ZOMBIE"}
               /\ state[q] \in Live => state'[q] \in Live
               /\ pc'[q] \in Gone => pc[q] \in Gone
      PROVE  ParentInv'
  <2>1. \A q \in Procs : state'[q] = "UNUSED" => state'[q] \notin Live \union {"ZOMBIE"}
    BY DEF Live
  <2>2. \A q \in Procs : parent'[q] # 0 => parent'[q] = parent[q] /\ parent[q] \in Procs
    BY <1>0, <1>a DEF TypeOK
  <2>3. \A q \in Procs \ {initproc} : state'[q] \in Live \union {"ZOMBIE"} => parent'[q] # 0
    BY <1>0, <1>a, <2>1 DEF ParentInv
  <2>4. \A q \in Procs : parent'[q] # 0 => state'[parent'[q]] \in Live
    BY <1>0, <1>a, <2>2 DEF ParentInv
  <2>5. \A r, q \in Procs : pc'[r] \in Gone => parent'[q] # r
    BY <1>0, <1>a, <2>2, ConstantFacts DEF ParentInv
  <2> QED
    BY <2>3, <2>4, <2>5 DEF ParentInv
<1>1. CASE panic \/ UNCHANGED vars
  BY <1>a, <1>1 DEF panic, vars, procvars, locals
<1>2. ASSUME NEW c \in Cpus, scheduler_back(c) \/ exit_panics(c) PROVE ParentInv'
  BY <1>a, <1>2 DEF scheduler_back, exit_panics, procvars, locals
<1>3. ASSUME NEW c \in Cpus, NEW p \in Procs,
             scheduler(c, p) \/ resume(c, p) \/ yield(c, p) \/ wait_sleep(c, p)
      PROVE  ParentInv'
  <2>1. /\ state[p] \in {"RUNNABLE", "RUNNING"} /\ UNCHANGED parent
        /\ state'[p] \in Live /\ \A q \in Procs \ {p} : state'[q] = state[q]
    <3>1. CASE scheduler(c, p)
      BY <1>0, <3>1 DEF scheduler, TypeOK, Live
    <3>2. CASE resume(c, p)
      BY <1>0, <3>2 DEF resume, CpuInv, OnCpu, Live
    <3>3. CASE yield(c, p) \/ wait_sleep(c, p)
      BY <1>0, <3>3, Executing DEF yield, wait_sleep, TypeOK, Live
    <3> QED
      BY <1>3, <3>1, <3>2, <3>3
  <2>2. \A q \in Procs : pc'[q] \in Gone => pc[q] \in Gone
    <3>1. CASE scheduler(c, p) \/ resume(c, p) \/ yield(c, p)
      BY <3>1 DEF scheduler, resume, yield, locals
    <3>2. CASE wait_sleep(c, p)
      BY <1>0, <3>2 DEF wait_sleep, Goto, TypeOK
    <3> QED
      BY <1>3, <3>1, <3>2
  <2>3. state[p] \in Live
    BY <2>1 DEF Live
  <2> QED
    BY <1>a, <2>1, <2>2, <2>3
<1>4. ASSUME NEW c \in Cpus, NEW p \in Procs, exit_zombie(c, p) PROVE ParentInv'
  <2>1. pc[p] = "exit_zombie" /\ p # initproc /\ parent[p] \in Procs
    BY <1>4, ExitFacts DEF exit_zombie
  <2>2. UNCHANGED <<parent, pc>> /\ \A q \in Procs \ {p} : state'[q] = state[q]
    BY <1>0, <1>4 DEF exit_zombie, TypeOK
  <2>3. \A q \in Procs : parent[q] # p
    BY <1>0, <2>1 DEF ParentInv
  <2>4. \A q \in Procs : parent[q] # 0 => parent[q] \in Procs \ {p}
    BY <1>0, <2>3 DEF TypeOK
  <2> QED
    BY <1>0, <2>1, <2>2, <2>3, <2>4, ConstantFacts, Zenon DEF ParentInv
<1>5. ASSUME NEW c \in Cpus, NEW p \in Procs, NEW np \in Procs, fork(c, p, np) PROVE ParentInv'
  <2>1. /\ state[np] = "UNUSED" /\ state'[np] = "USED" /\ parent' = parent
        /\ \A q \in Procs \ {np} : state'[q] = state[q]
        /\ \A q \in Procs : pc'[q] \in Gone => pc[q] \in Gone
    BY <1>0, <1>5 DEF fork, TypeOK
  <2> QED
    BY <1>a, <2>1 DEF Live
<1>6. ASSUME NEW c \in Cpus, NEW p \in Procs, NEW np \in Procs,
             fork_fails(c, p, np) \/ wait_reap(c, p, np)
      PROVE  ParentInv'
  <2>1. /\ state[np] \in {"UNUSED", "ZOMBIE"} /\ state'[np] = "UNUSED" /\ parent'[np] = 0
        /\ \A q \in Procs \ {np} : state'[q] = state[q] /\ parent'[q] = parent[q]
        /\ \A q \in Procs : pc'[q] \in Gone => pc[q] \in Gone
    BY <1>0, <1>6 DEF fork_fails, wait_reap, freeproc, Return, Goto, locals, TypeOK
  <2> QED
    BY <1>a, <2>1 DEF Live
<1>7. ASSUME NEW c \in Cpus, NEW p \in Procs, fork_parent(c, p) PROVE ParentInv'
  <2>1. pc[p] \in {"fork_parent", "fork_spin"} /\ state[p] \in Live
    BY <1>7, Executing DEF fork_parent, Live
  <2>2. PICK np \in Procs : np = idx[p]
    BY <1>0, <2>1 DEF ForkInv, Forking
  <2>3. /\ state' = state /\ pc'[p] = "fork_run" /\ \A q \in Procs \ {p} : pc'[q] = pc[q]
        /\ parent'[np] = p /\ \A q \in Procs \ {np} : parent'[q] = parent[q]
    BY <1>0, <1>7, <2>2 DEF fork_parent, Goto, TypeOK
  <2>4. \A q \in Procs : pc'[q] \in Gone => q # p /\ pc[q] \in Gone
    BY <2>3
  <2> QED
    BY <1>0, <2>1, <2>3, <2>4, ConstantFacts DEF ParentInv
<1>8. ASSUME NEW c \in Cpus, NEW p \in Procs, fork_run(c, p) PROVE ParentInv'
  <2>1. pc[p] = "fork_run"
    BY <1>8 DEF fork_run, At
  <2>2. PICK np \in Procs : np = idx[p] /\ parent[np] = p /\ state[np] = "USED"
    BY <1>0, <2>1 DEF ForkInv, Forking

   <2>3. /\ state'[np] \in Live /\ (\A q \in Procs \ {np} : state'[q] = state[q]) /\ parent' = parent
        /\ \A q \in Procs : pc'[q] \in Gone => pc[q] \in Gone
    BY <1>0, <1>8, <2>2 DEF fork_run, Goto, TypeOK, Live
  <2>4. \A q \in Procs : parent[q] # 0 => parent[q] \in Procs
    BY <1>0 DEF TypeOK
  <2>5. \A q \in Procs \ {initproc} : state'[q] \in Live \union {"ZOMBIE"} => parent'[q] # 0
    BY <1>0, <2>2, <2>3, ConstantFacts DEF ParentInv
  <2>6. \A q \in Procs : parent'[q] # 0 => state'[parent'[q]] \in Live
    BY <1>0, <2>3, <2>4 DEF ParentInv
  <2>7. \A r, q \in Procs : pc'[r] \in Gone => parent'[q] # r
    BY <1>0, <2>3 DEF ParentInv
  <2> QED
    BY <2>5, <2>6, <2>7 DEF ParentInv
<1>9. ASSUME NEW c \in Cpus, NEW p \in Procs, exit_reparent(c, p) PROVE ParentInv'
  <2>1. pc[p] = "exit_reparent" /\ p # initproc
    BY <1>9, ExitFacts DEF exit_reparent
  <2>2. /\ \A q \in Procs : parent'[q] = IF parent[q] = p THEN initproc ELSE parent[q]
        /\ pc'[p] = "exit_wakeparent" /\ \A q \in Procs \ {p} : pc'[q] = pc[q]
    BY <1>0, <1>9 DEF exit_reparent, Children, Goto, TypeOK
  <2>3. \A q \in Procs : state'[q] = state[q] \/ (state[q] \in Live /\ state'[q] \in Live)
    BY <1>0, <1>9 DEF exit_reparent, Wakeup, TypeOK, Live
  <2>4. state'[initproc] \in Live /\ pc'[initproc] \notin Gone
    BY <1>0, <2>1, <2>2, <2>3, ConstantFacts, Zenon DEF LabelInv, Exiting
  <2>5. \A q \in Procs : parent[q] # 0 => parent[q] \in Procs
    BY <1>0 DEF TypeOK
  <2>6. \A q \in Procs \ {initproc} : state'[q] \in Live \union {"ZOMBIE"} => parent'[q] # 0
    BY <1>0, <2>2, <2>3, ConstantFacts DEF ParentInv
  <2>7. \A q \in Procs : parent'[q] # 0 => state'[parent'[q]] \in Live
    BY <1>0, <2>2, <2>3, <2>4, <2>5 DEF ParentInv
  <2>8. \A r, q \in Procs : pc'[r] \in Gone => parent'[q] # r
    BY <1>0, <2>1, <2>2, <2>4 DEF ParentInv
  <2> QED
    BY <2>6, <2>7, <2>8 DEF ParentInv
<1>10. ASSUME NEW c \in Cpus, NEW p \in Procs, exit_wakeparent(c, p) PROVE ParentInv'
  <2>1. parent[p] \in Procs /\ pc[p] \in Gone
    BY <1>10, ExitFacts DEF exit_wakeparent
  <2>2. \A q \in Procs : state'[q] = state[q] \/ (state[q] \in Live /\ state'[q] \in Live)
    BY <1>0, <1>10, <2>1 DEF exit_wakeparent, Wakeup, TypeOK, Live
  <2>3. parent' = parent /\ \A q \in Procs \ {p} : pc'[q] = pc[q]
    BY <1>0, <1>10 DEF exit_wakeparent, Goto, TypeOK
  <2> QED
    BY <1>a, <2>1, <2>2, <2>3
<1>11. ASSUME NEW c \in Cpus, NEW p \in Procs, NEW n \in Pids, NEW q \in Procs, kill(c, p, n, q)
       PROVE  ParentInv'
  <2>1. UNCHANGED <<parent, pc>> /\
        \A r \in Procs : state'[r] = state[r] \/ (state[r] \in Live /\ state'[r] \in Live)
    BY <1>0, <1>11 DEF kill, locals, TypeOK, Live
  <2> QED
    BY <1>a, <2>1
<1>12. ASSUME NEW c \in Cpus, NEW p \in Procs, Quiet(c, p) PROVE ParentInv'
  BY <1>a, <1>12, QuietFacts
<1> QED
  BY <1>1, <1>2, <1>3, <1>4, <1>5, <1>6, <1>7, <1>8, <1>9, <1>10, <1>11, <1>12 DEF Next, Quiet

\* A wait() that sleeps has seen all its children, and a process that becomes
\* a ZOMBIE has woken its parent; wait_lock is held from the one to the other.
LEMMA ZombieStep == PInv /\ [Next]_vars => ZombieInv'
<1> SUFFICES ASSUME PInv, [Next]_vars PROVE ZombieInv'
  OBVIOUS
<1>0. TypeOK /\ CpuInv /\ LabelInv /\ ForkInv /\ ParentInv /\ ZombieInv
  BY DEF PInv
<1> DEFINE Scans == {"wait_scan", "wait_sleep"}
<1>a. ASSUME \A q \in Procs :
               /\ state'[q] \in {"SLEEPING", "ZOMBIE"} => state[q] = state'[q]
               /\ Dying(q)' => Dying(q)
               /\ parent'[q] = parent[q] \/ state'[q] = "UNUSED"
               /\ pc'[q] \in Scans => pc[q] = pc'[q] /\ idx'[q] = idx[q]
      PROVE  ZombieInv'
  <2>1. \A q \in Procs : Dying(q)' => parent'[q] = parent[q]
    BY <1>a DEF Dying
  <2>2. \A p, q \in Procs : parent'[q] = p /\ Dying(q)' => state'[p] # "SLEEPING"
    BY <1>0, <1>a, <2>1 DEF ZombieInv
  <2>3. \A p, q \in Procs : parent'[q] = p =>
          /\ pc'[p] = "wait_scan" /\ q < idx'[p] => state'[q] # "ZOMBIE"
          /\ pc'[p] = "wait_sleep" => state'[q] # "ZOMBIE"
    BY <1>0, <1>a DEF ZombieInv
  <2> QED
    BY <2>2, <2>3 DEF ZombieInv
<1>1. CASE panic \/ UNCHANGED vars
  BY <1>a, <1>1 DEF panic, vars, procvars, locals, Dying
<1>2. ASSUME NEW c \in Cpus, scheduler_back(c) \/ exit_panics(c) PROVE ZombieInv'
  BY <1>a, <1>2 DEF scheduler_back, exit_panics, procvars, locals, Dying
<1>3. ASSUME NEW c \in Cpus, NEW p \in Procs, scheduler(c, p) \/ resume(c, p) \/ yield(c, p)
      PROVE  ZombieInv'
  <2>1. UNCHANGED <<parent, pc, idx>> /\ state'[p] \in {"RUNNING", "RUNNABLE"}
        /\ \A q \in Procs \ {p} : state'[q] = state[q]
    BY <1>0, <1>3 DEF scheduler, resume, yield, locals, TypeOK, CpuInv, OnCpu
  <2>2. Dying(p)' => Dying(p)
    <3>1. CASE scheduler(c, p)
      BY <1>0, <3>1 DEF scheduler, LabelInv, Placed, Interruptible, Dying, locals
    <3>2. CASE resume(c, p)
      BY <1>0, <3>2 DEF resume, Dying
    <3>3. CASE yield(c, p)
      BY <1>0, <3>3 DEF yield, Dying, TypeOK
    <3> QED
      BY <1>3, <3>1, <3>2, <3>3, SMTT(30)
  <2>3. \A q \in Procs \ {p} : Dying(q)' => Dying(q)
    BY <2>1 DEF Dying
  <2> QED
    BY <1>a, <2>1, <2>2, <2>3
<1>4. ASSUME NEW c \in Cpus, NEW p \in Procs, exit_zombie(c, p) PROVE ZombieInv'
  <2>1. /\ pc[p] = "exit_zombie" /\ state[p] = "RUNNING" /\ wait_lock = c /\ proc[c] = p
        /\ parent[p] \in Procs
    BY <1>4, ExitFacts DEF exit_zombie
  <2>2. /\ UNCHANGED <<parent, pc, idx>> /\ state'[p] = "ZOMBIE"
        /\ \A q \in Procs \ {p} : state'[q] = state[q]
    BY <1>0, <1>4 DEF exit_zombie, TypeOK
  <2>3. \A q \in Procs : Dying(q)' => Dying(q)
    BY <2>1, <2>2 DEF Dying
  <2>4. pc[parent[p]] \notin Scans
    <3> SUFFICES ASSUME pc[parent[p]] \in Scans PROVE FALSE
      OBVIOUS
    <3>1. state[parent[p]] \in Live
      BY <1>0, <2>1, ConstantFacts DEF ParentInv
    <3>2. pc[parent[p]] \in Locked /\ state[parent[p]] \notin {"ZOMBIE", "UNUSED"}
      BY <3>1 DEF Locked, Live
    <3>3. proc[c] = parent[p]
      BY <2>1, <3>2, LockedFacts
    <3> QED
      BY <2>1, <3>3
  <2> QED
    BY <1>0, <2>1, <2>2, <2>3, <2>4 DEF ZombieInv
<1>5. ASSUME NEW c \in Cpus, NEW p \in Procs, wait_sleep(c, p) PROVE ZombieInv'
  <2>1. pc[p] = "wait_sleep" /\ wait_lock = c /\ proc[c] = p
    BY <1>5, Executing DEF wait_sleep, Locked
  <2>2. /\ parent' = parent /\ state'[p] = "SLEEPING" /\ pc'[p] = "wait_lock"
        /\ \A q \in Procs \ {p} : state'[q] = state[q] /\ pc'[q] = pc[q] /\ idx'[q] = idx[q]
    BY <1>0, <1>5 DEF wait_sleep, Goto, TypeOK
  <2>3. \A q \in Procs : Dying(q)' => Dying(q)
    BY <2>2 DEF Dying
  <2>4. \A q \in Procs : parent[q] = p => ~Dying(q)
    <3> SUFFICES ASSUME NEW q \in Procs, parent[q] = p, Dying(q) PROVE FALSE
      OBVIOUS
    <3>1. state[q] = "RUNNING" /\ pc[q] = "exit_zombie"
      BY <1>0, <2>1 DEF ZombieInv, Dying
    <3>2. proc[c] = q
      BY <2>1, <3>1, LockedFacts, SMTT(30) DEF Locked
    <3> QED
      BY <2>1, <3>1, <3>2
  <2> QED
    BY <1>0, <2>2, <2>3, <2>4 DEF ZombieInv
<1>6. ASSUME NEW c \in Cpus, NEW p \in Procs, NEW np \in Procs, fork(c, p, np) PROVE ZombieInv'
  <2>1. /\ parent' = parent /\ state'[np] = "USED" /\ \A q \in Procs \ {np} : state'[q] = state[q]
        /\ \A q \in Procs \ {p, np} : pc'[q] = pc[q] /\ idx'[q] = idx[q]
        /\ pc'[p] \in {"user", "fork_parent"} /\ pc'[np] \in {"user", "fork_parent"}
    BY <1>0, <1>6, SMTT(30) DEF fork, TypeOK
  <2>2. \A q \in Procs : Dying(q)' => Dying(q)
    BY <2>1 DEF Dying
  <2> QED
    BY <1>a, <2>1, <2>2
<1>7. ASSUME NEW c \in Cpus, NEW p \in Procs, NEW np \in Procs,
             fork_fails(c, p, np) \/ wait_reap(c, p, np)
      PROVE  ZombieInv'
  <2>1. /\ state'[np] = "UNUSED"
        /\ \A q \in Procs \ {np} : state'[q] = state[q] /\ parent'[q] = parent[q]
        /\ \A q \in Procs : pc'[q] = "user" \/ (pc'[q] = pc[q] /\ idx'[q] = idx[q])
    BY <1>0, <1>7 DEF fork_fails, wait_reap, freeproc, Return, Goto, locals, TypeOK
  <2>2. \A q \in Procs : Dying(q)' => Dying(q)
    BY <2>1 DEF Dying
  <2> QED
    BY <1>a, <2>1, <2>2
<1>8. ASSUME NEW c \in Cpus, NEW p \in Procs, fork_parent(c, p) PROVE ZombieInv'
  <2>1. pc[p] \in {"fork_parent", "fork_spin"}
    BY <1>8 DEF fork_parent, At
  <2>2. PICK np \in Procs : np = idx[p] /\ state[np] = "USED"
    BY <1>0, <2>1 DEF ForkInv, Forking
  <2>3. /\ UNCHANGED <<state, idx>> /\ pc'[p] = "fork_run" /\ \A q \in Procs \ {p} : pc'[q] = pc[q]
        /\ \A q \in Procs \ {np} : parent'[q] = parent[q]
    BY <1>0, <1>8, <2>2 DEF fork_parent, Goto, TypeOK
  <2>4. \A q \in Procs : (Dying(q)' => Dying(q)) /\ (Dying(q) => q # np)
    BY <2>2, <2>3 DEF Dying
  <2>5. \A q \in Procs : state'[q] = "ZOMBIE" => parent'[q] = parent[q]
    BY <2>2, <2>3
  <2>6. \A r, q \in Procs : parent'[q] = r /\ Dying(q)' => state'[r] # "SLEEPING"
    BY <1>0, <2>3, <2>4 DEF ZombieInv
  <2>7. \A r \in Procs : pc'[r] \in Scans => pc[r] = pc'[r] /\ idx'[r] = idx[r]
    BY <2>3
  <2>8. \A r, q \in Procs : parent'[q] = r =>
          /\ pc'[r] = "wait_scan" /\ q < idx'[r] => state'[q] # "ZOMBIE"
          /\ pc'[r] = "wait_sleep" => state'[q] # "ZOMBIE"
    BY <1>0, <2>3, <2>5, <2>7 DEF ZombieInv
  <2> QED
    BY <2>6, <2>8 DEF ZombieInv
<1>9. ASSUME NEW c \in Cpus, NEW p \in Procs, fork_run(c, p) PROVE ZombieInv'
  <2>1. PICK np \in Procs : np = idx[p] /\ state[np] = "USED"
    BY <1>0, <1>9 DEF ForkInv, Forking, fork_run, At

   <2>2. /\ parent' = parent /\ state'[np] = "RUNNABLE" /\ \A q \in Procs \ {np} : state'[q] = state[q]
        /\ \A q \in Procs : pc'[q] = "user" \/ (pc'[q] = pc[q] /\ idx'[q] = idx[q])
    BY <1>0, <1>9, <2>1 DEF fork_run, Goto, TypeOK
  <2>3. \A q \in Procs : Dying(q)' => Dying(q)
    BY <2>2 DEF Dying
  <2> QED
    BY <1>a, <2>2, <2>3
<1>10. ASSUME NEW c \in Cpus, NEW p \in Procs, exit_reparent(c, p) PROVE ZombieInv'
  <2>1. pc[p] = "exit_reparent" /\ p # initproc /\ wait_lock = c /\ proc[c] = p
    BY <1>10, ExitFacts DEF exit_reparent
  <2>2. /\ \A q \in Procs : parent'[q] = IF parent[q] = p THEN initproc ELSE parent[q]
        /\ pc'[p] = "exit_wakeparent" /\ (\A q \in Procs \ {p} : pc'[q] = pc[q]) /\ idx' = idx
    BY <1>0, <1>10 DEF exit_reparent, Children, Goto, TypeOK
  <2>3. \A q \in Procs : state'[q] = state[q] \/ state'[q] = "RUNNABLE"
    BY <1>0, <1>10 DEF exit_reparent, Wakeup, TypeOK
  <2>4. \A q \in Procs : Dying(q)' => Dying(q)
    BY <2>2, <2>3 DEF Dying
  <2>5. ASSUME NEW q \in Procs, parent[q] = p
        PROVE  state'[initproc] # "SLEEPING" /\ pc'[initproc] \notin Scans
    <3>1. Wakeup(initproc, initproc)
      BY <1>10, <2>5 DEF exit_reparent, Children
    <3>2. state[initproc] = "SLEEPING" => chan[initproc] = initproc
      BY <1>0, ConstantFacts DEF LabelInv, Placed
    <3>3. state'[initproc] # "SLEEPING"
      BY <1>0, <3>1, <3>2, ConstantFacts DEF Wakeup, TypeOK
    <3>4. pc[initproc] \in Scans => proc[c] = initproc
      BY <1>0, <2>1, LockedFacts, ConstantFacts DEF LabelInv, Live, Locked
    <3>5. pc'[initproc] \notin Scans
      BY <2>1, <2>2, <3>4, ConstantFacts
    <3> QED
      BY <3>3, <3>5, SMTT(30)
  <2>6. \A r, q \in Procs : parent'[q] = r /\ Dying(q)' => state'[r] # "SLEEPING"
    BY <1>0, <2>2, <2>3, <2>4, <2>5 DEF ZombieInv
  <2>7. \A r \in Procs : pc'[r] \in Scans => pc[r] = pc'[r] /\ idx'[r] = idx[r]
    BY <2>2
  <2>8. \A q \in Procs : state'[q] = "ZOMBIE" => state[q] = "ZOMBIE"
    BY <2>3
  <2>9. \A r, q \in Procs : parent'[q] = r =>
          /\ pc'[r] = "wait_scan" /\ q < idx'[r] => state'[q] # "ZOMBIE"
          /\ pc'[r] = "wait_sleep" => state'[q] # "ZOMBIE"
    BY <1>0, <2>2, <2>5, <2>7, <2>8 DEF ZombieInv
  <2> QED
    BY <2>6, <2>9 DEF ZombieInv
<1>11. ASSUME NEW c \in Cpus, NEW p \in Procs, exit_wakeparent(c, p) PROVE ZombieInv'
  <2>1. PICK r \in Procs : r = parent[p]
    BY <1>11, ExitFacts DEF exit_wakeparent
  <2>2. /\ parent' = parent /\ pc'[p] = "exit_zombie" /\ (\A q \in Procs \ {p} : pc'[q] = pc[q])
        /\ idx' = idx
    BY <1>0, <1>11 DEF exit_wakeparent, Goto, TypeOK
  <2>3. \A q \in Procs : state'[q] = state[q] \/ state'[q] = "RUNNABLE"
    BY <1>0, <1>11, <2>1 DEF exit_wakeparent, Wakeup, TypeOK
  <2>4. state'[r] # "SLEEPING"
    <3>1. state[r] = "SLEEPING" => chan[r] = r
      BY <1>0 DEF LabelInv, Placed
    <3> QED
      BY <1>0, <1>11, <2>1, <3>1 DEF exit_wakeparent, Wakeup, TypeOK
  <2>5. \A q \in Procs \ {p} : Dying(q)' => Dying(q)
    BY <2>2, <2>3 DEF Dying
  <2>6. \A s, q \in Procs : parent'[q] = s /\ Dying(q)' => state'[s] # "SLEEPING"
    BY <1>0, <2>1, <2>2, <2>3, <2>4, <2>5 DEF ZombieInv
  <2>7. \A s \in Procs : pc'[s] \in Scans => pc[s] = pc'[s]
    BY <2>2
  <2>8. \A s, q \in Procs : parent'[q] = s =>
          /\ pc'[s] = "wait_scan" /\ q < idx'[s] => state'[q] # "ZOMBIE"
          /\ pc'[s] = "wait_sleep" => state'[q] # "ZOMBIE"
    BY <1>0, <2>2, <2>3, <2>7 DEF ZombieInv
  <2> QED
    BY <2>6, <2>8 DEF ZombieInv
<1>12. ASSUME NEW c \in Cpus, NEW p \in Procs, NEW n \in Pids, NEW q \in Procs, kill(c, p, n, q)
       PROVE  ZombieInv'
  <2>1. UNCHANGED <<parent, pc, idx>> /\
        \A r \in Procs : state'[r] = state[r] \/ state'[r] = "RUNNABLE"
    BY <1>0, <1>12 DEF kill, locals, TypeOK
  <2> QED
    BY <1>a, <2>1 DEF Dying
<1>13. ASSUME NEW c \in Cpus, NEW p \in Procs, wait(c, p) PROVE ZombieInv'
  <2>1. /\ UNCHANGED <<state, parent>> /\ pc'[p] = "wait_scan" /\ idx'[p] = 1
        /\ \A q \in Procs \ {p} : pc'[q] = pc[q] /\ idx'[q] = idx[q]
    BY <1>0, <1>13 DEF wait, StartScan, Goto, procvars, TypeOK
  <2>2. \A q \in Procs : ~(q < 1) /\ (Dying(q)' => Dying(q))
    BY <2>1, ConstantFacts DEF Dying, Procs
  <2> QED
    BY <1>0, <2>1, <2>2 DEF ZombieInv
<1>14. ASSUME NEW c \in Cpus, NEW p \in Procs, NEW np \in Procs, wait_skip(c, p, np)
       PROVE  ZombieInv'
  <2>1. /\ UNCHANGED <<state, parent, pc>> /\ idx'[p] = np + 1 /\ pc[p] = "wait_scan"
        /\ state[np] # "ZOMBIE" /\ \A q \in Procs \ {p} : idx'[q] = idx[q]
    BY <1>0, <1>14 DEF wait_skip, procvars, At, TypeOK
  <2>2. \A q \in Procs : parent[q] = p /\ idx[p] <= q => np <= q
    BY <1>14 DEF wait_skip, NextChild, Ahead, Children
  <2>3. idx[p] \in Nat /\ np \in Nat
    BY <1>0, ConstantFacts DEF TypeOK
  <2>4. \A q \in Procs : parent[q] = p /\ q < np + 1 => q = np \/ q < idx[p]
    BY <2>2, <2>3, ConstantFacts
  <2>5. \A q \in Procs : Dying(q)' => Dying(q)
    BY <2>1 DEF Dying
  <2> QED
    BY <1>0, <2>1, <2>4, <2>5 DEF ZombieInv
<1>15. ASSUME NEW c \in Cpus, NEW p \in Procs, wait_childless(c, p) PROVE ZombieInv'
  <2>1. /\ UNCHANGED <<state, parent, idx>> /\ pc[p] = "wait_scan" /\ pc'[p] = "wait_sleep"
        /\ \A q \in Procs \ {p} : pc'[q] = pc[q]
    BY <1>0, <1>15 DEF wait_childless, procvars, Goto, At, TypeOK
  <2>2. idx[p] \in Nat
    BY <1>0 DEF TypeOK
  <2>3. \A q \in Procs : parent[q] = p => ~(idx[p] <= q)
    BY <1>15 DEF wait_childless, Ahead, Children
  <2>4. \A q \in Procs : parent[q] = p => q < idx[p]
    BY <2>2, <2>3, ConstantFacts
  <2>5. \A q \in Procs : Dying(q)' => Dying(q)
    BY <2>1 DEF Dying
  <2> QED
    BY <1>0, <2>1, <2>4, <2>5 DEF ZombieInv
<1>16. ASSUME NEW c \in Cpus, NEW p \in Procs, NEW np \in Procs,
              \/ exit(c, p) \/ acquire_spins(c, p) \/ wait_fails(c, p)
              \/ wait_copyout_fails(c, p, np)
       PROVE  ZombieInv'
  <2>1. /\ UNCHANGED <<state, parent>>
        /\ \A q \in Procs \ {p} : pc'[q] = pc[q] /\ idx'[q] = idx[q]
        /\ pc'[p] \notin Scans \union {"exit_zombie"}
    BY <1>0, <1>16 DEF exit, acquire_spins, fork_spin, wait_spin, exit_spin, wait_fails,
       wait_copyout_fails, Return, Goto, procvars, TypeOK
  <2>2. \A q \in Procs : Dying(q)' => Dying(q)
    BY <2>1 DEF Dying
  <2> QED
    BY <1>a, <2>1, <2>2
<1> QED
  BY <1>1, <1>2, <1>3, <1>4, <1>5, <1>6, <1>7, <1>8, <1>9, <1>10, <1>11, <1>12, <1>13, <1>14,
     <1>15,
     <1>16 DEF Next

-----------------------------------------------------------------------------
(***************************************************************************)
(* PInv holds in every reachable state: what the scheduler, fork(),        *)
(* exit(), wait() and kill() leave of locks, labels and parents.           *)
(***************************************************************************)
THEOREM ProcInvariant == Spec => []PInv
<1>1. PInv /\ [Next]_vars => PInv'
  BY TypeStep, CpuStep, WaitLockStep, LabelStep, ForkStep, ParentStep, ZombieStep DEF PInv
<1> QED
  BY <1>1, InitPInv, PTL DEF Spec

(***************************************************************************)
(* sched() finds p->lock held and nothing else locked, whatever the number *)
(* of CPUs: none of its panics can happen.                                 *)
(***************************************************************************)
THEOREM SchedNeverPanicsCorrect == Spec => []SchedNeverPanics
<1>1. ASSUME PInv PROVE SchedNeverPanics
  <2> SUFFICES ASSUME NEW c \in Cpus, cpc[c] = "back"
               PROVE  /\ plock[proc[c]] = c
                      /\ \A q \in Procs \ {proc[c]} : plock[q] # c
                      /\ wait_lock # c
                      /\ state[proc[c]] # "RUNNING"
    BY DEF SchedNeverPanics
  <2>1. plock[proc[c]] = c /\ state[proc[c]] # "RUNNING"
    BY <1>1 DEF PInv, CpuInv, OnCpu
  <2>2. \A q \in Procs \ {proc[c]} : plock[q] # c
    BY <1>1, ConstantFacts DEF PInv, CpuInv
  <2>3. wait_lock # c
    BY <1>1 DEF PInv, WaitLockInv, Holds
  <2> QED
    BY <2>1, <2>2, <2>3
<1> QED
  BY <1>1, ProcInvariant, PTL

(***************************************************************************)
(* No two CPUs run on one kernel stack, and none runs on the stack of an   *)
(* entry that freeproc() has freed.                                        *)
(***************************************************************************)
THEOREM StackHasOneUserCorrect == Spec => []StackHasOneUser
<1>1. ASSUME PInv PROVE StackHasOneUser
  <2>1. \A c \in Cpus : cpc[c] \in {"scan", "run", "back"}
    BY <1>1 DEF PInv, TypeOK
  <2>2. \A c \in Cpus : proc[c] # 0 => state[proc[c]] \notin {"UNUSED", "USED"}
    BY <1>1, <2>1 DEF PInv, CpuInv, OnCpu
  <2> QED
    BY <1>1, <2>2 DEF PInv, CpuInv, StackHasOneUser
<1> QED
  BY <1>1, ProcInvariant, PTL

(***************************************************************************)
(* Every process that has been made RUNNABLE has a parent that is alive:   *)
(* exit() hands its children on before it becomes a ZOMBIE.                *)
(***************************************************************************)
THEOREM ParentIsAliveCorrect == Spec => []ParentIsAlive
<1>1. ASSUME PInv PROVE ParentIsAlive
  <2>1. \A p \in Procs : state[p] \notin {"UNUSED", "USED"} => state[p] \in Live \union {"ZOMBIE"}
    BY <1>1 DEF PInv, TypeOK, States, Live
  <2> QED
    BY <1>1, <2>1 DEF PInv, ParentInv, ParentIsAlive, Live
<1> QED
  BY <1>1, ProcInvariant, PTL

(***************************************************************************)
(* No process sleeps in wait() while it has a ZOMBIE child: the wakeup of  *)
(* exit() is never lost, in any order of the two processes' steps.         *)
(***************************************************************************)
THEOREM NoZombieMissedCorrect == Spec => []NoZombieMissed
<1>1. ASSUME PInv PROVE NoZombieMissed
  BY <1>1 DEF PInv, ZombieInv, Dying, LabelInv, Placed, NoZombieMissed
<1> QED
  BY <1>1, ProcInvariant, PTL
=============================================================================
