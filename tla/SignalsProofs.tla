---------------------------- MODULE SignalsProofs ----------------------------
(***************************************************************************)
(* Proofs about Signals, for every set of signals and of masks and any     *)
(* number of calls of kill().                                              *)
(***************************************************************************)
EXTENDS Signals, TLAPS

\* sigHandlerFlag is set as soon as a handler has been entered and never
\* cleared, so the first handler is the only one; and the backup is that of
\* the handler under way.
FlagInv ==
  /\ forked \in BOOLEAN
  /\ sigHandlerFlag \in {0, 1}
  /\ depth \in Nat
  /\ ~forked =>
       /\ sigHandlerFlag = 0 => depth = 0
       /\ depth <= 1
       /\ depth = 1 => backupTrapframe = interrupted

\* FlagInv is inductive: only userSpaceHandler() enters a handler, and it
\* sets the flag and saves the trapframe in the same step.
THEOREM FlagInvariant == Spec => []FlagInv
<1>1. Init => FlagInv
  BY DEF Init, FlagInv
<1>2. FlagInv /\ [Next]_vars => FlagInv'
  <2> SUFFICES ASSUME FlagInv, [Next]_vars PROVE FlagInv'
    OBVIOUS
  <2>1. ASSUME UNCHANGED <<forked, sigHandlerFlag, depth, backupTrapframe, interrupted>>
        PROVE  FlagInv'
    BY <2>1 DEF FlagInv
  <2>2. CASE kill_SIGKILL \/ (\E s \in Sigs : kill(s)) \/ kill_store
    BY <2>1, <2>2 DEF kill_SIGKILL, kill, kill_store, usrvars, frames, hist
  <2>3. CASE \/ \E s \in Sigs, h \in Handlers, m \in Masks : sigaction(s, h, m)
             \/ \E m \in Masks : sigprocmask(m)
    BY <2>1, <2>3 DEF sigaction, sigprocmask, hist
  <2>4. CASE sigret
    <3>1. UNCHANGED <<forked, sigHandlerFlag, backupTrapframe>>
      BY <2>4 DEF sigret
    <3>2. depth' = IF depth > 0 THEN depth - 1 ELSE 0
      BY <2>4 DEF sigret
    <3> QED
      BY <3>1, <3>2 DEF FlagInv
  <2>5. CASE exec
    BY <2>5 DEF FlagInv, exec
  <2>6. CASE interrupt \/ fault \/ exit_killed \/ usertrapret
    BY <2>1, <2>6 DEF interrupt, fault, exit_killed, usertrapret, usrvars, frames, hist
  <2>7. CASE \/ \E s \in Sigs : signalHandler_skip(s) \/ signalHandler_kernel(s)
             \/ sigstopHandler \/ clear_load \/ clear_store
    BY <2>1, <2>7 DEF signalHandler_skip, signalHandler_kernel, sigstopHandler, clear_load,
                      clear_store, usrvars, frames, hist
  <2>8. ASSUME NEW s \in Sigs, NEW ok \in BOOLEAN, userSpaceHandler(s, ok) PROVE FlagInv'
    <3>1. /\ sigHandlerFlag = 0 /\ sigHandlerFlag' = 1 /\ depth' = depth + 1
          /\ backupTrapframe' = trapframe /\ interrupted' = trapframe /\ forked' = forked
      BY <2>8 DEF userSpaceHandler
    <3> QED
      BY <3>1 DEF FlagInv
  <2>9. CASE (\E s \in Sigs : userSpaceHandler_busy(s)) \/ signalHandler_return
    BY <2>1, <2>9 DEF userSpaceHandler_busy, signalHandler_return, usrvars, frames, hist
  <2>10. CASE exited \/ UNCHANGED vars
    BY <2>1, <2>10 DEF exited, vars
  <2> QED
    BY <2>2, <2>3, <2>4, <2>5, <2>6, <2>7, <2>8, <2>9, <2>10 DEF Next
<1> QED
  BY <1>1, <1>2, PTL DEF Spec

\* No user handler of an unforked process is entered before another has been
\* left, whatever signals are pending together and whenever they arrive.
THEOREM HandlersNeverNestCorrect == Spec => []HandlersNeverNest
<1>1. FlagInv => HandlersNeverNest
  BY DEF FlagInv, HandlersNeverNest
<1> QED
  BY <1>1, FlagInvariant, PTL

\* sigret() of the handler resumes what userSpaceHandler() interrupted.
THEOREM SigretResumesCorrect == Spec => SigretResumes
<1>1. FlagInv /\ [Next]_vars =>
        [~forked /\ depth = 1 /\ sigret => trapframe' = [interrupted EXCEPT !.a0 = "ret"]]_vars
  BY DEF FlagInv, sigret
<1> QED
  BY <1>1, FlagInvariant, PTL DEF Spec, SigretResumes
=============================================================================
