------------------------------- MODULE Signals -------------------------------
(***************************************************************************)
(* Signals of one process (kernel/proc.c, "task 2"): kill() by other       *)
(* processes, sigaction, sigprocmask, sigret and exec by the process, and  *)
(* signalHandler(), which usertrapret() calls before every return to user  *)
(* space.                                                                  *)
(*                                                                         *)
(* kill() changes p->pendingSignals under p->lock; signalHandler() clears  *)
(* a bit of it without the lock.  Each of the two is a load and a store,   *)
(* and they are two steps here.  userSpaceHandler() clears its bit under   *)
(* the lock, so for it the two are one.  The other fields are private to   *)
(* the process (killed is only ever set).                                  *)
(*                                                                         *)
(* A trapframe is [at, a0, ra]: where the user code goes on, what is in a0 *)
(* and whether ra leads to the copy of sigret_func.                        *)
(***************************************************************************)
EXTENDS Naturals, FiniteSets

CONSTANTS
  Sigs,       \* the signals used, a subset of 0..31
  Masks,      \* the signal masks that programs use
  MaxKills    \* bound: calls of kill() for this process

SIGKILL == 9
SIGSTOP == 17
SIGCONT == 19
Handlers == {"SIG_DFL", "SIG_IGN", "user"}

ASSUME SigsAssumption == Sigs \subseteq 0..31 /\ {SIGKILL, SIGSTOP, SIGCONT} \subseteq Sigs
ASSUME MasksAssumption == {} \in Masks /\ Masks \subseteq SUBSET Sigs
ASSUME MaxKillsAssumption == MaxKills \in Nat

\* sigaction() takes no handler for the others.
Catchable == Sigs \ {SIGKILL, SIGSTOP}

Junk == [at |-> "junk", a0 |-> "junk", ra |-> "junk"]   \* a page as kalloc() returns it

VARIABLES
  pendingSignals, signalMask, signalHandlers, sigMaskArray,
  backupSigMask, sigHandlerFlag, frozen, killed,
  trapframe, backupTrapframe,
  pc,        \* "user"; "trapped": in usertrap(), about to look at p->killed;
             \* "loop", "stop", "clear", "store": in signalHandler(); "exited"
  i,         \* signalHandler's loop variable
  tmp,       \* pendingSignals as loaded by signalHandler
  killer,    \* a kill() that holds p->lock: its signal and what it loaded, or NoKill
  kills,     \* number of kill() calls made
  forked,    \* history: the process was forked inside a signal handler
  depth,     \* history: signal handlers entered and not left by sigret
  interrupted  \* history: the trapframe when the handler was entered

vars == <<pendingSignals, signalMask, signalHandlers, sigMaskArray, backupSigMask,
          sigHandlerFlag, frozen, killed, trapframe, backupTrapframe, pc, i, tmp,
          killer, kills, forked, depth, interrupted>>

NoKill == [sig |-> 0, loaded |-> {}, on |-> FALSE]
usrvars == <<signalMask, signalHandlers, sigMaskArray, backupSigMask, sigHandlerFlag>>
frames == <<trapframe, backupTrapframe>>
hist == <<forked, depth, interrupted>>

-----------------------------------------------------------------------------
\* A process as allocproc() and fork() leave it: what the parent had of
\* handlers and masks, and the parent's trapframe with 0 in a0, which may be
\* that of a signal handler.  The other fields start afresh.
Init ==
  /\ pendingSignals = {}
  /\ signalMask \in Masks
  /\ signalHandlers \in [Sigs -> Handlers]
  /\ \A s \in Sigs \ Catchable : signalHandlers[s] = "SIG_DFL"
  /\ sigMaskArray \in [Sigs -> Masks]
  /\ \A s \in Sigs : signalHandlers[s] # "user" => sigMaskArray[s] = {}
  /\ backupSigMask = {}
  /\ sigHandlerFlag = 0
  /\ frozen = 0
  /\ killed = FALSE
  /\ forked \in BOOLEAN
  /\ forked => \E s \in Catchable : signalHandlers[s] = "user"
  /\ trapframe = IF forked THEN [at |-> "handler", a0 |-> "ret", ra |-> "sigret"]
                           ELSE [at |-> "main", a0 |-> "ret", ra |-> "own"]
  /\ backupTrapframe = Junk
  /\ pc = "loop"
  /\ i = 0
  /\ tmp = {}
  /\ killer = NoKill
  /\ kills = 0
  /\ depth = IF forked THEN 1 ELSE 0
  /\ interrupted = Junk

-----------------------------------------------------------------------------
\* kill(pid, SIGKILL): no pending bit, p->killed is set.
kill_SIGKILL ==
  /\ kills < MaxKills /\ pc # "exited" /\ ~killer.on
  /\ killed' = TRUE
  /\ kills' = kills + 1
  /\ UNCHANGED <<pendingSignals, usrvars, frozen, frames, pc, i, tmp, killer, hist>>

\* kill(pid, s) otherwise: load and store of p->pendingSignals, p->lock held.
kill(s) ==
  /\ kills < MaxKills /\ pc # "exited" /\ ~killer.on
  /\ s # SIGKILL
  /\ killer' = [sig |-> s, loaded |-> pendingSignals, on |-> TRUE]
  /\ kills' = kills + 1
  /\ UNCHANGED <<pendingSignals, usrvars, frozen, killed, frames, pc, i, tmp, hist>>

kill_store ==
  /\ killer.on
  /\ pendingSignals' = killer.loaded \union {killer.sig}
  /\ killer' = NoKill
  /\ UNCHANGED <<usrvars, frozen, killed, frames, pc, i, tmp, kills, hist>>

-----------------------------------------------------------------------------
\* The process in user space: a system call runs, syscall() stores its result
\* in a0, and usertrap() goes on.  A killed process makes none.
Syscall == pc = "user" /\ ~killed /\ pc' = "trapped"

sigaction(s, h, m) ==
  /\ Syscall
  /\ s \in Catchable
  /\ h # "user" => m = {}      \* it is not read then
  /\ signalHandlers' = [signalHandlers EXCEPT ![s] = h]
  /\ sigMaskArray' = [sigMaskArray EXCEPT ![s] = m]
  /\ trapframe' = [trapframe EXCEPT !.a0 = "ret"]
  /\ UNCHANGED <<pendingSignals, signalMask, backupSigMask, sigHandlerFlag, frozen, killed,
                 backupTrapframe, i, tmp, killer, kills, hist>>

\* sys_sigprocmask() turns down a mask with bit 31, which is negative as an int.
sigprocmask(m) ==
  /\ Syscall
  /\ signalMask' = IF 31 \in m THEN signalMask ELSE m
  /\ trapframe' = [trapframe EXCEPT !.a0 = "ret"]
  /\ UNCHANGED <<pendingSignals, signalHandlers, sigMaskArray, backupSigMask, sigHandlerFlag,
                 frozen, killed, backupTrapframe, i, tmp, killer, kills, hist>>

\* sigret() restores trapframe and mask; sys_sigret()'s 0 then goes to a0.
\* sigHandlerFlag stays as it is.
sigret ==
  /\ Syscall
  /\ trapframe' = [backupTrapframe EXCEPT !.a0 = "ret"]
  /\ signalMask' = backupSigMask
  /\ depth' = IF depth > 0 THEN depth - 1 ELSE 0
  /\ interrupted' = Junk
  /\ UNCHANGED <<pendingSignals, signalHandlers, sigMaskArray, backupSigMask, sigHandlerFlag,
                 frozen, killed, backupTrapframe, i, tmp, killer, kills, forked>>

\* exec() that succeeds: user handlers become SIG_DFL, a new program starts.
exec ==
  /\ Syscall
  /\ signalHandlers' = [s \in Sigs |->
       IF signalHandlers[s] = "user" THEN "SIG_DFL" ELSE signalHandlers[s]]
  /\ sigMaskArray' = [s \in Sigs |->
       IF signalHandlers[s] = "user" THEN {} ELSE sigMaskArray[s]]
  /\ trapframe' = [at |-> "main", a0 |-> "ret", ra |-> trapframe.ra]
  /\ depth' = 0
  /\ interrupted' = Junk
  /\ UNCHANGED <<pendingSignals, signalMask, backupSigMask, sigHandlerFlag, frozen, killed,
                 backupTrapframe, i, tmp, killer, kills, forked>>

\* An interrupt: the registers in the trapframe are the program's own.
interrupt ==
  /\ pc = "user"
  /\ pc' = "trapped"
  /\ trapframe' = [trapframe EXCEPT !.a0 = "own"]
  /\ UNCHANGED <<pendingSignals, usrvars, frozen, killed, backupTrapframe, i, tmp, killer,
                 kills, hist>>

\* A program sent to an address that is none of its own faults.
fault ==
  /\ pc = "user"
  /\ trapframe.at = "junk" \/ (trapframe.at = "handler" /\ trapframe.ra = "bad")
  /\ pc' = "trapped"
  /\ killed' = TRUE
  /\ UNCHANGED <<pendingSignals, usrvars, frozen, frames, i, tmp, killer, kills, hist>>

\* The rest of usertrap(): exit if killed, else usertrapret(), which calls
\* signalHandler(): at once back to user space if sigHandlerFlag is set.
exit_killed ==
  /\ pc \in {"user", "trapped"}
  /\ killed
  /\ pc' = "exited"
  /\ UNCHANGED <<pendingSignals, usrvars, frozen, killed, frames, i, tmp, killer, kills, hist>>

usertrapret ==
  /\ pc = "trapped" /\ ~killed
  /\ pc' = IF sigHandlerFlag = 1 THEN "user" ELSE "loop"
  /\ UNCHANGED <<pendingSignals, usrvars, frozen, killed, frames, i, tmp, killer, kills, hist>>
-----------------------------------------------------------------------------
\* signalHandler()'s loop comes to signal s next, or to its end.
Ahead == {s \in Sigs : i <= s}
Visits(s) == pc = "loop" /\ s \in Ahead /\ \A t \in Ahead : s <= t
ToHandle(s) == s \in pendingSignals /\ s \notin signalMask /\ signalHandlers[s] # "SIG_IGN"

signalHandler_skip(s) ==
  /\ Visits(s)
  /\ ~ToHandle(s)
  /\ i' = s + 1
  /\ UNCHANGED <<pendingSignals, usrvars, frozen, killed, frames, pc, tmp, killer, kills, hist>>

\* The kernel's handlers: sigstopHandler(), sigcontHandler(), sigkillHandler().
signalHandler_kernel(s) ==
  /\ Visits(s)
  /\ ToHandle(s) /\ signalHandlers[s] = "SIG_DFL"
  /\ frozen' = CASE s = SIGSTOP -> 1 [] s = SIGCONT -> 0 [] OTHER -> frozen
  /\ killed' = (killed \/ s \notin {SIGSTOP, SIGCONT})
  /\ pc' = IF s = SIGSTOP THEN "stop" ELSE "clear"
  /\ i' = s
  /\ UNCHANGED <<pendingSignals, usrvars, frames, tmp, killer, kills, hist>>

\* One turn of sigstopHandler()'s loop.  If neither a pending SIGKILL nor
\* frozen = 0 ends it, yield() and again.
sigstopHandler ==
  /\ pc = "stop"
  /\ killed' = (killed \/ SIGKILL \in pendingSignals)
  /\ pc' = IF SIGKILL \in pendingSignals \/ frozen = 0 THEN "clear" ELSE "stop"
  /\ UNCHANGED <<pendingSignals, usrvars, frozen, frames, i, tmp, killer, kills, hist>>

\* pendingSignals &= ~(1 << i), without p->lock.
clear_load ==
  /\ pc = "clear"
  /\ tmp' = pendingSignals
  /\ pc' = "store"
  /\ UNCHANGED <<pendingSignals, usrvars, frozen, killed, frames, i, killer, kills, hist>>


clear_store ==
  /\ pc = "store"
  /\ pendingSignals' = tmp \ {i}
  /\ tmp' = {}
  /\ i' = i + 1
  /\ pc' = "loop"
  /\ UNCHANGED <<usrvars, frozen, killed, frames, killer, kills, hist>>

\* userSpaceHandler() when it sets up the call of the user's handler, having
\* p->lock.  A copyout() that fails is reported and ignored.
Entered(s, ok) == [at |-> "handler", a0 |-> "signum", ra |-> IF ok THEN "sigret" ELSE "bad"]

\* Mutation: the trapframe is saved after it has been changed.
userSpaceHandler_late_backup(s, ok) ==
  /\ Visits(s)
  /\ ToHandle(s) /\ signalHandlers[s] = "user"
  /\ sigHandlerFlag = 0
  /\ ~killer.on
  /\ sigHandlerFlag' = 1
  /\ backupTrapframe' = Entered(s, ok)
  /\ trapframe' = Entered(s, ok)
  /\ backupSigMask' = signalMask
  /\ signalMask' = sigMaskArray[s]
  /\ pendingSignals' = pendingSignals \ {s}
  /\ i' = s + 1
  /\ depth' = depth + 1
  /\ interrupted' = trapframe
  /\ UNCHANGED <<signalHandlers, sigMaskArray, frozen, killed, pc, tmp, killer, kills, forked>>

\* Mutation: the flag is not tested.
userSpaceHandler_unflagged(s, ok) ==
  /\ Visits(s)
  /\ ToHandle(s) /\ signalHandlers[s] = "user"
  /\ ~killer.on
  /\ sigHandlerFlag' = 1
  /\ backupTrapframe' = trapframe
  /\ trapframe' = Entered(s, ok)
  /\ backupSigMask' = signalMask
  /\ signalMask' = sigMaskArray[s]
  /\ pendingSignals' = pendingSignals \ {s}
  /\ i' = s + 1
  /\ depth' = depth + 1
  /\ interrupted' = trapframe
  /\ UNCHANGED <<signalHandlers, sigMaskArray, frozen, killed, pc, tmp, killer, kills, forked>>

userSpaceHandler(s, ok) ==
  /\ Visits(s)
  /\ ToHandle(s) /\ signalHandlers[s] = "user"
  /\ sigHandlerFlag = 0
  /\ ~killer.on
  /\ sigHandlerFlag' = 1
  /\ backupTrapframe' = trapframe
  /\ trapframe' = Entered(s, ok)
  /\ backupSigMask' = signalMask
  /\ signalMask' = sigMaskArray[s]
  /\ pendingSignals' = pendingSignals \ {s}
  /\ i' = s + 1
  /\ depth' = depth + 1
  /\ interrupted' = trapframe
  /\ UNCHANGED <<signalHandlers, sigMaskArray, frozen, killed, pc, tmp, killer, kills, forked>>

\* A second signal with a user handler in the same loop: userSpaceHandler()
\* returns at once, but backupSigMask has been assigned before the call.
userSpaceHandler_busy(s) ==
  /\ Visits(s)
  /\ ToHandle(s) /\ signalHandlers[s] = "user"
  /\ sigHandlerFlag = 1
  /\ backupSigMask' = signalMask
  /\ i' = s + 1
  /\ UNCHANGED <<pendingSignals, signalMask, signalHandlers, sigMaskArray, sigHandlerFlag,
                 frozen, killed, frames, pc, tmp, killer, kills, hist>>

signalHandler_return ==
  /\ pc = "loop"
  /\ Ahead = {}
  /\ i' = 0
  /\ pc' = "user"
  /\ UNCHANGED <<pendingSignals, usrvars, frozen, killed, frames, tmp, killer, kills, hist>>

exited == pc = "exited" /\ UNCHANGED vars

Next ==
  \/ kill_SIGKILL
  \/ \E s \in Sigs : kill(s)
  \/ kill_store
  \/ \E s \in Sigs, h \in Handlers, m \in Masks : sigaction(s, h, m)
  \/ \E m \in Masks : sigprocmask(m)
  \/ sigret
  \/ exec
  \/ interrupt
  \/ fault
  \/ exit_killed
  \/ usertrapret
  \/ \E s \in Sigs : signalHandler_skip(s)
  \/ \E s \in Sigs : signalHandler_kernel(s)
  \/ sigstopHandler
  \/ clear_load
  \/ clear_store
  \/ \E s \in Sigs, ok \in BOOLEAN : userSpaceHandler(s, ok)
  \/ \E s \in Sigs : userSpaceHandler_busy(s)
  \/ signalHandler_return
  \/ exited

Spec == Init /\ [][Next]_vars

\* kill() and the kernel's part of the process run on; the timer interrupts
\* user code; p->lock is free again and again.
KernelStep ==
  \/ usertrapret \/ clear_load \/ clear_store \/ signalHandler_return
  \/ \E s \in Sigs : signalHandler_skip(s) \/ signalHandler_kernel(s) \/ userSpaceHandler_busy(s)

Fairness ==
  /\ WF_vars(kill_store)
  /\ WF_vars(KernelStep)
  /\ SF_vars(\E s \in Sigs, ok \in BOOLEAN : userSpaceHandler(s, ok))
  /\ WF_vars(sigstopHandler)
  /\ WF_vars(interrupt)
  /\ WF_vars(exit_killed)

FairSpec == Spec /\ Fairness
-----------------------------------------------------------------------------
(***************************************************************************)
(* A user's signal handler is not interrupted by another: the test of      *)
(* sigHandlerFlag sees to that, also for signals that become pending while *)
(* the handler runs and for several that are pending at once.  (A process  *)
(* forked inside a handler starts with the flag at 0, and is excepted.)    *)
(***************************************************************************)
HandlersNeverNest == ~forked => depth <= 1

(***************************************************************************)
(* sigret() called by the handler that a signal started resumes the        *)
(* interrupted program: all of the trapframe is as it was when the handler *)
(* was entered, but for a0, which syscall() overwrites.                    *)
(***************************************************************************)
SigretResumes == [][
    ~forked /\ depth = 1 /\ sigret
      => trapframe' = [interrupted EXCEPT !.a0 = "ret"]]_vars


(***************************************************************************)
(* "1=signal is now being handling, 0=else" (proc.h, sigHandlerFlag).      *)
(***************************************************************************)
FlagMeansHandling == sigHandlerFlag = 1 => depth > 0
=============================================================================
