-------------------------------- MODULE Bsem --------------------------------
(***************************************************************************)
(* Binary semaphores (kernel/proc.c, "TASK 4.1"): bsem_alloc, bsem_free,   *)
(* bsem_down and bsem_up over the table binSemArray, and the sleep and     *)
(* wakeup they are built on.                                               *)
(*                                                                         *)
(* A critical section of bsem_lock is one action: every access to the      *)
(* table but one is made under that lock.  The exception is the read of    *)
(* binSemArray[i].id with which bsem_alloc returns, after its release; it  *)
(* is an action of its own.  sleep(chan, &bsem_lock) gives up the lock and *)
(* marks the process SLEEPING in one step, which is what p->lock makes of  *)
(* it (module Proc models that at the level of p->lock); bsem_up calls     *)
(* wakeup after releasing bsem_lock, so its loop over the process table    *)
(* is a sequence of steps, one for each p->lock it takes.                  *)
(***************************************************************************)
EXTENDS Naturals, FiniteSets

CONSTANTS
  NPROC,       \* size of the process table
  MAX_BSEM,    \* number of entries of binSemArray
  MaxSid       \* bound: the last identifier handed out before the model stops allocating

ASSUME NPROCAssumption == NPROC \in Nat \ {0}
ASSUME MAX_BSEMAssumption == MAX_BSEM \in Nat \ {0}
ASSUME MaxSidAssumption == MaxSid \in Nat \ {0}

VARIABLES
  binSemArray, \* the table: [id, is_locked, is_used] for each slot
  nextsid,     \* next identifier allocsid() hands out
  pc,          \* where each process is in the semaphore code
  slot,        \* the loop variable i of the call each process is in
  arg,         \* the bsem_id of that call (bsem_alloc: the identifier it took)
  scan,        \* next entry of proc[] that the process's wakeup() visits
  freed        \* history: identifiers that bsem_free has released, and 0

vars == <<binSemArray, nextsid, pc, slot, arg, scan, freed>>

Procs == 1..NPROC
Slots == 1..MAX_BSEM
Ids == 0..MaxSid

\* "user": not in a semaphore call.  "alloc_ret": bsem_alloc after its release.
\* "asleep": SLEEPING in bsem_down on &binSemArray[slot].  "woken": made
\* RUNNABLE, not yet back with bsem_lock.  "waking": bsem_up in wakeup().
Labels == {"user", "alloc_ret", "asleep", "woken", "waking"}

Semaphore == [id : Nat, is_locked : {0, 1}, is_used : {0, 1}]

\* An assignment to the field is_locked.
SetLocked(s, b) == [s EXCEPT !.is_locked = b]

Init ==
  /\ binSemArray = [i \in Slots |-> [id |-> 0, is_locked |-> 0, is_used |-> 0]]
  /\ nextsid = 1
  /\ pc = [p \in Procs |-> "user"]
  /\ slot = [p \in Procs |-> 1]
  /\ arg = [p \in Procs |-> 0]
  /\ scan = [p \in Procs |-> 1]
  /\ freed = {0}

-----------------------------------------------------------------------------
\* The slot a loop "for (i = 0; i < MAX_BSEM; i++) if (test)" stops at.
IsFirst(i, S) == i \in S /\ \A j \in S : i <= j

\* Mutation: bsem_alloc does not look at is_used.
UnusedUnchecked == Slots

Unused == {i \in Slots : binSemArray[i].is_used = 0}
WithId(id) == {i \in Slots : binSemArray[i].id = id}

bsem_alloc(p) ==
  /\ pc[p] = "user"
  /\ nextsid <= MaxSid
  /\ \E i \in Unused :
       /\ IsFirst(i, Unused)
       /\ binSemArray' = [binSemArray EXCEPT
            ![i] = [id |-> nextsid, is_locked |-> 0, is_used |-> 1]]
       /\ slot' = [slot EXCEPT ![p] = i]
  /\ nextsid' = nextsid + 1
  /\ arg' = [arg EXCEPT ![p] = nextsid]
  /\ pc' = [pc EXCEPT ![p] = "alloc_ret"]
  /\ UNCHANGED <<scan, freed>>

\* The call is over and its locals are gone.
Return(p) ==
  /\ pc' = [pc EXCEPT ![p] = "user"]
  /\ slot' = [slot EXCEPT ![p] = 1]
  /\ arg' = [arg EXCEPT ![p] = 0]
  /\ scan' = [scan EXCEPT ![p] = 1]

\* "return binSemArray[i].id" reads the table with the lock released.
AllocResult(p) == binSemArray[slot[p]].id

bsem_alloc_return(p) ==
  /\ pc[p] = "alloc_ret"
  /\ Return(p)
  /\ UNCHANGED <<binSemArray, nextsid, freed>>

\* The id 0 marks a free slot, and bsem_free(0) finds the first of those.
bsem_free(p, bsem_id) ==
  /\ pc[p] = "user"
  /\ \E i \in WithId(bsem_id) :
       /\ IsFirst(i, WithId(bsem_id))
       /\ binSemArray' = [binSemArray EXCEPT
            ![i] = [id |-> 0, is_locked |-> 0, is_used |-> 0]]
  /\ freed' = freed \union {bsem_id}
  /\ UNCHANGED <<nextsid, pc, slot, arg, scan>>

\* The loop body of bsem_down once i is the slot: sleep while it is locked,
\* else take it and return.
TakeOrSleep(p, i, bsem_id) ==
  \/ /\ binSemArray[i].is_locked = 1
     /\ pc' = [pc EXCEPT ![p] = "asleep"]
     /\ slot' = [slot EXCEPT ![p] = i]
     /\ arg' = [arg EXCEPT ![p] = bsem_id]
     /\ UNCHANGED <<binSemArray, scan>>
  \/ /\ binSemArray[i].is_locked = 0
     /\ binSemArray' = [binSemArray EXCEPT ![i] = SetLocked(@, 1)]
     /\ Return(p)

bsem_down(p, bsem_id) ==
  /\ pc[p] = "user"
  /\ \E i \in WithId(bsem_id) :
       IsFirst(i, WithId(bsem_id)) /\ TakeOrSleep(p, i, bsem_id)
  /\ UNCHANGED <<nextsid, freed>>

\* sleep() returns with bsem_lock and the while tests the same slot again,
\* whatever has become of the slot; p->killed is not looked at.
bsem_down_retry(p) ==
  /\ pc[p] = "woken"
  /\ TakeOrSleep(p, slot[p], arg[p])
  /\ UNCHANGED <<nextsid, freed>>

\* Mutation: bsem_up without its call of wakeup().
bsem_up_silent(p, bsem_id) ==
  LET Match == {i \in WithId(bsem_id) : binSemArray[i].is_locked = 1}
  IN /\ pc[p] = "user"
     /\ \E i \in Match :
          /\ IsFirst(i, Match)
          /\ binSemArray' = [binSemArray EXCEPT ![i] = SetLocked(@, 0)]
     /\ UNCHANGED <<nextsid, pc, slot, arg, scan, freed>>

\* A matching slot that is not locked does not end the loop.
bsem_up(p, bsem_id) ==
  LET Match == {i \in WithId(bsem_id) : binSemArray[i].is_locked = 1}
  IN /\ pc[p] = "user"
     /\ \E i \in Match :
          /\ IsFirst(i, Match)
          /\ binSemArray' = [binSemArray EXCEPT ![i] = SetLocked(@, 0)]
          /\ slot' = [slot EXCEPT ![p] = i]
     /\ arg' = [arg EXCEPT ![p] = bsem_id]
     /\ scan' = [scan EXCEPT ![p] = 1]
     /\ pc' = [pc EXCEPT ![p] = "waking"]
     /\ UNCHANGED <<nextsid, freed>>

\* One iteration of wakeup(&binSemArray[i]), under the lock of the process at
\* index scan[p]: if that process sleeps on the slot it becomes RUNNABLE.
Awakened(p, q) == q # p /\ pc[q] = "asleep" /\ slot[q] = slot[p]

wakeup_step(p) ==
  /\ pc[p] = "waking"
  /\ scan[p] <= NPROC
  /\ scan' = [scan EXCEPT ![p] = @ + 1]
  /\ pc' = IF Awakened(p, scan[p]) THEN [pc EXCEPT ![scan[p]] = "woken"] ELSE pc
  /\ UNCHANGED <<binSemArray, nextsid, slot, arg, freed>>

\* Mutation: the loop of wakeup() stops before the last process.
bsem_up_return_early(p) ==
  /\ pc[p] = "waking"
  /\ scan[p] = NPROC
  /\ Return(p)
  /\ UNCHANGED <<binSemArray, nextsid, freed>>

bsem_up_return(p) ==
  /\ pc[p] = "waking"
  /\ scan[p] = NPROC + 1
  /\ Return(p)
  /\ UNCHANGED <<binSemArray, nextsid, freed>>

\* kill(pid, SIGKILL) makes a SLEEPING process RUNNABLE whatever it waits for.
kill(q) ==
  /\ pc[q] = "asleep"
  /\ pc' = [pc EXCEPT ![q] = "woken"]
  /\ UNCHANGED <<binSemArray, nextsid, slot, arg, scan, freed>>

Next ==
  \E p \in Procs :
    \/ bsem_alloc(p)
    \/ bsem_alloc_return(p)
    \/ \E id \in Ids : bsem_free(p, id)
    \/ \E id \in Ids : bsem_down(p, id)
    \/ bsem_down_retry(p)
    \/ \E id \in Ids : bsem_up(p, id)
    \/ wakeup_step(p)
    \/ bsem_up_return(p)
    \/ kill(p)

\* A process inside the kernel is scheduled until it leaves it.
Fairness ==
  \A p \in Procs :
    /\ WF_vars(bsem_alloc_return(p))
    /\ WF_vars(bsem_down_retry(p))
    /\ WF_vars(wakeup_step(p))
    /\ WF_vars(bsem_up_return(p))

Spec == Init /\ [][Next]_vars
FairSpec == Spec /\ Fairness
-----------------------------------------------------------------------------
TypeOK ==
  /\ binSemArray \in [Slots -> Semaphore]
  /\ nextsid \in 1..(MaxSid + 1)
  /\ pc \in [Procs -> Labels]
  /\ slot \in [Procs -> Slots]
  /\ arg \in [Procs -> Nat]
  /\ scan \in [Procs -> 1..(NPROC + 1)]
  /\ freed \in SUBSET Nat

(***************************************************************************)
(* Identifiers name slots: an identifier other than 0 is in at most one    *)
(* slot, an identifier that bsem_free has released is in none, and only    *)
(* slots in use have one.  The four loops stop at the first match, so they *)
(* act on the right semaphore only because of this.                        *)
(***************************************************************************)
IdsNameSlots ==
  /\ \A i, j \in Slots :
       binSemArray[i].id = binSemArray[j].id /\ binSemArray[i].id # 0 => i = j
  /\ \A i \in Slots :
       /\ binSemArray[i].is_used = 1 <=> binSemArray[i].id # 0
       /\ binSemArray[i].id # 0 => binSemArray[i].id \notin freed
       /\ binSemArray[i].id < nextsid
  /\ \A id \in freed : id < nextsid

(***************************************************************************)
(* A process in bsem_down or bsem_up on a semaphore that has not been      *)
(* freed works on that semaphore's slot: what it locks, sleeps on or wakes *)
(* after sleep() and release() is still what it was called for.  Likewise  *)
(* bsem_alloc returns the identifier it took, read after the release,      *)
(* unless that identifier was freed meanwhile.                             *)
(***************************************************************************)
SlotIsTheOneNamed ==
  \A p \in Procs :
    pc[p] \in {"alloc_ret", "asleep", "woken", "waking"} /\ arg[p] \notin freed
      => binSemArray[slot[p]].id = arg[p]

(***************************************************************************)
(* No wakeup is lost: a process asleep in bsem_down on a semaphore that is *)
(* not locked, and has not been freed, is about to be woken: some bsem_up  *)
(* is in wakeup() on that slot and has not yet passed that process.        *)
(***************************************************************************)
WakerComing(p) ==
  \E q \in Procs : q # p /\ pc[q] = "waking" /\ slot[q] = slot[p] /\ scan[q] <= p

NoLostWakeup ==
  \A p \in Procs :
    /\ pc[p] = "asleep"
    /\ binSemArray[slot[p]].is_locked = 0
    /\ arg[p] \notin freed
    => WakerComing(p)

(***************************************************************************)
(* A process asleep on an unlocked semaphore does not stay so: it is       *)
(* woken, or the semaphore is locked again or freed.                       *)
(***************************************************************************)
SleepersProgress ==
  \A p \in Procs :
    (pc[p] = "asleep" /\ binSemArray[slot[p]].is_locked = 0 /\ arg[p] \notin freed)
      ~> (pc[p] # "asleep" \/ binSemArray[slot[p]].is_locked = 1 \/ arg[p] \in freed)
=============================================================================
