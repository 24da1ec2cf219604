----------------------------- MODULE BsemProofs -----------------------------
(***************************************************************************)
(* Proofs about Bsem, for every number of processes, slots and             *)
(* identifiers.                                                            *)
(***************************************************************************)
EXTENDS Bsem, TLAPS

\* The inductive invariant.  The four parts support each other: NoLostWakeup
\* survives bsem_alloc and bsem_free because a sleeper's slot still holds the
\* identifier it was called with (SlotIsTheOneNamed), which in turn survives
\* bsem_alloc because slots not in use have identifier 0 (IdsNameSlots), and
\* 0 counts as freed.
ZeroIsFreed == 0 \in freed

IInv ==
  /\ TypeOK
  /\ ZeroIsFreed
  /\ IdsNameSlots
  /\ SlotIsTheOneNamed
  /\ NoLostWakeup

\* What the proof uses of the constants.
LEMMA ConstantFacts ==
  /\ NPROC \in Nat /\ NPROC >= 1
  /\ MAX_BSEM \in Nat /\ MAX_BSEM >= 1
  /\ MaxSid \in Nat /\ MaxSid >= 1
  /\ 1 \in Slots
BY NPROCAssumption, MAX_BSEMAssumption, MaxSidAssumption DEF Slots

\* Locking or unlocking a semaphore changes only is_locked.
LEMMA SetLockedFacts ==
  ASSUME NEW s \in Semaphore, NEW b \in {0, 1}
  PROVE  /\ SetLocked(s, b) \in Semaphore
         /\ SetLocked(s, b).id = s.id
         /\ SetLocked(s, b).is_used = s.is_used
         /\ SetLocked(s, b).is_locked = b
BY DEF SetLocked, Semaphore

\* All slots are free and no process is in a call at boot.
LEMMA InitIInv == Init => IInv
<1> SUFFICES ASSUME Init PROVE IInv
  OBVIOUS
<1> USE ConstantFacts DEF Init
<1>1. TypeOK
  BY DEF TypeOK, Semaphore, Labels, Slots, Procs
<1>2. ZeroIsFreed
  BY DEF ZeroIsFreed
<1>3. IdsNameSlots
  BY DEF IdsNameSlots
<1>4. SlotIsTheOneNamed
  BY DEF SlotIsTheOneNamed
<1>5. NoLostWakeup
  BY DEF NoLostWakeup
<1> QED
  BY <1>1, <1>2, <1>3, <1>4, <1>5 DEF IInv

\* The locals of a process that is back in user space are well typed.
LEMMA ReturnTypes ==
  ASSUME TypeOK, NEW p \in Procs, Return(p)
  PROVE  /\ pc' \in [Procs -> Labels]
         /\ slot' \in [Procs -> Slots]
         /\ arg' \in [Procs -> Nat]
         /\ scan' \in [Procs -> 1..(NPROC + 1)]
<1>1. 1 \in Slots /\ 1 \in 1..(NPROC + 1)
  BY ConstantFacts DEF Slots
<1> QED
  BY <1>1, SMTT(30) DEF TypeOK, Return, Labels

\* Every action keeps the variables in their types.
LEMMA TypeStep == TypeOK /\ [Next]_vars => TypeOK'
<1> SUFFICES ASSUME TypeOK, [Next]_vars PROVE TypeOK'
  OBVIOUS
<1> USE ConstantFacts DEF TypeOK
<1>1. ASSUME NEW p \in Procs, bsem_alloc(p) PROVE TypeOK'
  BY <1>1, SMTT(30) DEF bsem_alloc, Unused, Labels, Semaphore
<1>2. ASSUME NEW p \in Procs, bsem_alloc_return(p) PROVE TypeOK'
  BY <1>2, ReturnTypes DEF bsem_alloc_return
<1>3. ASSUME NEW p \in Procs, NEW id \in Ids, bsem_free(p, id) PROVE TypeOK'
  BY <1>3, SMTT(30) DEF bsem_free, WithId, Semaphore, Ids
<1>4. ASSUME NEW p \in Procs, NEW i \in Slots, NEW id \in Nat, TakeOrSleep(p, i, id),
             UNCHANGED <<nextsid, freed>>
      PROVE  TypeOK'
  <2>1. CASE binSemArray[i].is_locked = 1
    BY <1>4, <2>1 DEF TakeOrSleep, Labels
  <2>2. CASE binSemArray[i].is_locked = 0
    <3>1. binSemArray' \in [Slots -> Semaphore]
      BY <1>4, <2>2, SetLockedFacts DEF TakeOrSleep
    <3>2. Return(p)
      BY <1>4, <2>2 DEF TakeOrSleep
    <3> QED
      BY <1>4, <3>1, <3>2, ReturnTypes
  <2> QED
    BY <1>4, <2>1, <2>2 DEF TakeOrSleep
<1>5. ASSUME NEW p \in Procs, NEW id \in Ids, bsem_down(p, id) PROVE TypeOK'
  BY <1>4, <1>5 DEF bsem_down, WithId, Ids
<1>6. ASSUME NEW p \in Procs, bsem_down_retry(p) PROVE TypeOK'
  BY <1>4, <1>6 DEF bsem_down_retry
<1>7. ASSUME NEW p \in Procs, NEW id \in Ids, bsem_up(p, id) PROVE TypeOK'
  <2>1. PICK i \in Slots : /\ binSemArray' = [binSemArray EXCEPT ![i] = SetLocked(@, 0)]
                          /\ slot' = [slot EXCEPT ![p] = i]
    BY <1>7, Zenon DEF bsem_up, WithId
  <2>2. binSemArray' \in [Slots -> Semaphore]
    BY <2>1, SetLockedFacts
  <2>3. /\ slot' \in [Procs -> Slots]
        /\ arg' \in [Procs -> Nat]
    BY <1>7, <2>1, SMTT(30) DEF bsem_up, Ids
  <2>4. /\ pc' \in [Procs -> Labels]
        /\ scan' \in [Procs -> 1..(NPROC + 1)]
    BY <1>7, SMTT(30) DEF bsem_up, Labels
  <2> QED
    BY <1>7, <2>2, <2>3, <2>4 DEF bsem_up
<1>8. ASSUME NEW p \in Procs, wakeup_step(p) PROVE TypeOK'
  <2>1. scan' \in [Procs -> 1..(NPROC + 1)]
    BY <1>8, SMTT(30) DEF wakeup_step
  <2>2. scan[p] \in Procs
    BY <1>8 DEF wakeup_step, Procs
  <2>3. pc' \in [Procs -> Labels]
    BY <1>8, <2>2, SMTT(30) DEF wakeup_step, Labels
  <2> QED
    BY <1>8, <2>1, <2>3 DEF wakeup_step
<1>9. ASSUME NEW p \in Procs, bsem_up_return(p) PROVE TypeOK'
  BY <1>9, ReturnTypes DEF bsem_up_return
<1>10. ASSUME NEW p \in Procs, kill(p) PROVE TypeOK'
  BY <1>10 DEF kill, Labels
<1>11. CASE UNCHANGED vars
  BY <1>11 DEF vars
<1> QED
  BY <1>1, <1>2, <1>3, <1>5, <1>6, <1>7, <1>8, <1>9, <1>10, <1>11 DEF Next

\* How each action changes the table, seen through the fields.
LEMMA TakeOrSleepFields ==
  ASSUME TypeOK, NEW p \in Procs, NEW i \in Slots, NEW id, TakeOrSleep(p, i, id)
  PROVE  \A j \in Slots :
           /\ binSemArray'[j].id = binSemArray[j].id
           /\ binSemArray'[j].is_used = binSemArray[j].is_used
           /\ binSemArray[j].is_locked = 1 => binSemArray'[j].is_locked = 1
BY SetLockedFacts, SMTT(30) DEF TypeOK, TakeOrSleep

\* Identifiers keep naming slots: allocsid() hands out a new one, bsem_free
\* clears the one it releases, and nothing else writes an identifier.
LEMMA IdsNameSlotsStep ==
  ASSUME TypeOK, ZeroIsFreed, IdsNameSlots, [Next]_vars
  PROVE  ZeroIsFreed' /\ IdsNameSlots'
<1> USE ConstantFacts DEF TypeOK, ZeroIsFreed
<1> DEFINE Kept == /\ UNCHANGED <<nextsid, freed>>
                   /\ \A j \in Slots : /\ binSemArray'[j].id = binSemArray[j].id
                                        /\ binSemArray'[j].is_used = binSemArray[j].is_used
<1>0. ASSUME Kept PROVE ZeroIsFreed' /\ IdsNameSlots'
  BY <1>0 DEF IdsNameSlots
<1>1. ASSUME NEW p \in Procs, bsem_alloc(p) PROVE ZeroIsFreed' /\ IdsNameSlots'
  <2>1. PICK i \in Unused :
          binSemArray' = [binSemArray EXCEPT
            ![i] = [id |-> nextsid, is_locked |-> 0, is_used |-> 1]]
    BY <1>1, Zenon DEF bsem_alloc
  <2>2. /\ i \in Slots
        /\ binSemArray'[i].id = nextsid /\ binSemArray'[i].is_used = 1
        /\ \A j \in Slots \ {i} : binSemArray'[j] = binSemArray[j]
        /\ nextsid' = nextsid + 1 /\ freed' = freed
    BY <1>1, <2>1 DEF bsem_alloc, Unused
  <2>3. nextsid \in Nat /\ nextsid # 0
    BY DEF IdsNameSlots
  <2>4. \A j \in Slots : binSemArray[j].id \in Nat /\ binSemArray[j].id < nextsid
    BY DEF Semaphore, IdsNameSlots
  <2>5. \A j, k \in Slots : binSemArray'[j].id = binSemArray'[k].id
                             /\ binSemArray'[j].id # 0 => j = k
    BY <2>2, <2>3, <2>4 DEF IdsNameSlots
  <2>6. \A j \in Slots :
          /\ binSemArray'[j].is_used = 1 <=> binSemArray'[j].id # 0
          /\ binSemArray'[j].id # 0 => binSemArray'[j].id \notin freed'
          /\ binSemArray'[j].id < nextsid'
    BY <2>2, <2>3, <2>4 DEF IdsNameSlots
  <2>7. \A id \in freed' : id < nextsid'
    BY <2>2, <2>3 DEF IdsNameSlots
  <2> QED
    BY <2>2, <2>5, <2>6, <2>7, SMTT(30) DEF IdsNameSlots
<1>2. ASSUME NEW p \in Procs, bsem_alloc_return(p) PROVE Kept
  BY <1>2 DEF bsem_alloc_return
<1>3. ASSUME NEW p \in Procs, NEW id \in Ids, bsem_free(p, id)
      PROVE  ZeroIsFreed' /\ IdsNameSlots'
  <2>1. PICK i \in WithId(id) :
          binSemArray' = [binSemArray EXCEPT
            ![i] = [id |-> 0, is_locked |-> 0, is_used |-> 0]]
    BY <1>3, Zenon DEF bsem_free
  <2>2. /\ i \in Slots /\ binSemArray[i].id = id
        /\ binSemArray'[i].id = 0 /\ binSemArray'[i].is_used = 0
        /\ \A j \in Slots \ {i} : binSemArray'[j] = binSemArray[j]
        /\ nextsid' = nextsid /\ freed' = freed \union {id}
    BY <1>3, <2>1 DEF bsem_free, WithId
  <2>3. id < nextsid /\ nextsid \in Nat /\ 0 < nextsid
    BY <2>2 DEF IdsNameSlots
  <2>4. \A j, k \in Slots : binSemArray'[j].id = binSemArray'[k].id
                             /\ binSemArray'[j].id # 0 => j = k
    BY <2>2, SMTT(30) DEF IdsNameSlots
  <2>5. \A j \in Slots :
          /\ binSemArray'[j].is_used = 1 <=> binSemArray'[j].id # 0
          /\ binSemArray'[j].id # 0 => binSemArray'[j].id \notin freed'
          /\ binSemArray'[j].id < nextsid'
    BY <2>2, <2>3, SMTT(30) DEF IdsNameSlots
  <2>6. \A x \in freed' : x < nextsid'
    BY <2>2, <2>3 DEF IdsNameSlots
  <2> QED
    BY <2>2, <2>3, <2>4, <2>5, <2>6, SMTT(30) DEF IdsNameSlots
<1>5. ASSUME NEW p \in Procs, NEW id \in Ids, bsem_down(p, id) PROVE Kept
  BY <1>5, TakeOrSleepFields DEF bsem_down, WithId
<1>6. ASSUME NEW p \in Procs, bsem_down_retry(p) PROVE Kept
  BY <1>6, TakeOrSleepFields DEF bsem_down_retry
<1>7. ASSUME NEW p \in Procs, NEW id \in Ids, bsem_up(p, id) PROVE Kept
  BY <1>7, SetLockedFacts DEF bsem_up, WithId
<1>8. ASSUME NEW p \in Procs, wakeup_step(p) PROVE Kept
  BY <1>8 DEF wakeup_step
<1>9. ASSUME NEW p \in Procs, bsem_up_return(p) PROVE Kept
  BY <1>9 DEF bsem_up_return
<1>10. ASSUME NEW p \in Procs, kill(p) PROVE Kept
  BY <1>10 DEF kill
<1>11. CASE UNCHANGED vars
  BY <1>0, <1>11 DEF vars
<1> QED
  BY <1>0, <1>1, <1>2, <1>3, <1>5, <1>6, <1>7, <1>8, <1>9, <1>10, <1>11 DEF Next

\* A process keeps working on the semaphore it named, unless it is freed.
LEMMA SlotIsTheOneNamedStep ==
  ASSUME TypeOK, ZeroIsFreed, IdsNameSlots, SlotIsTheOneNamed, [Next]_vars
  PROVE  SlotIsTheOneNamed'
<1> USE ConstantFacts DEF TypeOK, ZeroIsFreed
<1>1. ASSUME NEW p \in Procs, bsem_alloc(p) PROVE SlotIsTheOneNamed'
  <2>1. PICK i \in Unused :
          /\ binSemArray' = [binSemArray EXCEPT
               ![i] = [id |-> nextsid, is_locked |-> 0, is_used |-> 1]]
          /\ slot' = [slot EXCEPT ![p] = i]
    BY <1>1, Zenon DEF bsem_alloc
  <2>2. /\ i \in Slots /\ binSemArray[i].id = 0
        /\ binSemArray'[i].id = nextsid
        /\ \A j \in Slots \ {i} : binSemArray'[j] = binSemArray[j]
    BY <2>1 DEF Unused, IdsNameSlots
  <2>3. /\ arg'[p] = nextsid /\ slot'[p] = i
        /\ \A q \in Procs \ {p} : /\ pc'[q] = pc[q]
                                   /\ arg'[q] = arg[q]
                                   /\ slot'[q] = slot[q]
        /\ freed' = freed
    BY <1>1, <2>1 DEF bsem_alloc
  <2> QED
    BY <2>2, <2>3 DEF SlotIsTheOneNamed
<1>2. ASSUME NEW p \in Procs, bsem_alloc_return(p) PROVE SlotIsTheOneNamed'
  BY <1>2 DEF bsem_alloc_return, Return, SlotIsTheOneNamed
<1>3. ASSUME NEW p \in Procs, NEW id \in Ids, bsem_free(p, id)
      PROVE  SlotIsTheOneNamed'
  <2>1. PICK i \in WithId(id) :
          binSemArray' = [binSemArray EXCEPT
            ![i] = [id |-> 0, is_locked |-> 0, is_used |-> 0]]
    BY <1>3, Zenon DEF bsem_free
  <2>2. /\ i \in Slots /\ binSemArray[i].id = id
        /\ \A j \in Slots \ {i} : binSemArray'[j] = binSemArray[j]
        /\ freed' = freed \union {id}
        /\ pc' = pc /\ slot' = slot /\ arg' = arg
    BY <1>3, <2>1 DEF bsem_free, WithId
  <2> QED
    BY <2>2 DEF SlotIsTheOneNamed
<1>4. ASSUME NEW p \in Procs, NEW i \in Slots, NEW id \in Nat, TakeOrSleep(p, i, id),
             binSemArray[i].id = id \/ id \in freed, freed' = freed
      PROVE  SlotIsTheOneNamed'
  <2>1. \A j \in Slots : binSemArray'[j].id = binSemArray[j].id
    BY <1>4, TakeOrSleepFields
  <2>2. \A q \in Procs \ {p} : pc'[q] = pc[q] /\ arg'[q] = arg[q] /\ slot'[q] = slot[q]
    BY <1>4 DEF TakeOrSleep, Return
  <2>3. pc'[p] = "user" \/ (arg'[p] = id /\ slot'[p] = i)
    BY <1>4 DEF TakeOrSleep, Return
  <2> QED
    BY <1>4, <2>1, <2>2, <2>3 DEF SlotIsTheOneNamed
<1>5. ASSUME NEW p \in Procs, NEW id \in Ids, bsem_down(p, id) PROVE SlotIsTheOneNamed'
  BY <1>4, <1>5 DEF bsem_down, WithId, Ids
<1>6. ASSUME NEW p \in Procs, bsem_down_retry(p) PROVE SlotIsTheOneNamed'
  BY <1>4, <1>6 DEF bsem_down_retry, SlotIsTheOneNamed
<1>7. ASSUME NEW p \in Procs, NEW id \in Ids, bsem_up(p, id) PROVE SlotIsTheOneNamed'
  <2>1. PICK i \in WithId(id) :
          /\ binSemArray' = [binSemArray EXCEPT ![i] = SetLocked(@, 0)]
          /\ slot' = [slot EXCEPT ![p] = i]
    BY <1>7, Zenon DEF bsem_up
  <2>2. \A j \in Slots : binSemArray'[j].id = binSemArray[j].id
    BY <2>1, SetLockedFacts DEF WithId
  <2> QED
    BY <1>7, <2>1, <2>2 DEF bsem_up, WithId, SlotIsTheOneNamed
<1>8. ASSUME NEW p \in Procs, wakeup_step(p) PROVE SlotIsTheOneNamed'
  BY <1>8 DEF wakeup_step, Awakened, SlotIsTheOneNamed
<1>9. ASSUME NEW p \in Procs, bsem_up_return(p) PROVE SlotIsTheOneNamed'
  BY <1>9 DEF bsem_up_return, Return, SlotIsTheOneNamed
<1>10. ASSUME NEW p \in Procs, kill(p) PROVE SlotIsTheOneNamed'
  BY <1>10 DEF kill, SlotIsTheOneNamed
<1>11. CASE UNCHANGED vars
  BY <1>11 DEF vars, SlotIsTheOneNamed
<1> QED
  BY <1>1, <1>2, <1>3, <1>5, <1>6, <1>7, <1>8, <1>9, <1>10, <1>11 DEF Next

\* A step that leaves the sleepers, the wakers and the locks of unlocked
\* semaphores alone leaves no new sleeper without a waker.
LEMMA NoLostWakeupFrame ==
  ASSUME NoLostWakeup, freed \subseteq freed',
         \A q \in Procs :
           pc'[q] = "asleep" /\ binSemArray'[slot'[q]].is_locked = 0 /\ arg'[q] \notin freed'
             => /\ pc[q] = "asleep" /\ slot'[q] = slot[q] /\ arg'[q] = arg[q]
                /\ binSemArray[slot[q]].is_locked = 0,
         \A q \in Procs : pc[q] = "waking" /\ scan[q] <= NPROC
             => pc'[q] = "waking" /\ slot'[q] = slot[q] /\ scan'[q] = scan[q],
         TypeOK
  PROVE  NoLostWakeup'
<1> SUFFICES ASSUME NEW q \in Procs, pc'[q] = "asleep",
                    binSemArray'[slot'[q]].is_locked = 0, arg'[q] \notin freed'
             PROVE  WakerComing(q)'
  BY DEF NoLostWakeup
<1>1. PICK w \in Procs : w # q /\ pc[w] = "waking" /\ slot[w] = slot[q] /\ scan[w] <= q
  BY DEF NoLostWakeup, WakerComing
<1>2. scan[w] <= NPROC
  BY <1>1, ConstantFacts, SMTT(30) DEF Procs, TypeOK
<1> QED
  BY <1>1, <1>2 DEF WakerComing

\* bsem_up starts a wakeup() for every process asleep on the slot it unlocks;
\* that loop passes a sleeper only by waking it.
LEMMA NoLostWakeupStep ==
  ASSUME TypeOK, ZeroIsFreed, IdsNameSlots, SlotIsTheOneNamed, NoLostWakeup, [Next]_vars
  PROVE  NoLostWakeup'
<1> USE ConstantFacts DEF ZeroIsFreed
<1>1. ASSUME NEW p \in Procs, bsem_alloc(p) PROVE NoLostWakeup'
  <2>1. PICK i \in Unused :
          /\ binSemArray' = [binSemArray EXCEPT
               ![i] = [id |-> nextsid, is_locked |-> 0, is_used |-> 1]]
          /\ slot' = [slot EXCEPT ![p] = i]
    BY <1>1, Zenon DEF bsem_alloc
  <2>2. /\ i \in Slots /\ binSemArray[i].id = 0
        /\ \A j \in Slots \ {i} : binSemArray'[j] = binSemArray[j]
    BY <2>1 DEF Unused, IdsNameSlots, TypeOK
  <2>3. /\ \A q \in Procs \ {p} : /\ pc'[q] = pc[q] /\ arg'[q] = arg[q]
                                   /\ slot'[q] = slot[q] /\ scan'[q] = scan[q]
        /\ pc[p] = "user" /\ pc'[p] = "alloc_ret" /\ freed' = freed
    BY <1>1, <2>1 DEF bsem_alloc, TypeOK
  <2>4. \A q \in Procs : pc[q] = "asleep" /\ arg[q] \notin freed => slot[q] # i
    BY <2>2 DEF SlotIsTheOneNamed
  <2> QED
    BY <2>2, <2>3, <2>4, NoLostWakeupFrame, SMTT(30) DEF TypeOK
<1>2. ASSUME NEW p \in Procs, bsem_alloc_return(p) PROVE NoLostWakeup'
  BY <1>2, NoLostWakeupFrame DEF bsem_alloc_return, Return, TypeOK
<1>3. ASSUME NEW p \in Procs, NEW id \in Ids, bsem_free(p, id) PROVE NoLostWakeup'
  <2>1. PICK i \in WithId(id) :
          binSemArray' = [binSemArray EXCEPT
            ![i] = [id |-> 0, is_locked |-> 0, is_used |-> 0]]
    BY <1>3, Zenon DEF bsem_free
  <2>2. /\ i \in Slots /\ binSemArray[i].id = id
        /\ \A j \in Slots \ {i} : binSemArray'[j] = binSemArray[j]
        /\ freed' = freed \union {id}
        /\ pc' = pc /\ slot' = slot /\ arg' = arg /\ scan' = scan
    BY <1>3, <2>1 DEF bsem_free, WithId, TypeOK
  <2>3. \A q \in Procs : pc[q] = "asleep" /\ arg[q] \notin freed' => slot[q] # i
    BY <2>2, SMTT(30) DEF SlotIsTheOneNamed
  <2> QED
    BY <2>2, <2>3, NoLostWakeupFrame DEF TypeOK
<1>4. ASSUME NEW p \in Procs, NEW i \in Slots, NEW id \in Nat, TakeOrSleep(p, i, id),
             freed' = freed, pc[p] # "waking"
      PROVE  NoLostWakeup'
  <2>1. \A j \in Slots : binSemArray[j].is_locked = 1 => binSemArray'[j].is_locked = 1
    BY <1>4, TakeOrSleepFields
  <2>2. \A q \in Procs \ {p} : /\ pc'[q] = pc[q] /\ arg'[q] = arg[q]
                               /\ slot'[q] = slot[q] /\ scan'[q] = scan[q]
    BY <1>4 DEF TakeOrSleep, Return, TypeOK
  <2>3. pc'[p] = "asleep" => slot'[p] = i /\ binSemArray[i].is_locked = 1
    BY <1>4 DEF TakeOrSleep, Return, TypeOK
  <2>4. \A j \in Slots : binSemArray[j].is_locked \in {0, 1}
    BY DEF TypeOK, Semaphore
  <2> QED
    BY <1>4, <2>1, <2>2, <2>3, <2>4, NoLostWakeupFrame DEF TypeOK
<1>5. ASSUME NEW p \in Procs, NEW id \in Ids, bsem_down(p, id) PROVE NoLostWakeup'
  BY <1>4, <1>5 DEF bsem_down, WithId, Ids
<1>6. ASSUME NEW p \in Procs, bsem_down_retry(p) PROVE NoLostWakeup'
  BY <1>4, <1>6 DEF bsem_down_retry, TypeOK
<1>7. ASSUME NEW p \in Procs, NEW id \in Ids, bsem_up(p, id) PROVE NoLostWakeup'
  <2>1. PICK i \in Slots :
          /\ binSemArray' = [binSemArray EXCEPT ![i] = SetLocked(@, 0)]
          /\ slot' = [slot EXCEPT ![p] = i]
    BY <1>7, Zenon DEF bsem_up, WithId
  <2>2. \A j \in Slots \ {i} : binSemArray'[j] = binSemArray[j]
    BY <2>1 DEF TypeOK
  <2>3. /\ pc[p] = "user" /\ pc'[p] = "waking" /\ slot'[p] = i /\ scan'[p] = 1
        /\ freed' = freed
        /\ \A q \in Procs \ {p} : /\ pc'[q] = pc[q] /\ arg'[q] = arg[q]
                                   /\ slot'[q] = slot[q] /\ scan'[q] = scan[q]
    BY <1>7, <2>1, SMTT(30) DEF bsem_up, TypeOK
  <2> SUFFICES ASSUME NEW q \in Procs, pc'[q] = "asleep",
                      binSemArray'[slot'[q]].is_locked = 0, arg'[q] \notin freed'
               PROVE  WakerComing(q)'
    BY DEF NoLostWakeup
  <2>4. q # p /\ slot[q] \in Slots /\ slot'[q] = slot[q]
    BY <2>3, SMTT(30) DEF TypeOK
  <2>5. CASE slot[q] = i
    BY <2>3, <2>4, <2>5, SMTT(30) DEF WakerComing, Procs
  <2>6. CASE slot[q] # i
    <3>1. PICK w \in Procs : w # q /\ pc[w] = "waking" /\ slot[w] = slot[q] /\ scan[w] <= q
      BY <2>2, <2>3, <2>4, <2>6 DEF NoLostWakeup, WakerComing
    <3> QED
      BY <2>3, <2>4, <3>1 DEF WakerComing
  <2> QED
    BY <2>5, <2>6
<1>8. ASSUME NEW p \in Procs, wakeup_step(p) PROVE NoLostWakeup'
  <2>1. /\ pc[p] = "waking" /\ pc'[p] = "waking"
        /\ scan[p] \in Procs /\ scan'[p] = scan[p] + 1
        /\ UNCHANGED <<binSemArray, slot, arg, freed>>
        /\ \A q \in Procs \ {p} : scan'[q] = scan[q]
        /\ \A q \in Procs : pc'[q] # pc[q] => q = scan[p] /\ pc[q] = "asleep" /\ pc'[q] = "woken"
        /\ Awakened(p, scan[p]) => pc'[scan[p]] = "woken"
    BY <1>8 DEF wakeup_step, Awakened, TypeOK, Procs
  <2> SUFFICES ASSUME NEW q \in Procs, pc'[q] = "asleep",
                      binSemArray'[slot'[q]].is_locked = 0, arg'[q] \notin freed'
               PROVE  WakerComing(q)'
    BY DEF NoLostWakeup
  <2>2. pc[q] = "asleep"
    BY <2>1
  <2>3. PICK w \in Procs : w # q /\ pc[w] = "waking" /\ slot[w] = slot[q] /\ scan[w] <= q
    BY <2>1, <2>2 DEF NoLostWakeup, WakerComing
  <2>4. pc'[w] = "waking"
    BY <2>1, <2>3
  <2>5. CASE w = p
    <3>1. scan[p] # q
      BY <2>1, <2>2, <2>3, <2>5 DEF Awakened
    <3>2. scan[p] + 1 <= q
      BY <2>1, <2>3, <2>5, <3>1 DEF Procs
    <3> QED
      BY <2>1, <2>3, <2>4, <2>5, <3>2, SMTT(30) DEF WakerComing
  <2>6. CASE w # p
    BY <2>1, <2>3, <2>4, <2>6 DEF WakerComing
  <2> QED
    BY <2>5, <2>6
<1>9. ASSUME NEW p \in Procs, bsem_up_return(p) PROVE NoLostWakeup'
  <2>1. scan[p] = NPROC + 1
    BY <1>9 DEF bsem_up_return
  <2>2. ~(scan[p] <= NPROC)
    BY <2>1
  <2> QED
    BY <1>9, <2>2, NoLostWakeupFrame DEF bsem_up_return, Return, TypeOK
<1>10. ASSUME NEW p \in Procs, kill(p) PROVE NoLostWakeup'
  BY <1>10, NoLostWakeupFrame, SMTT(30) DEF kill, TypeOK
<1>11. CASE UNCHANGED vars
  BY <1>11, NoLostWakeupFrame DEF vars
<1> QED
  BY <1>1, <1>2, <1>3, <1>5, <1>6, <1>7, <1>8, <1>9, <1>10, <1>11 DEF Next
-----------------------------------------------------------------------------
\* The conjunction is preserved by every step of the semaphore code.
THEOREM IInvariant == Spec => []IInv
<1>1. IInv /\ [Next]_vars => IInv'
  BY TypeStep, IdsNameSlotsStep, SlotIsTheOneNamedStep, NoLostWakeupStep DEF IInv
<1> QED
  BY InitIInv, <1>1, PTL DEF Spec

\* Every variable of the semaphore code keeps its type.
THEOREM TypeCorrect == Spec => []TypeOK
<1>1. IInv => TypeOK
  BY DEF IInv
<1> QED
  BY IInvariant, <1>1, PTL

\* An identifier names at most one slot, and none once bsem_free released it.
THEOREM IdsNameSlotsCorrect == Spec => []IdsNameSlots
<1>1. IInv => IdsNameSlots
  BY DEF IInv
<1> QED
  BY IInvariant, <1>1, PTL

\* After sleep() or release() a call still works on the semaphore it named.
THEOREM SlotIsTheOneNamedCorrect == Spec => []SlotIsTheOneNamed
<1>1. IInv => SlotIsTheOneNamed
  BY DEF IInv
<1> QED
  BY IInvariant, <1>1, PTL

\* bsem_up's wakeup() after the release of bsem_lock misses no sleeper.
THEOREM NoLostWakeupCorrect == Spec => []NoLostWakeup
<1>1. IInv => NoLostWakeup
  BY DEF IInv
<1> QED
  BY IInvariant, <1>1, PTL
=============================================================================
