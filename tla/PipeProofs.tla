----------------------------- MODULE PipeProofs -----------------------------
(***************************************************************************)
(* Proofs about Pipe, for every number of processes and every sharing of   *)
(* its ends, every PIPESIZE and every width of the counters.               *)
(***************************************************************************)
EXTENDS Pipe, SequenceTheorems, TLAPS

Labels == {"user", "close_read", "close_write"} \union Writing \union Reading

TypeOK ==
  /\ data \in [0..(PIPESIZE - 1) -> Bytes]
  /\ nread \in 0..(UintSize - 1)
  /\ nwrite \in 0..(UintSize - 1)
  /\ readopen \in BOOLEAN
  /\ writeopen \in BOOLEAN
  /\ freed \in BOOLEAN
  /\ lock \in Procs \union {NoProc}
  /\ held \in [Procs -> SUBSET Ends]
  /\ killed \in [Procs -> BOOLEAN]
  /\ pc \in [Procs -> Labels]
  /\ i \in [Procs -> Nat]
  /\ n \in [Procs -> Nat]
  /\ ch \in Bytes

\* pi->lock is held by exactly the process that is in a critical section.
LockHeld ==
  \A p \in Procs : lock = p <=> pc[p] \in {"wloop", "wfull", "rloop", "rempty", "rcopy"}

\* A process inside a call has that end open.
Inside ==
  \A p \in Procs :
    /\ pc[p] \in Writing => "write" \in held[p]
    /\ pc[p] \in Reading => "read" \in held[p]

\* An end is open as long as somebody holds it or is about to close it, and
\* whoever closes it is the only one left.
EndsCounted ==
  \A p \in Procs :
    /\ "read" \in held[p] \/ pc[p] = "close_read" => readopen
    /\ "write" \in held[p] \/ pc[p] = "close_write" => writeopen
    /\ \A q \in Procs :
         /\ pc[p] = "close_read" => "read" \notin held[q] /\ (pc[q] = "close_read" => q = p)
         /\ pc[p] = "close_write" => "write" \notin held[q] /\ (pc[q] = "close_write" => q = p)

FreedLast == freed => ~readopen /\ ~writeopen

SafeInv == TypeOK /\ LockHeld /\ Inside /\ EndsCounted /\ FreedLast

-----------------------------------------------------------------------------
\* What the assumptions of Pipe say of the constants.
LEMMA ConstantFacts ==
  /\ PIPESIZE \in Nat /\ UintSize \in Nat /\ 0 < PIPESIZE /\ PIPESIZE < UintSize
  /\ InitHeld \in [Procs -> SUBSET Ends]
  /\ NoProc \notin Procs
BY InitHeldAssumption, PIPESIZEAssumption, UintSizeAssumption, ProcsAssumption DEF Ends

\* The two sizes alone, for steps that are only arithmetic.
LEMMA SizeFacts ==
  PIPESIZE \in Nat \ {0} /\ UintSize \in Nat \ {0} /\ PIPESIZE < UintSize
BY ConstantFacts

\* A new pipe: both ends open, nobody inside.
LEMMA InitSafe == Init => SafeInv
<1> SUFFICES ASSUME Init PROVE SafeInv
  OBVIOUS
<1>1. TypeOK
  <2>1. data \in [0..(PIPESIZE - 1) -> Bytes] /\ ch \in Bytes
    BY DEF Init
  <2>2. nread \in 0..(UintSize - 1) /\ nwrite \in 0..(UintSize - 1)
    BY ConstantFacts DEF Init
  <2>3. readopen \in BOOLEAN /\ writeopen \in BOOLEAN /\ freed \in BOOLEAN
    BY Zenon DEF Init
  <2>4. killed \in [Procs -> BOOLEAN]
    BY Zenon DEF Init
  <2>5. held \in [Procs -> SUBSET Ends] /\ lock \in Procs \union {NoProc}
    BY ConstantFacts, Zenon DEF Init
  <2>6. pc \in [Procs -> Labels] /\ i \in [Procs -> Nat] /\ n \in [Procs -> Nat]
    BY DEF Init, Labels
  <2> QED
    BY <2>1, <2>2, <2>3, <2>4, <2>5, <2>6 DEF TypeOK
<1>2. LockHeld
  BY ConstantFacts DEF Init, LockHeld
<1>3. Inside /\ EndsCounted /\ FreedLast
  BY DEF Init, Inside, EndsCounted, FreedLast, Writing, Reading
<1> QED
  BY <1>1, <1>2, <1>3 DEF SafeInv

\* Every way of moving pc keeps it well typed.
LEMMA MoveTypes ==
  ASSUME TypeOK, NEW p \in Procs, NEW l \in Labels,
         Goto(p, l) \/ WakeReaders(p, l) \/ WakeWriters(p, l)
  PROVE  pc' \in [Procs -> Labels]
<1>1. CASE Goto(p, l)
  BY <1>1 DEF TypeOK, Goto
<1>2. CASE WakeReaders(p, l)
  BY <1>2 DEF TypeOK, WakeReaders, Labels, Reading
<1>3. CASE WakeWriters(p, l)
  BY <1>3 DEF TypeOK, WakeWriters, Labels, Writing
<1> QED
  BY <1>1, <1>2, <1>3

\* Dropping the lock and returning keeps the local variables in their types.
LEMMA DropTypes ==
  ASSUME TypeOK, NEW p \in Procs, Drop(p)
  PROVE  /\ lock' \in Procs \union {NoProc}
         /\ i' \in [Procs -> Nat]
         /\ n' \in [Procs -> Nat]
BY DEF TypeOK, Drop

\* The labels, one by one.
LEMMA LabelFacts ==
  {"user", "close_read", "close_write", "wloop", "wfull", "wsleep", "wwoken",
   "rloop", "rempty", "rsleep", "rwoken", "rcopy"} \subseteq Labels
BY DEF Labels, Writing, Reading

\* nwrite++ and nread++ on unsigned int.
LEMMA CounterTypes ==
  ASSUME NEW c \in 0..(UintSize - 1)
  PROVE  (c + 1) % UintSize \in 0..(UintSize - 1)
BY ConstantFacts

\* A counter modulo PIPESIZE is an index of data[].
LEMMA IndexTypes ==
  ASSUME NEW c \in 0..(UintSize - 1)
  PROVE  c % PIPESIZE \in 0..(PIPESIZE - 1)
BY ConstantFacts

\* Every action keeps the variables in their types.
LEMMA TypeStep == TypeOK /\ [Next]_vars => TypeOK'
<1> SUFFICES ASSUME TypeOK, [Next]_vars PROVE TypeOK'
  OBVIOUS
<1> USE LabelFacts
<1>1. ASSUME NEW p \in Procs, kill(p) PROVE TypeOK'
  <2>1. killed' \in [Procs -> BOOLEAN]
    BY <1>1, Zenon DEF kill, TypeOK
  <2>2. pc' \in [Procs -> Labels]
    BY <1>1 DEF kill, TypeOK, Goto
  <2> QED
    BY <1>1, <2>1, <2>2, Zenon DEF kill, TypeOK, pipevars
<1>2. ASSUME NEW p \in Procs, NEW m \in 1..MaxN, pipewrite(p, m) \/ piperead(p, m) PROVE TypeOK'
  <2>1. pc' \in [Procs -> Labels]
    BY <1>2, MoveTypes DEF pipewrite, piperead
  <2>2. n' \in [Procs -> Nat]
    BY <1>2, MaxNAssumption DEF pipewrite, piperead, TypeOK
  <2> QED
    BY <1>2, <2>1, <2>2, Zenon DEF pipewrite, piperead, TypeOK, pipevars
<1>3. ASSUME NEW p \in Procs, pipewrite_awake(p) \/ piperead_awake(p) PROVE TypeOK'
  <2>1. pc' \in [Procs -> Labels]
    BY <1>3, MoveTypes DEF pipewrite_awake, piperead_awake
  <2> QED
    BY <1>3, <2>1, Zenon DEF pipewrite_awake, piperead_awake, TypeOK, pipevars
<1>4. ASSUME NEW p \in Procs,
             pipewrite_fails(p) \/ pipewrite_return(p) \/ piperead_fails(p) \/ piperead_return(p)
      PROVE  TypeOK'
  <2>1. pc' \in [Procs -> Labels]
    BY <1>4, MoveTypes DEF pipewrite_fails, pipewrite_return, piperead_fails, piperead_return
  <2>2. Drop(p) /\ UNCHANGED <<pipevars, held, killed, ch>>
    BY <1>4, Zenon DEF pipewrite_fails, pipewrite_return, piperead_fails, piperead_return
  <2> QED
    BY <2>1, <2>2, DropTypes, Zenon DEF TypeOK, pipevars
<1>5. ASSUME NEW p \in Procs,
             pipewrite_full(p) \/ pipewrite_sleep(p) \/ piperead_empty(p) \/ piperead_sleep(p)
               \/ piperead_ready(p)
      PROVE  TypeOK'
  <2>1. pc' \in [Procs -> Labels]
    BY <1>5, MoveTypes
    DEF pipewrite_full, pipewrite_sleep, piperead_empty, piperead_sleep, piperead_ready
  <2>2. (lock' = NoProc \/ lock' = lock) /\ UNCHANGED <<pipevars, held, killed, i, n, ch>>
    BY <1>5, Zenon
    DEF pipewrite_full, pipewrite_sleep, piperead_empty, piperead_sleep, piperead_ready
  <2> QED
    BY <2>1, <2>2, Zenon DEF TypeOK, pipevars
<1>6. ASSUME NEW p \in Procs, NEW b \in Bytes, pipewrite_byte(p, b) PROVE TypeOK'
  <2>1. nwrite' \in 0..(UintSize - 1)
    BY <1>6, CounterTypes DEF pipewrite_byte, TypeOK
  <2>2. data' \in [0..(PIPESIZE - 1) -> Bytes]
    BY <1>6, IndexTypes DEF pipewrite_byte, TypeOK
  <2>3. i' \in [Procs -> Nat]
    BY <1>6 DEF pipewrite_byte, TypeOK
  <2> QED
    BY <1>6, <2>1, <2>2, <2>3, Zenon DEF pipewrite_byte, TypeOK
<1>7. ASSUME NEW p \in Procs, piperead_byte(p) \/ piperead_copyout_fails(p) PROVE TypeOK'
  <2>1. nread' \in 0..(UintSize - 1) /\ ch' \in Bytes
    BY <1>7, CounterTypes, IndexTypes
    DEF piperead_byte, piperead_copyout_fails, TakeByte, TypeOK
  <2>2. i' \in [Procs -> Nat] /\ n' \in [Procs -> Nat] /\ lock' \in Procs \union {NoProc}
    BY <1>7, DropTypes, SMTT(30) DEF piperead_byte, piperead_copyout_fails, TypeOK
  <2>3. pc' \in [Procs -> Labels]
    BY <1>7, MoveTypes DEF piperead_byte, piperead_copyout_fails, TypeOK
  <2> QED
    BY <1>7, <2>1, <2>2, <2>3, Zenon DEF piperead_byte, piperead_copyout_fails, TypeOK
<1>8. ASSUME NEW p \in Procs, NEW e \in Ends, fileclose(p, e) PROVE TypeOK'
  <2>1. held' \in [Procs -> SUBSET Ends]
    BY <1>8 DEF fileclose, TypeOK
  <2>2. pc' \in [Procs -> Labels]
    BY <1>8, MoveTypes DEF fileclose
  <2> QED
    BY <1>8, <2>1, <2>2, Zenon DEF fileclose, TypeOK, pipevars
<1>9. ASSUME NEW p \in Procs, pipeclose(p) PROVE TypeOK'
  <2>1. pc' \in [Procs -> Labels]
    BY <1>9, MoveTypes DEF pipeclose
  <2>2. readopen' \in BOOLEAN /\ writeopen' \in BOOLEAN
    BY <1>9, Zenon DEF pipeclose, TypeOK
  <2>3. freed' \in BOOLEAN
    BY <1>9, Zenon DEF pipeclose
  <2> QED
    BY <1>9, <2>1, <2>2, <2>3, Zenon DEF pipeclose, TypeOK
<1>10. CASE UNCHANGED vars
  BY <1>10, Zenon DEF vars, pipevars, TypeOK
<1> QED
  BY <1>1, <1>2, <1>3, <1>4, <1>5, <1>6, <1>7, <1>8, <1>9, <1>10 DEF Next

\* pi->lock is passed on as the labels say.
LEMMA LockStep == TypeOK /\ LockHeld /\ [Next]_vars => LockHeld'
<1> SUFFICES ASSUME TypeOK, LockHeld, [Next]_vars PROVE LockHeld'
  OBVIOUS
<1> USE ConstantFacts DEF TypeOK, LockHeld, Goto
<1>1. ASSUME NEW p \in Procs, kill(p) PROVE LockHeld'
  BY <1>1 DEF kill
<1>2. ASSUME NEW p \in Procs, NEW m \in 1..MaxN, pipewrite(p, m) \/ piperead(p, m) PROVE LockHeld'
  BY <1>2 DEF pipewrite, piperead
<1>3. ASSUME NEW p \in Procs, pipewrite_awake(p) \/ piperead_awake(p) PROVE LockHeld'
  BY <1>3 DEF pipewrite_awake, piperead_awake
<1>4. ASSUME NEW p \in Procs,
             pipewrite_fails(p) \/ pipewrite_return(p) \/ piperead_fails(p) \/ piperead_return(p)
      PROVE  LockHeld'
  <2>1. lock = p /\ lock' = NoProc
    BY <1>4 DEF pipewrite_fails, pipewrite_return, piperead_fails, piperead_return, Holds, Drop
  <2>2. Goto(p, "user") \/ WakeReaders(p, "user") \/ WakeWriters(p, "user")
    BY <1>4, Zenon DEF pipewrite_fails, pipewrite_return, piperead_fails, piperead_return
  <2> QED
    BY <2>1, <2>2 DEF WakeReaders, WakeWriters
<1>5. ASSUME NEW p \in Procs,
             pipewrite_full(p) \/ pipewrite_sleep(p) \/ piperead_empty(p) \/ piperead_sleep(p)
               \/ piperead_ready(p)
      PROVE  LockHeld'
  BY <1>5 DEF pipewrite_full, pipewrite_sleep, piperead_empty, piperead_sleep, piperead_ready,
    Holds, WakeReaders
<1>6. ASSUME NEW p \in Procs, NEW b \in Bytes, pipewrite_byte(p, b) PROVE LockHeld'
  BY <1>6 DEF pipewrite_byte
<1>7. ASSUME NEW p \in Procs, piperead_byte(p) \/ piperead_copyout_fails(p) PROVE LockHeld'
  BY <1>7 DEF piperead_byte, piperead_copyout_fails, Holds, Drop, WakeWriters
<1>8. ASSUME NEW p \in Procs, NEW e \in Ends, fileclose(p, e) PROVE LockHeld'
  BY <1>8 DEF fileclose
<1>9. ASSUME NEW p \in Procs, pipeclose(p) PROVE LockHeld'
  BY <1>9, ZenonT(30) DEF pipeclose, WakeReaders, WakeWriters
<1>10. CASE UNCHANGED vars
  BY <1>10 DEF vars
<1> QED
  BY <1>1, <1>2, <1>3, <1>4, <1>5, <1>6, <1>7, <1>8, <1>9, <1>10 DEF Next

\* A step that closes nothing leaves who holds which end, and moves processes
\* between labels of the same call, or into a call with an end they hold.
LEMMA OpenStep ==
  ASSUME TypeOK, Inside, EndsCounted, FreedLast, pc' \in [Procs -> Labels],
         UNCHANGED <<held, readopen, writeopen, freed>>,
         \A p \in Procs :
           \/ pc'[p] = pc[p]
           \/ pc'[p] = "user"
           \/ pc'[p] \in Writing /\ "write" \in held[p]
           \/ pc'[p] \in Reading /\ "read" \in held[p]
  PROVE  Inside' /\ EndsCounted' /\ FreedLast'
<1>1. Inside'
  BY DEF TypeOK, Inside, Writing, Reading
<1>2. \A p \in Procs : /\ pc'[p] = "close_read" => pc[p] = "close_read"
                       /\ pc'[p] = "close_write" => pc[p] = "close_write"
  BY DEF Writing, Reading
<1>3. EndsCounted'
  BY <1>2 DEF TypeOK, EndsCounted
<1> QED
  BY <1>1, <1>3 DEF FreedLast

\* Who is inside, who holds which end, and what is open, agree.
LEMMA EndsStep ==
  TypeOK /\ Inside /\ EndsCounted /\ FreedLast /\ [Next]_vars => Inside' /\ EndsCounted' /\ FreedLast'
<1> SUFFICES ASSUME TypeOK, Inside, EndsCounted, FreedLast, [Next]_vars
             PROVE  Inside' /\ EndsCounted' /\ FreedLast'
  OBVIOUS
<1>0. pc' \in [Procs -> Labels] /\ TypeOK'
  BY TypeStep, SMTT(30) DEF TypeOK
<1> DEFINE Fine == Inside' /\ EndsCounted' /\ FreedLast'
<1>1. ASSUME NEW p \in Procs, kill(p) PROVE Fine
  BY <1>0, <1>1, OpenStep DEF kill, Goto, Inside, Writing, Reading, TypeOK, pipevars
<1>2. ASSUME NEW p \in Procs, NEW m \in 1..MaxN, pipewrite(p, m) \/ piperead(p, m) PROVE Fine
  BY <1>0, <1>2, OpenStep DEF pipewrite, piperead, Goto, Writing, Reading, TypeOK, pipevars
<1>3. ASSUME NEW p \in Procs, pipewrite_awake(p) \/ piperead_awake(p) PROVE Fine
  BY <1>0, <1>3, OpenStep
  DEF pipewrite_awake, piperead_awake, Goto, Inside, Writing, Reading, TypeOK, pipevars
<1>4. ASSUME NEW p \in Procs,
             pipewrite_fails(p) \/ pipewrite_return(p) \/ piperead_fails(p) \/ piperead_return(p)
      PROVE  Fine
  BY <1>0, <1>4, OpenStep
  DEF pipewrite_fails, pipewrite_return, piperead_fails, piperead_return, Goto,
    WakeReaders, WakeWriters, Inside, Writing, Reading, TypeOK, pipevars
<1>5. ASSUME NEW p \in Procs,
             pipewrite_full(p) \/ pipewrite_sleep(p) \/ piperead_empty(p) \/ piperead_sleep(p)
               \/ piperead_ready(p)
      PROVE  Fine
  BY <1>0, <1>5, OpenStep
  DEF pipewrite_full, pipewrite_sleep, piperead_empty, piperead_sleep, piperead_ready, Goto,
    Holds, WakeReaders, Inside, Writing, Reading, TypeOK, pipevars
<1>6. ASSUME NEW p \in Procs, NEW b \in Bytes, pipewrite_byte(p, b) PROVE Fine
  BY <1>0, <1>6, OpenStep DEF pipewrite_byte
<1>7. ASSUME NEW p \in Procs, piperead_byte(p) \/ piperead_copyout_fails(p) PROVE Fine
  BY <1>0, <1>7, OpenStep, SMTT(30)
  DEF piperead_byte, piperead_copyout_fails, WakeWriters, Inside, Writing, Reading, TypeOK
<1>8. ASSUME NEW p \in Procs, NEW e \in Ends, fileclose(p, e) PROVE Fine
  <2>1. /\ held' = [held EXCEPT ![p] = held[p] \ {e}]
        /\ pc[p] = "user" /\ e \in held[p]
        /\ \A q \in Procs : q # p => pc'[q] = pc[q] /\ held'[q] = held[q]
        /\ held'[p] = held[p] \ {e}
        /\ UNCHANGED <<readopen, writeopen, freed>>
    BY <1>8 DEF fileclose, Goto, TypeOK, pipevars
  <2>2. \/ pc'[p] = "user"
        \/ e = "read" /\ pc'[p] = "close_read" /\ \A q \in Procs : "read" \notin held'[q]
        \/ e = "write" /\ pc'[p] = "close_write" /\ \A q \in Procs : "write" \notin held'[q]
    BY <1>8, <2>1 DEF fileclose, Goto, TypeOK, Ends
  <2>3. Inside'
    BY <2>1, <2>2 DEF Inside, Writing, Reading, TypeOK
  <2>4. EndsCounted'
    BY <2>1, <2>2, SMTT(30) DEF EndsCounted, TypeOK, Ends
  <2> QED
    BY <2>1, <2>3, <2>4 DEF FreedLast
<1>9. ASSUME NEW p \in Procs, pipeclose(p) PROVE Fine
  <2>0. /\ WakeReaders(p, "user") \/ WakeWriters(p, "user")
        /\ held' = held
    BY <1>9, Zenon DEF pipeclose
  <2>1. /\ \A q \in Procs : q # p => \/ pc'[q] = pc[q]
                                     \/ pc[q] = "rsleep" /\ pc'[q] = "rwoken"
                                     \/ pc[q] = "wsleep" /\ pc'[q] = "wwoken"
        /\ pc'[p] = "user"
        /\ held' = held
    BY <2>0 DEF WakeReaders, WakeWriters
  <2>2. \/ pc[p] = "close_read" /\ readopen' = FALSE /\ writeopen' = writeopen
        \/ pc[p] = "close_write" /\ writeopen' = FALSE /\ readopen' = readopen
    BY <1>9 DEF pipeclose
  <2>3. Inside'
    BY <2>1 DEF Inside, Writing, Reading, TypeOK
  <2>4. EndsCounted'
    <3>1. \A q \in Procs : /\ pc'[q] = "close_read" => pc[q] = "close_read" /\ q # p
                           /\ pc'[q] = "close_write" => pc[q] = "close_write" /\ q # p
      BY <2>1
    <3>2. CASE pc[p] = "close_read" /\ readopen' = FALSE /\ writeopen' = writeopen
      BY <2>1, <3>1, <3>2 DEF EndsCounted
    <3>3. CASE pc[p] = "close_write" /\ writeopen' = FALSE /\ readopen' = readopen
      BY <2>1, <3>1, <3>3 DEF EndsCounted
    <3> QED
      BY <2>2, <3>2, <3>3, Zenon
  <2>5. FreedLast'
    BY <1>9, Zenon DEF FreedLast, pipeclose
  <2> QED
    BY <2>3, <2>4, <2>5
<1>10. CASE UNCHANGED vars
  BY <1>10 DEF vars, pipevars, Inside, EndsCounted, FreedLast
<1> QED
  BY <1>1, <1>2, <1>3, <1>4, <1>5, <1>6, <1>7, <1>8, <1>9, <1>10 DEF Next

\* The inductive invariant holds of every behaviour.
THEOREM Safe == Spec => []SafeInv
<1>1. SafeInv /\ [Next]_vars => SafeInv'
  BY TypeStep, LockStep, EndsStep DEF SafeInv
<1> QED
  BY InitSafe, <1>1, PTL DEF Spec

\* pipeclose() frees the page only when nobody has an end open or is inside
\* a call: whoever is inside holds an end, and an end that is held is open.
THEOREM NoUseAfterFreeCorrect == Spec => []NoUseAfterFree
<1>1. SafeInv => NoUseAfterFree
  BY ZenonT(30) DEF SafeInv, TypeOK, Inside, EndsCounted, FreedLast, NoUseAfterFree, Labels,
     Writing, Reading, Ends
<1> QED
  BY Safe, <1>1, PTL
-----------------------------------------------------------------------------
(***************************************************************************)
(* What the proofs need of %, for any modulus.                             *)
(***************************************************************************)
LEMMA ModSmall ==
  ASSUME NEW u \in Nat, NEW x \in 0..(u - 1)
  PROVE  x % u = x
OBVIOUS

\* One subtraction wraps a number below twice the modulus.
LEMMA ModWrap ==
  ASSUME NEW u \in Nat, NEW x \in u..(2 * u - 1)
  PROVE  x % u = x - u
OBVIOUS

\* The remainder is determined by the quotient.
LEMMA ModUnique ==
  ASSUME NEW u \in Nat \ {0}, NEW q \in Nat, NEW r \in 0..(u - 1)
  PROVE  (u * q + r) % u = r
OBVIOUS

\* Every number has a quotient and a remainder.
LEMMA ModSplit ==
  ASSUME NEW u \in Nat \ {0}, NEW x \in Nat
  PROVE  \E q \in Nat : \E r \in 0..(u - 1) : x = u * q + r /\ x % u = r
<1>1. PICK q \in Nat : q = x \div u
  OBVIOUS
<1>2. PICK r \in 0..(u - 1) : r = x % u
  OBVIOUS
<1>3. x % u = x - u * q
  BY <1>1
<1>4. r = x - u * q
  BY <1>2, <1>3
<1>5. x = u * q + r
  BY <1>4
<1> QED
  BY <1>2, <1>5, SMTT(30)

\* A multiple of the modulus makes no difference.
LEMMA ModAddMultiple ==
  ASSUME NEW u \in Nat \ {0}, NEW x \in Nat, NEW c \in Nat
  PROVE  (x + u * c) % u = x % u
<1>1. PICK q \in Nat, r \in 0..(u - 1) : x = u * q + r /\ x % u = r
  BY ModSplit, Zenon
<1>2. q + c \in Nat /\ x + u * c = u * (q + c) + r
  BY <1>1
<1> QED
  BY <1>1, <1>2, ModUnique

\* Two numbers that are less than the modulus apart have different remainders.
LEMMA ModDistinct ==
  ASSUME NEW u \in Nat \ {0}, NEW x \in Nat, NEW d \in 1..(u - 1)
  PROVE  (x + d) % u # x % u
<1>1. PICK q \in Nat, r \in 0..(u - 1) : x = u * q + r /\ x % u = r
  BY ModSplit, Zenon
<1>2. CASE r + d < u
  <2>1. r + d \in 0..(u - 1) /\ x + d = u * q + (r + d)
    BY <1>1, <1>2
  <2>2. (x + d) % u = r + d
    BY <2>1, ModUnique, Zenon
  <2> QED
   BY <1>1, <2>2
<1>3. CASE r + d >= u
  <2>1. r + d - u \in 0..(u - 1) /\ q + 1 \in Nat /\ x + d = u * (q + 1) + (r + d - u)
    BY <1>1, <1>3
  <2>2. (x + d) % u = r + d - u
    BY <2>1, ModUnique, Zenon
  <2> QED
   BY <1>1, <2>2
<1> QED
  BY <1>2, <1>3

-----------------------------------------------------------------------------
(***************************************************************************)
(* nread, nwrite and the number of bytes between them.                     *)
(***************************************************************************)

\* An index into pi->data is not changed by UintSize, a multiple of PIPESIZE.
LEMMA IndexWrap ==
  ASSUME NEW x \in Nat
  PROVE  (x + UintSize) % PIPESIZE = x % PIPESIZE
<1>1. PICK c \in Nat, r \in 0..(PIPESIZE - 1) :
        UintSize = PIPESIZE * c + r /\ UintSize % PIPESIZE = r
  BY SizeFacts, ModSplit, Zenon
<1>2. UintSize % PIPESIZE = 0
  BY UintSizeAssumption
<1>3. UintSize = PIPESIZE * c
  BY <1>1, <1>2, SizeFacts
<1>4. (x + PIPESIZE * c) % PIPESIZE = x % PIPESIZE
  BY ModAddMultiple, SizeFacts, Zenon
<1> QED
  BY <1>3, <1>4

\* Incrementing a counter.
LEMMA Incremented ==
  ASSUME NEW c \in 0..(UintSize - 1)
  PROVE  (c + 1) % UintSize = IF c + 1 = UintSize THEN 0 ELSE c + 1
<1>1. CASE c + 1 = UintSize
  BY <1>1, SizeFacts
<1>2. CASE c + 1 < UintSize
  BY <1>2, SizeFacts
<1> QED
  BY <1>1, <1>2, SizeFacts

\* The difference of two counters.
LEMMA Difference ==
  ASSUME NEW r \in 0..(UintSize - 1), NEW w \in 0..(UintSize - 1)
  PROVE  (w + UintSize - r) % UintSize = IF r <= w THEN w - r ELSE w + UintSize - r
<1>1. CASE r <= w
  <2>1. w + UintSize - r \in UintSize..(2 * UintSize - 1)
    BY <1>1, SizeFacts
  <2> QED
    BY <1>1, <2>1, ModWrap, SizeFacts
<1>2. CASE w < r
  <2>1. w + UintSize - r \in 0..(UintSize - 1)
    BY <1>2, SizeFacts
  <2> QED
    BY <1>2, <2>1, ModSmall, SizeFacts
<1> QED
  BY <1>1, <1>2, SizeFacts

\* nwrite - nread on unsigned int, when nwrite has wrapped and nread has not.
LEMMA UsedFacts ==
  ASSUME TypeOK
  PROVE  /\ Used \in 0..(UintSize - 1)
         /\ Used = IF nread <= nwrite THEN nwrite - nread ELSE nwrite + UintSize - nread
         /\ empty <=> Used = 0
         /\ full <=> Used = PIPESIZE
<1>1. nread \in 0..(UintSize - 1) /\ nwrite \in 0..(UintSize - 1)
  BY DEF TypeOK
<1>2. Used = IF nread <= nwrite THEN nwrite - nread ELSE nwrite + UintSize - nread
  BY <1>1, Difference DEF Used
<1>3. CASE nread + PIPESIZE < UintSize
  <2>1. (nread + PIPESIZE) % UintSize = nread + PIPESIZE
    BY <1>1, <1>3, ModSmall, SizeFacts
  <2> QED
    BY <1>1, <1>2, <1>3, <2>1, SizeFacts DEF empty, full
<1>4. CASE nread + PIPESIZE >= UintSize
  <2>1. (nread + PIPESIZE) % UintSize = nread + PIPESIZE - UintSize
    BY <1>1, <1>4, ModWrap, SizeFacts
  <2> QED
    BY <1>1, <1>2, <1>4, <2>1, SizeFacts DEF empty, full
<1> QED
  BY <1>1, <1>3, <1>4, SizeFacts

\* Where the next byte goes is behind the last one, modulo PIPESIZE.
LEMMA WriteIndex ==
  ASSUME TypeOK
  PROVE  (nread + Used) % PIPESIZE = nwrite % PIPESIZE
<1>1. nread \in 0..(UintSize - 1) /\ nwrite \in 0..(UintSize - 1)
  BY DEF TypeOK
<1>2. nread + Used = nwrite \/ nread + Used = nwrite + UintSize
  BY <1>1, UsedFacts, SizeFacts
<1> QED
  BY <1>1, <1>2, IndexWrap

\* A byte written to a pipe that is not full adds one to the bytes in it.
LEMMA UsedIncrements ==
  ASSUME TypeOK, Used < PIPESIZE, nwrite' = (nwrite + 1) % UintSize, nread' = nread
  PROVE  Used' = Used + 1
<1>1. nread \in 0..(UintSize - 1) /\ nwrite \in 0..(UintSize - 1)
  BY DEF TypeOK
<1>2. nwrite' = IF nwrite + 1 = UintSize THEN 0 ELSE nwrite + 1
  BY <1>1, Incremented
<1>3. nwrite' \in 0..(UintSize - 1) /\ nread' \in 0..(UintSize - 1)
  BY <1>1, <1>2, SizeFacts
<1>4. Used' = IF nread' <= nwrite' THEN nwrite' - nread' ELSE nwrite' + UintSize - nread'
  BY <1>3, Difference DEF Used
<1> QED
  BY <1>1, <1>2, <1>4, UsedFacts, SizeFacts

\* A byte read from a pipe that is not empty takes one away.
LEMMA UsedDecrements ==
  ASSUME TypeOK, Used > 0, nread' = (nread + 1) % UintSize, nwrite' = nwrite
  PROVE  Used' = Used - 1
<1>1. nread \in 0..(UintSize - 1) /\ nwrite \in 0..(UintSize - 1)
  BY DEF TypeOK
<1>2. nread' = IF nread + 1 = UintSize THEN 0 ELSE nread + 1
  BY <1>1, Incremented
<1>3. nwrite' \in 0..(UintSize - 1) /\ nread' \in 0..(UintSize - 1)
  BY <1>1, <1>2, SizeFacts
<1>4. Used' = IF nread' <= nwrite' THEN nwrite' - nread' ELSE nwrite' + UintSize - nread'
  BY <1>3, Difference DEF Used
<1> QED
  BY <1>1, <1>2, <1>4, UsedFacts, SizeFacts

-----------------------------------------------------------------------------
(***************************************************************************)
(* No lost wakeup.  While pi->lock is held the pipe may have room, or      *)
(* bytes, that sleepers do not know of, as long as the holder is still to  *)
(* call wakeup(): a reader in its copy loop, a writer in its loop.         *)
(***************************************************************************)
WakeInv ==
  \A p \in Procs :
    /\ pc[p] = "wfull" => full /\ readopen
    /\ pc[p] = "rempty" => empty /\ writeopen
    /\ pc[p] = "wsleep" => readopen /\ (full \/ \E q \in Procs : pc[q] = "rcopy")
    /\ pc[p] = "rsleep" /\ (\A q \in Procs : ~killed[q]) =>
         writeopen /\ (empty \/ \E q \in Procs : pc[q] = "wloop")

\* A step that leaves the pipe itself alone and puts nobody to sleep, and
\* after which whoever has to call wakeup() still has to.
LEMMA CalmStep ==
  ASSUME TypeOK, WakeInv, UNCHANGED <<pipevars, killed>>,
         \A p \in Procs : pc'[p] \in {"wfull", "rempty", "wsleep", "rsleep"} => pc'[p] = pc[p],
         \A p \in Procs : pc[p] \in {"rcopy", "wloop"} => pc'[p] = pc[p]
  PROVE  WakeInv'
<1>1. (full <=> full') /\ (empty <=> empty') /\ readopen' = readopen /\ writeopen' = writeopen
  BY DEF pipevars, full, empty
<1> QED
  BY <1>1 DEF WakeInv

\* No step leaves a sleeper behind whose condition has come true unannounced.
LEMMA WakeStep == SafeInv /\ WakeInv /\ [Next]_vars => WakeInv'
<1> SUFFICES ASSUME SafeInv, WakeInv, [Next]_vars PROVE WakeInv'
  OBVIOUS
<1>0. TypeOK /\ LockHeld /\ Inside /\ EndsCounted
  BY DEF SafeInv
<1>a. full => ~empty
  BY <1>0, UsedFacts, SizeFacts
<1>b. TypeOK' /\ LockHeld'
  BY <1>0, TypeStep, LockStep
<1>1. ASSUME NEW p \in Procs, kill(p) PROVE WakeInv'
  <2>1. killed'[p] /\ \A q \in Procs : pc'[q] = pc[q] \/ pc'[q] \in {"wwoken", "rwoken"}
    BY <1>0, <1>1 DEF kill, TypeOK, Goto
  <2>2. \A q \in Procs : pc[q] = "rcopy" => pc'[q] = "rcopy"
    BY <1>0, <1>1 DEF kill, TypeOK, Goto
  <2>3. full' = full /\ empty' = empty /\ readopen' = readopen /\ writeopen' = writeopen
    BY <1>1 DEF kill, pipevars, full, empty
  <2> QED
    BY <2>1, <2>2, <2>3 DEF WakeInv
<1>2. ASSUME NEW p \in Procs, NEW m \in 1..MaxN, pipewrite(p, m) \/ piperead(p, m) PROVE WakeInv'
  BY <1>0, <1>2, CalmStep DEF pipewrite, piperead, Goto, TypeOK
<1>3. ASSUME NEW p \in Procs, pipewrite_awake(p) \/ piperead_awake(p) PROVE WakeInv'
  BY <1>0, <1>3, CalmStep DEF pipewrite_awake, piperead_awake, Goto, TypeOK
<1>4. ASSUME NEW p \in Procs, pipewrite_fails(p) PROVE WakeInv'
  <2>1. /\ pc[p] = "wloop" /\ pc'[p] = "user" /\ (~readopen \/ killed[p])
        /\ \A q \in Procs : q # p => pc'[q] = pc[q]
    BY <1>0, <1>4 DEF pipewrite_fails, Holds, Goto, TypeOK
  <2>9. (full <=> full') /\ (empty <=> empty') /\ readopen' = readopen /\ writeopen' = writeopen
        /\ killed' = killed
    BY <1>4 DEF pipewrite_fails, pipevars, full, empty
  <2>2. \A q \in Procs : pc[q] = "rsleep" => readopen
    BY <1>0 DEF Inside, EndsCounted, Reading
  <2> QED
    BY <2>1, <2>2, <2>9 DEF WakeInv
<1>5. ASSUME NEW p \in Procs, pipewrite_full(p) PROVE WakeInv'
  <2>1. /\ full /\ readopen /\ pc[p] = "wloop" /\ pc'[p] = "wfull"
        /\ \A q \in Procs : q # p => pc'[q] = IF pc[q] = "rsleep" THEN "rwoken" ELSE pc[q]
    BY <1>0, <1>5 DEF pipewrite_full, Holds, WakeReaders, TypeOK
  <2>9. (full <=> full') /\ (empty <=> empty') /\ readopen' = readopen /\ writeopen' = writeopen
        /\ killed' = killed
    BY <1>5 DEF pipewrite_full, pipevars, full, empty
  <2> QED
    BY <2>1, <2>9 DEF WakeInv
<1>6. ASSUME NEW p \in Procs, pipewrite_sleep(p) PROVE WakeInv'
  <2>1. /\ pc[p] = "wfull" /\ pc'[p] = "wsleep"
        /\ \A q \in Procs : q # p => pc'[q] = pc[q]
    BY <1>0, <1>6 DEF pipewrite_sleep, Holds, Goto, TypeOK
  <2>9. (full <=> full') /\ (empty <=> empty') /\ readopen' = readopen /\ writeopen' = writeopen
        /\ killed' = killed
    BY <1>6 DEF pipewrite_sleep, pipevars, full, empty
  <2> QED
    BY <2>1, <2>9 DEF WakeInv
<1>7. ASSUME NEW p \in Procs, NEW b \in Bytes, pipewrite_byte(p, b) PROVE WakeInv'
  <2>1. lock = p /\ pc[p] = "wloop" /\ ~full /\ UNCHANGED <<pc, readopen, writeopen, killed>>
    BY <1>7 DEF pipewrite_byte, Holds
  <2>2. \A q \in Procs : pc[q] \notin {"rcopy", "wfull", "rempty"}
    BY <1>0, <2>1 DEF LockHeld
  <2>3. \A q \in Procs : pc[q] # "wsleep"
    BY <2>1, <2>2 DEF WakeInv
  <2> QED
    BY <2>1, <2>2, <2>3 DEF WakeInv
<1>8. ASSUME NEW p \in Procs, pipewrite_return(p) PROVE WakeInv'
  <2>1. /\ pc[p] = "wloop" /\ pc'[p] = "user"
        /\ \A q \in Procs : q # p => pc'[q] = IF pc[q] = "rsleep" THEN "rwoken" ELSE pc[q]
    BY <1>0, <1>8 DEF pipewrite_return, Holds, WakeReaders, TypeOK
  <2>9. (full <=> full') /\ (empty <=> empty') /\ readopen' = readopen /\ writeopen' = writeopen
        /\ killed' = killed
    BY <1>8 DEF pipewrite_return, pipevars, full, empty
  <2> QED
    BY <2>1, <2>9 DEF WakeInv
<1>9. ASSUME NEW p \in Procs, piperead_fails(p) PROVE WakeInv'
  BY <1>0, <1>9, CalmStep, SMTT(30) DEF piperead_fails, Goto, Holds, TypeOK
<1>10. ASSUME NEW p \in Procs, piperead_empty(p) PROVE WakeInv'
  <2>1. /\ pc[p] = "rloop" /\ pc'[p] = "rempty" /\ empty /\ writeopen
        /\ \A q \in Procs : q # p => pc'[q] = pc[q]
    BY <1>0, <1>10 DEF piperead_empty, Holds, Goto, TypeOK
  <2>9. (full <=> full') /\ (empty <=> empty') /\ readopen' = readopen /\ writeopen' = writeopen
        /\ killed' = killed
    BY <1>10 DEF piperead_empty, pipevars, full, empty
  <2> QED
    BY <2>1, <2>9 DEF WakeInv
<1>11. ASSUME NEW p \in Procs, piperead_sleep(p) PROVE WakeInv'
  <2>1. /\ pc[p] = "rempty" /\ pc'[p] = "rsleep"
        /\ \A q \in Procs : q # p => pc'[q] = pc[q]
    BY <1>0, <1>11 DEF piperead_sleep, Holds, Goto, TypeOK
  <2>9. (full <=> full') /\ (empty <=> empty') /\ readopen' = readopen /\ writeopen' = writeopen
        /\ killed' = killed
    BY <1>11 DEF piperead_sleep, pipevars, full, empty
  <2> QED
    BY <2>1, <2>9 DEF WakeInv
<1>12. ASSUME NEW p \in Procs, piperead_ready(p) PROVE WakeInv'
  BY <1>0, <1>12, CalmStep DEF piperead_ready, Goto, Holds, TypeOK
<1>13. ASSUME NEW p \in Procs, piperead_byte(p) PROVE WakeInv'
  <2>1. lock = p /\ pc[p] = "rcopy" /\ ~empty /\ UNCHANGED <<pc, readopen, writeopen, killed>>
    BY <1>13 DEF piperead_byte, Holds
  <2>2. \A q \in Procs : pc[q] \notin {"wloop", "wfull", "rempty"}
    BY <1>0, <2>1 DEF LockHeld
  <2>3. \A q \in Procs : pc[q] = "rsleep" => \E k \in Procs : killed[k]
    BY <2>1, <2>2 DEF WakeInv
  <2> QED
    BY <2>1, <2>2, <2>3 DEF WakeInv
<1>14. ASSUME NEW p \in Procs, piperead_copyout_fails(p) \/ piperead_return(p) PROVE WakeInv'
  <2>1. /\ lock = p /\ pc[p] = "rcopy" /\ pc'[p] = "user"
        /\ UNCHANGED <<readopen, writeopen, killed>>
        /\ \A q \in Procs : q # p => pc'[q] = IF pc[q] = "wsleep" THEN "wwoken" ELSE pc[q]
    BY <1>0, <1>14 DEF piperead_copyout_fails, piperead_return, Holds, WakeWriters, TypeOK,
       pipevars
  <2>2. \A q \in Procs : pc[q] \notin {"wloop", "wfull", "rempty"}
    BY <1>0, <2>1, SMTT(30) DEF LockHeld
  <2>3. ~empty \/ (empty <=> empty')
    BY <1>14 DEF piperead_copyout_fails, piperead_return, pipevars, empty
  <2>4. \A q \in Procs : pc[q] = "rsleep" => empty \/ \E k \in Procs : killed[k]
    BY <2>1, <2>2 DEF WakeInv
  <2> QED
    BY <2>1, <2>2, <2>3, <2>4 DEF WakeInv
<1>15. ASSUME NEW p \in Procs, NEW e \in Ends, fileclose(p, e) PROVE WakeInv'
  <2>1. /\ pc[p] = "user" /\ pc'[p] \in {"user", "close_read", "close_write"}
        /\ \A q \in Procs : q # p => pc'[q] = pc[q]
    BY <1>0, <1>15 DEF fileclose, Goto, TypeOK
  <2> QED
    BY <1>0, <1>15, <2>1, CalmStep DEF fileclose
<1>16. ASSUME NEW p \in Procs, pipeclose(p) PROVE WakeInv'
  <2>1. \A q \in Procs : pc[q] \notin {"wfull", "rempty", "wloop", "rcopy"}
    BY <1>0, <1>16, ConstantFacts DEF pipeclose, LockHeld
  <2>2. (full <=> full') /\ (empty <=> empty') /\ killed' = killed
    BY <1>16 DEF pipeclose, full, empty
  <2>3. CASE pc[p] = "close_write"
    <3>1. /\ readopen' = readopen /\ pc'[p] = "user"
          /\ \A q \in Procs : q # p => pc'[q] = IF pc[q] = "rsleep" THEN "rwoken" ELSE pc[q]
      BY <1>0, <1>16, <2>3 DEF pipeclose, WakeReaders, TypeOK
    <3> QED
      BY <2>1, <2>2, <2>3, <3>1 DEF WakeInv
  <2>4. CASE pc[p] = "close_read"
    <3>1. /\ writeopen' = writeopen /\ pc'[p] = "user"
          /\ \A q \in Procs : q # p => pc'[q] = IF pc[q] = "wsleep" THEN "wwoken" ELSE pc[q]
      BY <1>0, <1>16, <2>4, SMTT(30) DEF pipeclose, WakeWriters, TypeOK
    <3> QED
      BY <2>1, <2>2, <2>4, <3>1 DEF WakeInv
  <2> QED
    BY <1>16, <2>3, <2>4 DEF pipeclose
<1>17. CASE UNCHANGED vars
  BY <1>17 DEF vars, pipevars, WakeInv, full, empty
<1> QED
  BY <1>1, <1>2, <1>3, <1>4, <1>5, <1>6, <1>7, <1>8, <1>9, <1>10, <1>11, <1>12, <1>13, <1>14,
     <1>15,
     <1>16, <1>17 DEF Next

\* Between critical sections nobody sleeps for what has happened already.
THEOREM NobodyMissedCorrect == Spec => []NobodyMissed
<1>1. Init => WakeInv
  BY DEF Init, WakeInv
<1>2. SafeInv /\ WakeInv => NobodyMissed
  BY ConstantFacts DEF SafeInv, LockHeld, WakeInv, NobodyMissed
<1> QED
  BY Safe, WakeStep, <1>1, <1>2, PTL DEF Spec

-----------------------------------------------------------------------------
(***************************************************************************)
(* The pipe implements the queue.                                          *)
(***************************************************************************)
Bounded == Used <= PIPESIZE

\* The abstract queue is a sequence of Used bytes.
ContentsOK ==
  /\ Contents \in Seq(Bytes)
  /\ Len(Contents) = Used
  /\ \A k \in 1..Used : Contents[k] = data[(nread + k - 1) % PIPESIZE]

\* The bytes between nread and nwrite are a sequence as long as Used.
LEMMA ContentsFacts == TypeOK => ContentsOK
<1> SUFFICES ASSUME TypeOK PROVE ContentsOK
  OBVIOUS
<1>1. Used \in Nat
  BY UsedFacts, SizeFacts
<1>2. ASSUME NEW k \in 1..Used PROVE data[(nread + k - 1) % PIPESIZE] \in Bytes
  <2>1. nread + k - 1 \in Nat
    BY <1>1, SizeFacts DEF TypeOK
  <2>2. (nread + k - 1) % PIPESIZE \in 0..(PIPESIZE - 1)
    BY <2>1, SizeFacts
  <2> QED
    BY <2>2 DEF TypeOK
<1>3. Contents \in [1..Used -> Bytes]
  BY <1>2 DEF Contents
<1> QED
  BY <1>1, <1>3 DEF Contents, ContentsOK

\* When one sequence is another with an element appended.
LEMMA AppendOf ==
  ASSUME NEW S, NEW s \in Seq(S), NEW t \in Seq(S), NEW e \in S,
         Len(t) = Len(s) + 1, t[Len(s) + 1] = e, \A k \in 1..Len(s) : t[k] = s[k]
  PROVE  t = Append(s, e)
<1>1. /\ Append(s, e) \in Seq(S)
      /\ Len(Append(s, e)) = Len(s) + 1
      /\ \A k \in 1..Len(s) : Append(s, e)[k] = s[k]
      /\ Append(s, e)[Len(s) + 1] = e
  BY AppendProperties
<1>2. \A k \in 1..Len(t) : t[k] = Append(s, e)[k]
  BY <1>1, LenProperties
<1> QED
  BY <1>1, <1>2, SeqEqual

\* When one sequence is the tail of another.
LEMMA TailOf ==
  ASSUME NEW S, NEW s \in Seq(S), NEW t \in Seq(S), s # <<>>,
         Len(t) = Len(s) - 1, \A k \in 1..Len(t) : t[k] = s[k + 1]
  PROVE  t = Tail(s)
BY HeadTailProperties, SeqEqual

\* pipewrite() puts its byte behind the others, and overwrites none of them.
LEMMA WriteByte ==
  ASSUME TypeOK, TypeOK', Bounded, NEW p \in Procs, NEW b \in Bytes, pipewrite_byte(p, b)
  PROVE  /\ Used < PIPESIZE
         /\ Contents' = Append(Contents, b)
<1>1. Used < PIPESIZE /\ Used \in Nat
  BY UsedFacts, SizeFacts DEF pipewrite_byte, Bounded
<1>2. Used' = Used + 1 /\ nread' = nread
  BY <1>1, UsedIncrements DEF pipewrite_byte
<1>3. nwrite % PIPESIZE \in 0..(PIPESIZE - 1) /\ nread \in Nat
  <2>1. nread \in 0..(UintSize - 1) /\ nwrite \in 0..(UintSize - 1)
    BY DEF TypeOK
  <2> QED
    BY <2>1, IndexTypes, SizeFacts
<1>4. data' = [data EXCEPT ![nwrite % PIPESIZE] = b]
  BY DEF pipewrite_byte
<1>5. ASSUME NEW k \in 1..Used
      PROVE  data'[(nread + k - 1) % PIPESIZE] = data[(nread + k - 1) % PIPESIZE]
  <2>1. nread + k - 1 \in Nat /\ Used - (k - 1) \in 1..(PIPESIZE - 1)
    BY <1>1, <1>3, SizeFacts
  <2>2. (nread + k - 1) + (Used - (k - 1)) = nread + Used
    BY <1>1, <1>3
  <2>3. (nread + Used) % PIPESIZE # (nread + k - 1) % PIPESIZE
    BY <2>1, <2>2, ModDistinct, SizeFacts, Zenon
  <2>4. (nread + k - 1) % PIPESIZE # nwrite % PIPESIZE
    BY <2>3, WriteIndex
  <2>5. (nread + k - 1) % PIPESIZE \in 0..(PIPESIZE - 1)
    BY <2>1, SizeFacts
  <2> QED
    BY <1>4, <2>4, <2>5 DEF TypeOK
<1>6. data'[(nread + (Used + 1) - 1) % PIPESIZE] = b
  <2>1. nread + (Used + 1) - 1 = nread + Used
    BY <1>1, <1>3
  <2> QED
    BY <1>3, <1>4, <2>1, WriteIndex DEF TypeOK
<1>7. /\ Contents' \in Seq(Bytes)
      /\ Len(Contents') = Used + 1
      /\ \A k \in 1..(Used + 1) : Contents'[k] = data'[(nread + k - 1) % PIPESIZE]
  <2>1. ContentsOK'
    BY ContentsFacts, PTL
  <2> QED
    BY <1>2, <2>1 DEF ContentsOK
<1> QED
  BY <1>1, <1>5, <1>6, <1>7, ContentsFacts, AppendOf DEF ContentsOK

\* piperead() takes the first byte, and the others move up.
LEMMA ReadByte ==
  ASSUME TypeOK, TypeOK', ~empty, TakeByte, data' = data, nwrite' = nwrite
  PROVE  /\ Contents # <<>>
         /\ Contents' = Tail(Contents)
         /\ ch' = Head(Contents)
         /\ Used' = Used - 1
<1>0. nread \in 0..(UintSize - 1) /\ nread \in Nat /\ UintSize \in Nat
  BY SizeFacts DEF TypeOK
<1>1. Used \in Nat /\ Used > 0
  BY UsedFacts, SizeFacts
<1>2. Used' = Used - 1
  BY <1>1, UsedDecrements DEF TakeByte
<1>3. ContentsOK /\ ContentsOK'
  <2>1. ContentsOK'
    BY ContentsFacts, PTL
  <2> QED
    BY <2>1, ContentsFacts
<1>4. ASSUME NEW k \in 1..(Used - 1)
      PROVE  (nread' + k - 1) % PIPESIZE = (nread + (k + 1) - 1) % PIPESIZE
  <2>1. nread' = IF nread + 1 = UintSize THEN 0 ELSE nread + 1
    BY <1>0, Incremented DEF TakeByte
  <2>2. CASE nread + 1 = UintSize
    <3>1. nread' + k - 1 = k - 1 /\ k - 1 \in Nat
      BY <1>1, <2>1, <2>2
    <3>2. nread + (k + 1) - 1 = (k - 1) + UintSize
      BY <1>0, <1>1, <2>2
    <3>3. ((k - 1) + UintSize) % PIPESIZE = (k - 1) % PIPESIZE
      BY <3>1, IndexWrap
    <3> QED
      BY <3>1, <3>2, <3>3
  <2>3. CASE nread + 1 # UintSize
    <3>1. nread' + k - 1 = nread + (k + 1) - 1
      BY <1>0, <1>1, <2>1, <2>3
    <3> QED
      BY <3>1
  <2> QED
    BY <2>2, <2>3
<1>5. Contents # <<>>
  BY <1>1, <1>3, EmptySeq DEF ContentsOK
<1>6. \A k \in 1..Len(Contents') : Contents'[k] = Contents[k + 1]
  <2> SUFFICES ASSUME NEW k \in 1..(Used - 1) PROVE Contents'[k] = Contents[k + 1]
    BY <1>2, <1>3 DEF ContentsOK
  <2>1. Contents'[k] = data[(nread' + k - 1) % PIPESIZE]
    BY <1>1, <1>2, <1>3 DEF ContentsOK
  <2>2. Contents[k + 1] = data[(nread + (k + 1) - 1) % PIPESIZE]
    BY <1>1, <1>3 DEF ContentsOK
  <2> QED
    BY <1>4, <2>1, <2>2
<1>7. Contents' = Tail(Contents)
  BY <1>1, <1>2, <1>3, <1>5, <1>6, TailOf DEF ContentsOK
<1>8. ch' = Head(Contents)
  <2>1. Contents[1] = data[(nread + 1 - 1) % PIPESIZE] /\ Head(Contents) = Contents[1]
    BY <1>1, <1>3 DEF ContentsOK
  <2>2. nread + 1 - 1 = nread
    BY <1>0, SMTT(30)
  <2> QED
    BY <2>1, <2>2 DEF TakeByte
<1> QED
  BY <1>2, <1>5, <1>7, <1>8

\* The buffer never holds more than PIPESIZE bytes.
LEMMA BoundedStep == TypeOK /\ TypeOK' /\ Bounded /\ [Next]_vars => Bounded'
<1> SUFFICES ASSUME TypeOK, TypeOK', Bounded, [Next]_vars PROVE Bounded'
  OBVIOUS
<1>1. ASSUME NEW p \in Procs, NEW b \in Bytes, pipewrite_byte(p, b) PROVE Bounded'
  <2>1. Used < PIPESIZE
    BY <1>1, WriteByte
  <2>2. Used' = Used + 1
    BY <1>1, <2>1, UsedIncrements DEF pipewrite_byte
  <2> QED
    BY <2>1, <2>2, UsedFacts, SizeFacts DEF Bounded
<1>2. ASSUME NEW p \in Procs, piperead_byte(p) \/ piperead_copyout_fails(p) PROVE Bounded'
  <2>1. Used' = Used - 1
    BY <1>2, ReadByte DEF piperead_byte, piperead_copyout_fails
  <2> QED
    BY <2>1, UsedFacts, SizeFacts DEF Bounded
<1>3. ASSUME UNCHANGED <<nread, nwrite>> PROVE Bounded'
  BY <1>3 DEF Bounded, Used
<1> QED
  BY <1>1, <1>2, <1>3, ZenonT(30)
  DEF Next, kill, pipewrite, pipewrite_awake, pipewrite_fails, pipewrite_full, pipewrite_sleep,
    pipewrite_return, piperead, piperead_awake, piperead_fails, piperead_empty, piperead_sleep,
    piperead_ready, piperead_return, fileclose, pipeclose, pipevars, vars

\* The pipe is a queue of at most PIPESIZE bytes: pipewrite_byte is a Put, the
\* two actions that take a byte are a Get, pipeclose closes an end, and all
\* others leave the queue as it is.
LEMMA QueueStep ==
  TypeOK /\ TypeOK' /\ Bounded /\ [Next]_vars => [Queue!QNext]_(Queue!qvars)
<1> SUFFICES ASSUME TypeOK, TypeOK', Bounded, [Next]_vars
             PROVE  Queue!QNext \/ UNCHANGED Queue!qvars
  OBVIOUS
<1>1. ASSUME NEW p \in Procs, NEW b \in Bytes, pipewrite_byte(p, b) PROVE Queue!QNext
  <2>1. Len(Contents) < PIPESIZE /\ Contents' = Append(Contents, b)
    BY <1>1, WriteByte, ContentsFacts DEF ContentsOK
  <2>2. Queue!Put(b)
    BY <1>1, <2>1 DEF pipewrite_byte, Queue!Put
  <2> QED
    BY <2>2 DEF Queue!QNext
<1>2. ASSUME NEW p \in Procs, piperead_byte(p) \/ piperead_copyout_fails(p) PROVE Queue!QNext
  <2>1. /\ ~empty /\ TakeByte /\ data' = data /\ nwrite' = nwrite
        /\ UNCHANGED <<readopen, writeopen>>
    BY <1>2 DEF piperead_byte, piperead_copyout_fails
  <2>2. Queue!Get
    BY <2>1, ReadByte DEF Queue!Get
  <2> QED
    BY <2>2 DEF Queue!QNext
<1>3. ASSUME NEW p \in Procs, pipeclose(p) PROVE Queue!QNext
  <2>1. Contents' = Contents /\ ch' = ch
    BY <1>3 DEF pipeclose, Contents, Used
  <2>2. CASE pc[p] = "close_write"
    BY <1>3, <2>1, <2>2 DEF pipeclose, Queue!CloseWrite, Queue!QNext
  <2>3. CASE pc[p] # "close_write"
    BY <1>3, <2>1, <2>3 DEF pipeclose, Queue!CloseRead, Queue!QNext
  <2> QED
    BY <2>2, <2>3
<1>4. ASSUME UNCHANGED <<pipevars, ch>> PROVE UNCHANGED Queue!qvars
  BY <1>4 DEF pipevars, Queue!qvars, Contents, Used
<1> QED
  BY <1>1, <1>2, <1>3, <1>4, ZenonT(30)
  DEF Next, kill, pipewrite, pipewrite_awake, pipewrite_fails, pipewrite_full, pipewrite_sleep,
    pipewrite_return, piperead, piperead_awake, piperead_fails, piperead_empty, piperead_sleep,
    piperead_ready, piperead_return, fileclose, vars

\* A new pipe is an empty queue.
LEMMA QueueInit == Init => Bounded /\ Queue!QInit
<1> SUFFICES ASSUME Init PROVE Bounded /\ Queue!QInit
  OBVIOUS
<1>1. TypeOK
  BY InitSafe DEF SafeInv
<1>2. Used = 0
  BY <1>1, UsedFacts DEF Init, empty
<1>3. Contents = <<>>
  BY <1>2 DEF Contents
<1> QED
  BY <1>2, <1>3, SizeFacts DEF Init, Bounded, Queue!QInit

\* However writers and readers take turns, and however often the counters
\* wrap, what piperead() delivers is what pipewrite() was given, in order.
THEOREM PipeIsAQueue == Spec => IsAQueue
<1>1. SafeInv /\ [Next]_vars => TypeOK /\ TypeOK'
  BY TypeStep DEF SafeInv
<1> QED
  BY Safe, QueueInit, BoundedStep, QueueStep, <1>1, PTL DEF Spec, IsAQueue, Queue!QSpec
=============================================================================
