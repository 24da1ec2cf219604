----------------------------- MODULE BcacheProofs -----------------------------
(***************************************************************************)
(* Proofs about Bcache, for every number of processes, buffers and blocks, *)
(* and whatever the disk does.                                             *)
(***************************************************************************)
EXTENDS Bcache, FiniteSetTheorems, TLAPS

Labels == {"idle", "lock", "asleep", "bread", "reading", "have", "writing", "brelse"}

\* The processes between bget() and the end of brelse() of a buffer.
Users(b) == {p \in Procs : buf[p] = b}

TypeOK ==
  /\ blockno \in [Bufs -> Blocks \union {NoBlock}]
  /\ refcnt \in [Bufs -> Nat]
  /\ pins \in [Bufs -> Nat]
  /\ pc \in [Procs -> Labels]
  /\ buf \in [Procs -> Bufs \union {NoBuf}]
  /\ want \in [Procs -> Blocks \union {NoBlock}]

\* b->refcnt counts the processes that use the buffer and its pins.
Counted ==
  /\ \A p \in Procs : pc[p] = "idle" <=> buf[p] = NoBuf
  /\ \A b \in Bufs : refcnt[b] = pins[b] + Cardinality(Users(b))

CInv == TypeOK /\ Counted /\ BufferOfItsBlock

\* A set of processes is finite.
LEMMA UsersFinite ==
  ASSUME NEW b
  PROVE  IsFiniteSet(Users(b)) /\ Cardinality(Users(b)) \in Nat
<1>1. Users(b) \subseteq Procs
  BY DEF Users
<1> QED
  BY <1>1, ProcsAssumption, FS_Subset, FS_CardinalityType

\* A buffer that bget() may recycle is used by no process and not pinned.
LEMMA VictimUnused ==
  ASSUME CInv, NEW b \in Bufs, refcnt[b] = 0
  PROVE  pins[b] = 0 /\ Users(b) = {}
<1>1. pins[b] \in Nat /\ refcnt[b] = pins[b] + Cardinality(Users(b))
  BY DEF CInv, TypeOK, Counted
<1>2. pins[b] = 0 /\ Cardinality(Users(b)) = 0
  BY <1>1, UsersFinite
<1> QED
  BY <1>2, UsersFinite, FS_EmptySet

\* Init satisfies the invariant.
LEMMA InitCInv == Init => CInv
<1> SUFFICES ASSUME Init PROVE CInv
  OBVIOUS
<1>1. TypeOK
  BY DEF Init, TypeOK, Labels
<1>2. ASSUME NEW b \in Bufs PROVE Users(b) = {}
  BY BufsAssumption DEF Init, Users
<1>3. Counted
  <2>1. \A p \in Procs : pc[p] = "idle" /\ buf[p] = NoBuf
    BY DEF Init
  <2>2. \A b \in Bufs : refcnt[b] = 0 /\ pins[b] = 0 /\ Cardinality(Users(b)) = 0
    BY <1>2, FS_EmptySet, Zenon DEF Init
  <2> QED
    BY <2>1, <2>2 DEF Counted
<1>4. BufferOfItsBlock
  BY BufsAssumption DEF Init, BufferOfItsBlock
<1> QED
  BY <1>1, <1>3, <1>4 DEF CInv

\* A step between bget() and the end of brelse() changes no buffer's block.
LEMMA InsideStep ==
  ASSUME CInv, UNCHANGED <<blockno, refcnt, pins, buf, want>>, pc' \in [Procs -> Labels],
         \A p \in Procs : pc'[p] = "idle" <=> pc[p] = "idle"
  PROVE  CInv'
<1>1. \A b \in Bufs : Users(b)' = Users(b)
  BY DEF Users
<1>2. TypeOK'
  BY DEF CInv, TypeOK
<1>3. Counted'
  BY <1>1 DEF CInv, Counted
<1>4. BufferOfItsBlock'
  BY DEF CInv, BufferOfItsBlock
<1> QED
  BY <1>2, <1>3, <1>4 DEF CInv

\* Each operation on the cache keeps the invariant.
LEMMA StepCInv ==
  ASSUME CInv, NEW p \in Procs, Step(p)
  PROVE  CInv'
<1>0. TypeOK /\ Counted /\ BufferOfItsBlock
  BY DEF CInv
<1>1. ASSUME NEW blk \in Blocks, NEW b \in Bufs, bget_hit(p, blk, b) PROVE CInv'
  <2>1. /\ buf[p] = NoBuf /\ blockno[b] = blk /\ UNCHANGED <<blockno, pins>>
        /\ refcnt' = [refcnt EXCEPT ![b] = @ + 1]
        /\ buf' = [buf EXCEPT ![p] = b] /\ want' = [want EXCEPT ![p] = blk]
        /\ pc' = [pc EXCEPT ![p] = "lock"]
    BY <1>0, <1>1 DEF bget_hit, At, Goto, Counted
  <2>2. TypeOK'
    BY <1>0, <2>1 DEF TypeOK, Labels
  <2>3. p \notin Users(b) /\ Users(b)' = Users(b) \union {p}
    BY <1>0, <2>1, BufsAssumption DEF Users, TypeOK
  <2>4. \A c \in Bufs \ {b} : Users(c)' = Users(c)
    BY <1>0, <2>1, BufsAssumption DEF Users, TypeOK
  <2>5. Cardinality(Users(b)') = Cardinality(Users(b)) + 1
    BY <2>3, UsersFinite, FS_AddElement, SMTT(30)
  <2>6. \A c \in Bufs : refcnt'[c] = pins'[c] + Cardinality(Users(c)')
    <3>1. refcnt'[b] = refcnt[b] + 1 /\ pins[b] \in Nat /\ Cardinality(Users(b)) \in Nat
      BY <1>0, <2>1, UsersFinite DEF TypeOK
    <3>2. refcnt'[b] = pins'[b] + Cardinality(Users(b)')
      BY <1>0, <2>1, <2>5, <3>1 DEF Counted
    <3>3. \A c \in Bufs \ {b} : refcnt'[c] = refcnt[c]
      BY <1>0, <2>1 DEF TypeOK
    <3> QED
      BY <1>0, <2>1, <2>4, <3>2, <3>3 DEF Counted
  <2>7. \A q \in Procs : pc'[q] = "idle" <=> buf'[q] = NoBuf
    BY <1>0, <2>1, BufsAssumption DEF Counted, TypeOK
  <2>8. BufferOfItsBlock'
    BY <1>0, <2>1 DEF BufferOfItsBlock, TypeOK
  <2> QED
    BY <2>2, <2>6, <2>7, <2>8 DEF CInv, Counted
<1>2. ASSUME NEW blk \in Blocks, NEW b \in Bufs, bget_miss(p, blk, b) PROVE CInv'
  <2>1. /\ buf[p] = NoBuf /\ refcnt[b] = 0 /\ UNCHANGED pins
        /\ \A c \in Bufs : blockno[c] # blk
        /\ blockno' = [blockno EXCEPT ![b] = blk]
        /\ refcnt' = [refcnt EXCEPT ![b] = 1]
        /\ buf' = [buf EXCEPT ![p] = b] /\ want' = [want EXCEPT ![p] = blk]
        /\ pc' = [pc EXCEPT ![p] = "lock"]
    BY <1>0, <1>2 DEF bget_miss, At, Goto, Counted, Victim, Cached
  <2>2. pins[b] = 0 /\ Users(b) = {}
    BY <2>1, VictimUnused
  <2>3. TypeOK'
    BY <1>0, <2>1 DEF TypeOK, Labels
  <2>4. Users(b)' = {p} /\ \A c \in Bufs \ {b} : Users(c)' = Users(c)
    BY <1>0, <2>1, <2>2, BufsAssumption DEF Users, TypeOK
  <2>5. Cardinality(Users(b)') = 1
    BY <2>4, FS_Singleton
  <2>6. \A c \in Bufs : refcnt'[c] = pins'[c] + Cardinality(Users(c)')
    <3>1. refcnt'[b] = 1 /\ \A c \in Bufs \ {b} : refcnt'[c] = refcnt[c]
      BY <1>0, <2>1 DEF TypeOK
    <3>2. refcnt'[b] = pins'[b] + Cardinality(Users(b)')
      BY <2>1, <2>2, <2>5, <3>1
    <3>3. \A c \in Bufs \ {b} : refcnt'[c] = pins'[c] + Cardinality(Users(c)')
      BY <1>0, <2>1, <2>4, <3>1 DEF Counted
    <3> QED
      BY <3>2, <3>3
  <2>7. \A q \in Procs : pc'[q] = "idle" <=> buf'[q] = NoBuf
    BY <1>0, <2>1, BufsAssumption DEF Counted, TypeOK
  <2>8. BufferOfItsBlock'
    <3>1. \A c, d \in Bufs : blockno'[c] = blockno'[d] /\ blockno'[c] # NoBlock => c = d
      BY <1>0, <2>1 DEF BufferOfItsBlock, TypeOK
    <3>2. \A q \in Procs : buf[q] # b
      BY <2>2 DEF Users
    <3>3. \A q \in Procs : buf'[q] # NoBuf => blockno'[buf'[q]] = want'[q]
      BY <1>0, <2>1, <3>2 DEF BufferOfItsBlock, TypeOK
    <3> QED
      BY <3>1, <3>3 DEF BufferOfItsBlock
  <2> QED
    BY <2>3, <2>6, <2>7, <2>8 DEF CInv, Counted
<1>3. ASSUME NEW blk \in Blocks, bget_panics(p, blk) PROVE CInv'
  BY <1>0, <1>3, InsideStep DEF bget_panics, TypeOK
<1>4. CASE \/ acquiresleep(p) \/ acquiresleep_sleep(p) \/ bread_read(p) \/ bread_valid(p)
           \/ bread_done(p) \/ bwrite(p) \/ bwrite_done(p)
  <2>1. /\ UNCHANGED <<blockno, refcnt, pins, buf, want>> /\ pc[p] # "idle"
        /\ \E l \in Labels \ {"idle"} : pc' = [pc EXCEPT ![p] = l]
    BY <1>4, Zenon DEF acquiresleep, acquiresleep_sleep, bread_read, bread_valid, bread_done,
       bwrite, bwrite_done, At, Goto, Labels
  <2>2. pc' \in [Procs -> Labels] /\ \A q \in Procs : pc'[q] = "idle" <=> pc[q] = "idle"
    BY <1>0, <2>1 DEF TypeOK
  <2> QED
    BY <2>1, <2>2, InsideStep, SMTT(30)
<1>5. ASSUME NEW v \in Vals, modify(p, v) PROVE CInv'
  BY <1>0, <1>5, InsideStep DEF modify, cvars, TypeOK
<1>6. CASE bpin(p) \/ bunpin(p)
  <2>1. /\ buf[p] \in Bufs /\ UNCHANGED <<blockno, pc, buf, want>>
    BY <1>0, <1>6 DEF bpin, bunpin, At, Counted, TypeOK
  <2>2. PICK b \in Bufs : b = buf[p]
    BY <2>1
  <2>3. \A c \in Bufs : Users(c)' = Users(c)
    BY <2>1 DEF Users
  <2>4. \A c \in Bufs \ {b} : refcnt'[c] = refcnt[c] /\ pins'[c] = pins[c]
    BY <1>0, <1>6, <2>2 DEF bpin, bunpin, TypeOK
  <2>5. /\ refcnt[b] \in Nat /\ pins[b] \in Nat /\ Cardinality(Users(b)) \in Nat
        /\ refcnt[b] = pins[b] + Cardinality(Users(b))
    BY <1>0, UsersFinite DEF TypeOK, Counted
  <2>6. \/ refcnt'[b] = refcnt[b] + 1 /\ pins'[b] = pins[b] + 1
        \/ refcnt'[b] = refcnt[b] - 1 /\ pins'[b] = pins[b] - 1 /\ pins[b] > 0
    BY <1>0, <1>6, <2>2 DEF bpin, bunpin, TypeOK
  <2>7. /\ refcnt'[b] \in Nat /\ pins'[b] \in Nat
        /\ refcnt'[b] = pins'[b] + Cardinality(Users(b))
    BY <2>5, <2>6
  <2>8. refcnt' \in [Bufs -> Nat] /\ pins' \in [Bufs -> Nat]
    BY <1>0, <1>6, <2>2, <2>4, <2>7 DEF bpin, bunpin, TypeOK
  <2>9. TypeOK'
    BY <1>0, <2>1, <2>8 DEF TypeOK
  <2>10. Counted'
    BY <1>0, <2>1, <2>3, <2>4, <2>7 DEF Counted
  <2>11. BufferOfItsBlock'
    BY <1>0, <2>1 DEF BufferOfItsBlock
  <2> QED
    BY <2>9, <2>10, <2>11 DEF CInv
<1>7. CASE brelse(p)
  <2>1. /\ UNCHANGED <<blockno, refcnt, pins, buf, want>>
        /\ pc[p] = "have"
        /\ pc' = [q \in Procs |-> IF q = p THEN "brelse"
                    ELSE IF pc[q] = "asleep" /\ buf[q] = buf[p] THEN "lock" ELSE pc[q]]
    BY <1>7 DEF brelse, At
  <2>2. pc' \in [Procs -> Labels] /\ \A q \in Procs : pc'[q] = "idle" <=> pc[q] = "idle"
    BY <1>0, <2>1 DEF TypeOK, Labels
  <2> QED
    BY <2>1, <2>2, InsideStep
<1>8. CASE brelse_drop(p)
  <2>1. /\ buf[p] \in Bufs /\ UNCHANGED <<blockno, pins>>
        /\ refcnt' = [refcnt EXCEPT ![buf[p]] = @ - 1]
        /\ buf' = [buf EXCEPT ![p] = NoBuf] /\ want' = [want EXCEPT ![p] = NoBlock]
        /\ pc' = [pc EXCEPT ![p] = "idle"]
    BY <1>0, <1>8 DEF brelse_drop, At, Goto, Counted, TypeOK
  <2>2. PICK b \in Bufs : b = buf[p]
    BY <2>1
  <2>3. p \in Users(b) /\ Users(b)' = Users(b) \ {p}
    BY <1>0, <2>1, <2>2, BufsAssumption DEF Users, TypeOK
  <2>4. \A c \in Bufs \ {b} : Users(c)' = Users(c)
    BY <1>0, <2>1, <2>2, BufsAssumption DEF Users, TypeOK
  <2>5. Cardinality(Users(b)') = Cardinality(Users(b)) - 1 /\ Cardinality(Users(b)') \in Nat
    <3>1. IsFiniteSet(Users(b) \ {p}) /\ Cardinality(Users(b) \ {p}) = Cardinality(Users(b)) - 1
      BY <2>3, UsersFinite, FS_RemoveElement
    <3> QED
      BY <2>3, <3>1, FS_CardinalityType
  <2>6. /\ refcnt'[b] = refcnt[b] - 1 /\ pins[b] \in Nat /\ Cardinality(Users(b)) \in Nat
        /\ refcnt[b] = pins[b] + Cardinality(Users(b))
        /\ \A c \in Bufs \ {b} : refcnt'[c] = refcnt[c]
    BY <1>0, <2>1, <2>2, UsersFinite DEF TypeOK, Counted
  <2>7. refcnt'[b] = pins'[b] + Cardinality(Users(b)') /\ refcnt'[b] \in Nat
    BY <2>1, <2>5, <2>6
  <2>8. refcnt' \in [Bufs -> Nat]
    BY <1>0, <2>1, <2>2, <2>6, <2>7 DEF TypeOK
  <2>9. TypeOK'
    BY <1>0, <2>1, <2>8 DEF TypeOK, Labels
  <2>10. \A c \in Bufs : refcnt'[c] = pins'[c] + Cardinality(Users(c)')
    BY <1>0, <2>1, <2>4, <2>6, <2>7 DEF Counted
  <2>11. \A q \in Procs : pc'[q] = "idle" <=> buf'[q] = NoBuf
    BY <1>0, <2>1 DEF Counted, TypeOK
  <2>12. BufferOfItsBlock'
    BY <1>0, <2>1 DEF BufferOfItsBlock, TypeOK
  <2> QED
    BY <2>9, <2>10, <2>11, <2>12 DEF CInv, Counted
<1> QED
  BY <1>1, <1>2, <1>3, <1>4, <1>5, <1>6, <1>7, <1>8 DEF Step

\* A block has at most one buffer, and nobody's buffer is recycled before it
\* has been released: its refcnt, which bget() looks at, counts every user.
THEOREM BufferOfItsBlockCorrect == Spec => []BufferOfItsBlock
<1>1. CInv /\ [Next]_vars => CInv'
  <2> SUFFICES ASSUME CInv, [Next]_vars PROVE CInv'
    OBVIOUS
  <2>1. CASE \E p \in Procs : Step(p)
    BY <2>1, StepCInv
  <2>2. CASE DiskStep \/ panic \/ UNCHANGED vars
    <3>1. UNCHANGED <<blockno, refcnt, pins, buf, want, pc>>
      BY <2>2 DEF DiskStep, panic, vars, cvars
    <3> QED
      BY <3>1, InsideStep DEF CInv, TypeOK
  <2> QED
    BY <2>1, <2>2 DEF Next
<1>2. CInv => BufferOfItsBlock
  BY DEF CInv
<1> QED
  BY InitCInv, <1>1, <1>2, PTL DEF Spec
=============================================================================
