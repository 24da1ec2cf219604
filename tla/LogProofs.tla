------------------------------ MODULE LogProofs ------------------------------
(***************************************************************************)
(* Proofs about Log, for every number of processes and blocks, every size  *)
(* of the log and any number of crashes.                                   *)
(***************************************************************************)
EXTENDS Log, FiniteSetTheorems, TLAPS

Modes == {"run", "panicked"} \union Committing \union Recovering
Labels == {"user", "asleep", "awake", "op", "commit"}

TypeOK ==
  /\ home \in [Blocks -> Vals]
  /\ logblock \in [1..(size - 1) -> Vals]
  /\ head \in Seq(Blocks)
  /\ lh \in Seq(Blocks)
  /\ cache \in [Blocks -> Vals \union {NotCached}]
  /\ pin \in [Blocks -> Nat]
  /\ mode \in Modes
  /\ tail \in Nat
  /\ pc \in [Procs -> Labels]

\* A header names no block twice, and has room in the log.
Proper(s) ==
  /\ \A j, k \in 1..Len(s) : s[j] = s[k] => j = k
  /\ \A k \in 1..Len(s) : k \in 1..(size - 1)

\* What is in the headers, in memory and on disk, in each stage.
HeadInv ==
  /\ Proper(lh) /\ Proper(head)
  /\ mode \in {"run", "write_log", "write_head", "done", "panicked"} => head = <<>>
  /\ mode \in {"install", "erase", "replay", "clear"} => head = lh
  /\ mode \in {"done", "boot"} => lh = <<>>
  /\ IF mode \in {"write_log", "install", "replay"} THEN tail \in 1..Len(lh) ELSE tail = 1
  /\ mode \in {"write_head", "erase"} => lh # <<>>

\* Operations are counted, and none is under way during commit and recovery.
Active == {p \in Procs : pc[p] = "op"}
OpsInv ==
  /\ outstanding = Cardinality(Active)
  /\ mode \notin {"run", "panicked"} => Active = {}
  /\ committing <=> mode \in Committing

\* A buffer that differs from the disk is pinned, once; nothing else is.
Clean(b) == pin[b] = 0 /\ (cache[b] = NotCached \/ cache[b] = home[b])
Dirty(b) == pin[b] = 1 /\ cache[b] # NotCached

\* From which of its entries on the log is still to be installed.
Todo(k) ==
  \/ mode \in {"run", "write_log", "write_head", "panicked"}
  \/ mode = "install" /\ tail <= k

BufInv ==
  \A b \in Blocks : IF \E k \in 1..Len(lh) : lh[k] = b /\ Todo(k) THEN Dirty(b) ELSE Clean(b)

\* What has been copied to the log, and from there to its home location.
InLog(k) ==
  \/ mode = "write_log" /\ k < tail
  \/ mode = "write_head"
  \/ mode = "install" /\ tail <= k
AtHome(k) ==
  \/ mode \in {"install", "replay"} /\ k < tail
  \/ mode \in {"erase", "clear"}
CopyInv ==
  \A k \in 1..Len(lh) :
    /\ InLog(k) => logblock[k] = cache[lh[k]]
    /\ AtHome(k) => home[lh[k]] = logblock[k]

LInv == TypeOK /\ HeadInv /\ OpsInv /\ BufInv /\ CopyInv

-----------------------------------------------------------------------------
\* The log after boot, with an empty header on the disk.
LEMMA InitLInv == Init => LInv
<1> SUFFICES ASSUME Init PROVE LInv
  OBVIOUS
<1> USE ValsAssumption, InitDiskAssumption, sizeAssumption DEF Init
<1>1. TypeOK
  BY DEF TypeOK, Modes, Labels
<1>2. HeadInv
  BY DEF HeadInv, Proper
<1>3. OpsInv
  <2>1. Active = {}
    BY DEF Active
  <2> QED
    BY <2>1, FS_EmptySet DEF OpsInv, Committing
<1>4. BufInv
  BY DEF BufInv, Clean
<1>5. CopyInv
  BY DEF CopyInv
<1> QED
  BY <1>1, <1>2, <1>3, <1>4, <1>5 DEF LInv

\* An operation is under way only while no commit is, so that it finds the
\* log as the operations before it have left it.
LEMMA OpMode ==
  ASSUME LInv, Running, NEW p \in Procs, pc[p] = "op"
  PROVE  mode = "run"
BY DEF LInv, OpsInv, Active, Running, Committing

\* The entry of the log that is copied next, and the block it is for.
LEMMA TailFacts ==
  ASSUME LInv, mode \in {"write_log", "install", "replay"}
  PROVE  /\ tail \in 1..Len(lh)
         /\ lh[tail] \in Blocks
         /\ tail \in 1..(size - 1)
         /\ logblock[tail] \in Vals
         /\ Len(lh) \in Nat
<1>1. tail \in 1..Len(lh) /\ lh \in Seq(Blocks) /\ Proper(lh)
  BY DEF LInv, HeadInv, TypeOK
<1>2. Len(lh) \in Nat /\ lh[tail] \in Blocks
  BY <1>1
<1>3. tail \in 1..(size - 1)
  BY <1>1 DEF Proper
<1> QED
  BY <1>1, <1>2, <1>3 DEF LInv, TypeOK

\* What bread() returns is a block value.
LEMMA ViewType ==
  ASSUME TypeOK, NEW b \in Blocks
  PROVE  View(b) \in Vals
BY SMTT(30) DEF TypeOK, View

\* Every action keeps the variables in their types.
LEMMA TypeStep == LInv /\ [Next]_vars => TypeOK'
<1> SUFFICES ASSUME LInv, [Next]_vars PROVE TypeOK'
  OBVIOUS
<1>0. TypeOK
  BY DEF LInv
<1> USE <1>0 DEF TypeOK
<1>1. ASSUME NEW p \in Procs, begin_op(p) \/ begin_op_sleep(p) PROVE TypeOK'
  BY <1>1, Zenon DEF begin_op, begin_op_sleep, Labels, disk, logvars, bufs
<1>2. ASSUME NEW p \in Procs, NEW b \in Blocks, NEW v \in Vals, log_write(p, b, v) PROVE TypeOK'
  BY <1>2 DEF log_write, disk
<1>3. ASSUME NEW p \in Procs, NEW b \in Blocks, log_write_panics(p, b) PROVE TypeOK'
  BY <1>3 DEF log_write_panics, disk, logvars, bufs, ops, Modes
<1>4. ASSUME NEW p \in Procs, end_op(p) PROVE TypeOK'
  BY <1>4 DEF end_op, Wake, Labels, disk, bufs
<1>5. ASSUME NEW p \in Procs, end_op_last(p) PROVE TypeOK'
  BY <1>5 DEF end_op_last, Labels, disk, bufs, Modes, Committing
<1>6. ASSUME NEW p \in Procs, commit_done(p) PROVE TypeOK'
  BY <1>6 DEF commit_done, Wake, Labels, disk, bufs, Modes
<1>7. CASE write_log
  <2>1. View(lh[tail]) \in Vals /\ tail \in Nat
    BY <1>7, TailFacts, ViewType DEF write_log
  <2>2. logblock' \in [1..(size - 1) -> Vals]
    BY <1>7, <2>1, Zenon DEF write_log
  <2>3. tail' \in Nat /\ mode' \in Modes
    BY <1>7, <2>1 DEF write_log, Modes, Committing
  <2> QED
    BY <1>7, <2>2, <2>3 DEF write_log, logvars, bufs, ops
<1>8. CASE write_head
  BY <1>8 DEF write_head, Modes, Committing, logvars, bufs, ops
<1>9. CASE install_trans
  <2>1. tail \in 1..Len(lh) /\ lh[tail] \in Blocks /\ logblock[tail] \in Vals
    BY <1>9, TailFacts DEF install_trans
  <2>2. pin[lh[tail]] = 1
    BY <1>9, <2>1 DEF LInv, BufInv, Todo, Dirty, install_trans
  <2>3. pin' \in [Blocks -> Nat]
    BY <1>9, <2>1, <2>2 DEF install_trans
  <2> QED
    BY <1>9, <2>1, <2>3 DEF install_trans, CopyHome, Modes, Committing, logvars, ops
<1>10. CASE erase
  BY <1>10 DEF erase, Modes, Committing, bufs, ops
<1>11. ASSUME NEW b \in Blocks, recycle(b) PROVE TypeOK'
  BY <1>11 DEF recycle, disk, logvars, ops
<1>12. CASE crash
  BY <1>12 DEF crash, disk, Modes, Recovering, Labels
<1>13. CASE read_head
  BY <1>13 DEF read_head, disk, bufs, ops, Modes, Recovering
<1>14. CASE replay
  <2>1. tail \in 1..Len(lh) /\ lh[tail] \in Blocks /\ logblock[tail] \in Vals
    BY <1>14, TailFacts DEF replay
  <2> QED
    BY <1>14, <2>1 DEF replay, CopyHome, Modes, Recovering, logvars, ops
<1>15. CASE clear
  BY <1>15 DEF clear, bufs, ops, Modes
<1>16. CASE panic \/ UNCHANGED vars
  BY <1>16 DEF panic, vars, disk, logvars, bufs, ops
<1> QED
  BY <1>1, <1>2, <1>3, <1>4, <1>5, <1>6, <1>7, <1>8, <1>9, <1>10, <1>11, <1>12, <1>13, <1>14,
     <1>15,
     <1>16 DEF Next

\* The headers are proper, and equal or empty as the stage says.
LEMMA HeadStep == LInv /\ [Next]_vars => HeadInv'
<1> SUFFICES ASSUME LInv, [Next]_vars PROVE HeadInv'
  OBVIOUS
<1>0. TypeOK /\ HeadInv /\ OpsInv
  BY DEF LInv
<1>a. mode \in Modes /\ Len(lh) \in Nat /\ Len(head) \in Nat
  BY <1>0 DEF TypeOK
<1>1. ASSUME NEW p \in Procs, begin_op(p) \/ begin_op_sleep(p) PROVE HeadInv'
  BY <1>0, <1>1 DEF HeadInv, Proper, begin_op, begin_op_sleep, disk, logvars
<1>2. ASSUME NEW p \in Procs, NEW b \in Blocks, NEW v \in Vals, log_write(p, b, v) PROVE HeadInv'
  <2>1. mode = "run" /\ mode' = mode /\ head' = head /\ tail' = tail
    BY <1>2, OpMode DEF log_write, Writes, disk
  <2>2. Proper(lh')
    <3>1. CASE b \in Logged
      BY <1>0, <1>2, <3>1 DEF log_write, HeadInv
    <3>2. CASE b \notin Logged
      <4>1. lh' = Append(lh, b) /\ lh \in Seq(Blocks)
        BY <1>0, <1>2, <3>2 DEF log_write, TypeOK
      <4>2. /\ Len(lh') = Len(lh) + 1
            /\ lh'[Len(lh) + 1] = b
            /\ \A k \in 1..Len(lh) : lh'[k] = lh[k] /\ lh[k] # b
        BY <4>1, <3>2 DEF Logged
      <4>3. Len(lh) + 1 \in 1..(size - 1)
        BY <1>a, <1>2, sizeAssumption DEF log_write, TooBig
      <4> QED
        BY <1>a, <1>0, <4>2, <4>3 DEF HeadInv, Proper
    <3> QED
      BY <3>1, <3>2
  <2>3. Proper(head')
    BY <1>0, <2>1 DEF HeadInv
  <2> QED
    BY <1>0, <2>1, <2>2, <2>3 DEF HeadInv
<1>3. ASSUME NEW p \in Procs, NEW b \in Blocks, log_write_panics(p, b) PROVE HeadInv'
  <2>1. mode = "run" /\ mode' = "panicked" /\ UNCHANGED <<head, lh, tail>>
    BY <1>3, OpMode DEF log_write_panics, Writes, disk, logvars
  <2> QED
    BY <1>0, <2>1 DEF HeadInv, Proper
<1>4. ASSUME NEW p \in Procs, end_op(p) PROVE HeadInv'
  BY <1>0, <1>4 DEF HeadInv, Proper, end_op, disk
<1>5. ASSUME NEW p \in Procs, end_op_last(p) PROVE HeadInv'
  <2>1. /\ mode = "run" /\ UNCHANGED <<head, lh, tail>>
        /\ mode' = IF lh = <<>> THEN "done" ELSE "write_log"
    BY <1>5, OpMode DEF end_op_last, disk
  <2>2. lh # <<>> => 1 \in 1..Len(lh)
    BY <1>0 DEF TypeOK
  <2> QED
    BY <1>0, <2>1, <2>2 DEF HeadInv, Proper
<1>6. ASSUME NEW p \in Procs, commit_done(p) PROVE HeadInv'
  BY <1>0, <1>6 DEF HeadInv, Proper, commit_done, disk
<1>7. CASE write_log
  <2>1. tail \in 1..Len(lh)
    BY <1>7, TailFacts DEF write_log
  <2>2. lh # <<>>
    BY <1>0, <2>1 DEF TypeOK
  <2>3. UNCHANGED <<head, lh>>
    BY <1>7 DEF write_log, logvars
  <2> QED
    BY <1>0, <1>a, <1>7, <2>1, <2>2, <2>3 DEF HeadInv, Proper, write_log
<1>8. CASE write_head
  <2>1. 1 \in 1..Len(lh)
    BY <1>0, <1>8 DEF HeadInv, TypeOK, write_head
  <2>2. head' = lh /\ lh' = lh /\ tail' = tail
    BY <1>8 DEF write_head, logvars
  <2> QED
    BY <1>0, <1>8, <2>1, <2>2 DEF HeadInv, Proper, write_head
<1>9. CASE install_trans
  <2>1. tail \in 1..Len(lh)
    BY <1>9, TailFacts DEF install_trans
  <2>2. lh # <<>>
    BY <1>0, <2>1 DEF TypeOK
  <2>3. UNCHANGED <<head, lh>>
    BY <1>9 DEF install_trans, logvars
  <2> QED
    BY <1>0, <1>a, <1>9, <2>1, <2>2, <2>3 DEF HeadInv, Proper, install_trans
<1>10. CASE erase
  BY <1>0, <1>10 DEF HeadInv, Proper, erase
<1>11. ASSUME NEW b \in Blocks, recycle(b) PROVE HeadInv'
  BY <1>0, <1>11 DEF HeadInv, Proper, recycle, disk, logvars
<1>12. CASE crash
  BY <1>0, <1>12 DEF HeadInv, Proper, crash, disk
<1>13. CASE read_head
  <2>1. head # <<>> => 1 \in 1..Len(head)
    BY <1>0 DEF TypeOK
  <2>2. lh' = head /\ head' = head /\ tail' = tail
    BY <1>13 DEF read_head, disk
  <2> QED
    BY <1>0, <1>13, <2>1, <2>2 DEF HeadInv, Proper, read_head
<1>14. CASE replay
  <2>1. tail \in 1..Len(lh)
    BY <1>14, TailFacts DEF replay
  <2>3. UNCHANGED <<head, lh>>
    BY <1>14 DEF replay, logvars
  <2> QED
    BY <1>0, <1>a, <1>14, <2>1, <2>3 DEF HeadInv, Proper, replay
<1>15. CASE clear
  BY <1>0, <1>15 DEF HeadInv, Proper, clear
<1>16. CASE panic \/ UNCHANGED vars
  BY <1>0, <1>16 DEF panic, vars, disk, logvars, HeadInv, Proper
<1> QED
  BY <1>1, <1>2, <1>3, <1>4, <1>5, <1>6, <1>7, <1>8, <1>9, <1>10, <1>11, <1>12, <1>13, <1>14,
     <1>15,
     <1>16 DEF Next

\* log.outstanding counts the operations, and a commit starts with the last.
LEMMA OpsStep == LInv /\ [Next]_vars => OpsInv'
<1> SUFFICES ASSUME LInv, [Next]_vars PROVE OpsInv'
  OBVIOUS
<1>0. TypeOK /\ OpsInv
  BY DEF LInv
<1>a. IsFiniteSet(Active) /\ Cardinality(Active) \in Nat
  <2>1. Active \subseteq Procs
    BY DEF Active
  <2> QED
    BY <2>1, ProcsAssumption, FS_Subset, FS_CardinalityType
<1>1. ASSUME NEW p \in Procs, begin_op(p) PROVE OpsInv'
  <2>1. p \notin Active /\ Active' = Active \union {p}
    BY <1>0, <1>1 DEF Active, begin_op, TypeOK
  <2>2. Cardinality(Active') = Cardinality(Active) + 1
    BY <1>a, <2>1, FS_AddElement
  <2>3. mode = "run"
    BY <1>0, <1>1 DEF begin_op, OpsInv, Running
  <2> QED
    BY <1>0, <1>1, <2>2, <2>3 DEF OpsInv, begin_op
<1>2. ASSUME NEW p \in Procs, begin_op_sleep(p) PROVE OpsInv'
  <2>1. Active' = Active
    BY <1>0, <1>2 DEF Active, begin_op_sleep, TypeOK
  <2> QED
    BY <1>0, <1>2, <2>1 DEF OpsInv, begin_op_sleep, logvars
<1>3. ASSUME NEW p \in Procs, NEW b \in Blocks, NEW v \in Vals, log_write(p, b, v) PROVE OpsInv'
  BY <1>0, <1>3 DEF OpsInv, Active, log_write
<1>4. ASSUME NEW p \in Procs, NEW b \in Blocks, log_write_panics(p, b) PROVE OpsInv'
  <2>1. mode = "run"
    BY <1>4, OpMode DEF log_write_panics, Writes
  <2> QED
    BY <1>0, <1>4, <2>1 DEF OpsInv, Active, log_write_panics, logvars, ops, Committing
<1>5. ASSUME NEW p \in Procs, end_op(p) PROVE OpsInv'
  <2>1. p \in Active /\ Active' = Active \ {p}
    BY <1>0, <1>5 DEF Active, end_op, Wake, TypeOK, Labels
  <2>2. Cardinality(Active') = Cardinality(Active) - 1
    BY <1>a, <2>1, FS_RemoveElement
  <2>3. mode = "run"
    BY <1>5, OpMode DEF end_op
  <2> QED
    BY <1>0, <1>5, <2>2, <2>3 DEF OpsInv, end_op
<1>6. ASSUME NEW p \in Procs, end_op_last(p) PROVE OpsInv'
  <2>1. p \in Active /\ Active' = Active \ {p}
    BY <1>0, <1>6 DEF Active, end_op_last, TypeOK
  <2>2. IsFiniteSet(Active') /\ Cardinality(Active') = Cardinality(Active) - 1
    BY <1>a, <2>1, FS_RemoveElement
  <2>3. Cardinality(Active') = 0
    <3>1. Cardinality(Active) = 1
      BY <1>0, <1>6 DEF OpsInv, end_op_last
    <3> QED
      BY <2>2, <3>1
  <2>4. Active' = {}
    BY <2>2, <2>3, FS_EmptySet
  <2>5. mode' \in Committing /\ committing' = TRUE /\ outstanding' = 0
    BY <1>6 DEF end_op_last, Committing
  <2> QED
    BY <2>3, <2>4, <2>5 DEF OpsInv
<1>7. ASSUME NEW p \in Procs, commit_done(p) PROVE OpsInv'
  <2>1. Active = {} /\ Active' = {}
    BY <1>0, <1>7 DEF OpsInv, Active, commit_done, Wake, TypeOK
  <2> QED
    BY <1>0, <1>7, <2>1 DEF OpsInv, commit_done, Committing
<1>8. CASE write_log \/ write_head \/ install_trans \/ erase
  <2>1. /\ UNCHANGED <<outstanding, committing, pc>>
        /\ mode \in Committing /\ mode' \in Committing
    BY <1>8 DEF write_log, write_head, install_trans, erase, logvars, ops, Committing
  <2>2. mode \notin {"run", "panicked"}
    BY <2>1 DEF Committing
  <2> QED
    BY <1>0, <2>1, <2>2 DEF OpsInv, Active
<1>9. ASSUME NEW b \in Blocks, recycle(b) PROVE OpsInv'
  BY <1>0, <1>9 DEF OpsInv, Active, recycle, logvars, ops
<1>10. CASE crash
  <2>1. Active' = {}
    BY <1>10 DEF Active, crash
  <2>2. mode' = "boot" /\ outstanding' = 0 /\ committing' = FALSE
    BY <1>10 DEF crash
  <2> QED
    BY <2>1, <2>2, FS_EmptySet DEF OpsInv, Committing
<1>11. CASE read_head \/ replay \/ clear
  <2>1. /\ UNCHANGED <<outstanding, committing, pc>>
        /\ mode \in Recovering /\ mode' \in Recovering \union {"run"}
    BY <1>11 DEF read_head, replay, clear, logvars, ops, Recovering
  <2>2. mode \notin Committing /\ mode' \notin Committing /\ mode \notin {"run", "panicked"}
    BY <2>1 DEF Committing, Recovering
  <2> QED
    BY <1>0, <2>1, <2>2 DEF OpsInv, Active
<1>12. CASE panic \/ UNCHANGED vars
  BY <1>0, <1>12 DEF panic, vars, logvars, ops, OpsInv, Active
<1> QED
  BY <1>1, <1>2, <1>3, <1>4, <1>5, <1>6, <1>7, <1>8, <1>9, <1>10, <1>11, <1>12 DEF Next

\* A buffer the disk does not agree with stays pinned until it is installed.
LEMMA BufStep == LInv /\ [Next]_vars => BufInv'
<1> SUFFICES ASSUME LInv, [Next]_vars PROVE BufInv'
  OBVIOUS
<1>0. TypeOK /\ HeadInv /\ BufInv
  BY DEF LInv
<1>a. Len(lh) \in Nat /\ tail \in Nat
  BY <1>0 DEF TypeOK
<1>1. ASSUME NEW p \in Procs, begin_op(p) \/ begin_op_sleep(p) \/ end_op(p) PROVE BufInv'
  <2>1. UNCHANGED <<home, lh, cache, pin, mode, tail>>
    BY <1>1 DEF begin_op, begin_op_sleep, end_op, disk, logvars, bufs
  <2> QED
    BY <1>0, <2>1 DEF BufInv, Todo, Clean, Dirty
<1>2. ASSUME NEW p \in Procs, NEW b \in Blocks, NEW v \in Vals, log_write(p, b, v) PROVE BufInv'
  <2>1. mode = "run" /\ UNCHANGED <<mode, tail, home>>
    BY <1>2, OpMode DEF log_write, Writes, disk
  <2>2. \A k : Todo(k) /\ Todo(k)'
    BY <2>1 DEF Todo
  <2>3. cache'[b] = v /\ \A c \in Blocks \ {b} : cache'[c] = cache[c]
    BY <1>0, <1>2 DEF log_write, TypeOK
  <2>4. /\ \E k \in 1..Len(lh') : lh'[k] = b
        /\ \A c \in Blocks \ {b} :
             (\E k \in 1..Len(lh') : lh'[k] = c) <=> (\E k \in 1..Len(lh) : lh[k] = c)
    <3>1. CASE b \in Logged
      BY <1>2, <3>1 DEF log_write, Logged
    <3>2. CASE b \notin Logged
      <4>1. lh' = Append(lh, b) /\ lh \in Seq(Blocks)
        BY <1>0, <1>2, <3>2 DEF log_write, TypeOK
      <4>2. /\ Len(lh') = Len(lh) + 1
            /\ lh'[Len(lh) + 1] = b
            /\ \A k \in 1..Len(lh) : lh'[k] = lh[k]
        BY <4>1
      <4> QED
        BY <1>a, <4>2
    <3> QED
      BY <3>1, <3>2
  <2>5. pin'[b] = 1 /\ \A c \in Blocks \ {b} : pin'[c] = pin[c]
    <3>1. CASE b \in Logged
      BY <1>0, <1>2, <2>2, <3>1 DEF log_write, Logged, BufInv, Dirty
    <3>2. CASE b \notin Logged
      <4>1. pin[b] = 0
        BY <1>0, <3>2 DEF Logged, BufInv, Clean
      <4> QED
        BY <1>0, <1>2, <3>2, <4>1 DEF log_write, TypeOK
    <3> QED
      BY <3>1, <3>2
  <2>6. Dirty(b)'
    BY <2>3, <2>5, ValsAssumption DEF Dirty
  <2>7. ASSUME NEW c \in Blocks \ {b}
        PROVE  (Clean(c)' <=> Clean(c)) /\ (Dirty(c)' <=> Dirty(c))
    BY <2>1, <2>3, <2>5 DEF Clean, Dirty
  <2> QED
    BY <1>0, <2>2, <2>4, <2>6, <2>7 DEF BufInv
<1>3. ASSUME NEW p \in Procs, NEW b \in Blocks, log_write_panics(p, b) PROVE BufInv'
  <2>1. mode = "run" /\ mode' = "panicked" /\ UNCHANGED <<home, lh, cache, pin, tail>>
    BY <1>3, OpMode DEF log_write_panics, Writes, disk, logvars, bufs
  <2> QED
    BY <1>0, <2>1 DEF BufInv, Todo, Clean, Dirty
<1>4. ASSUME NEW p \in Procs, end_op_last(p) PROVE BufInv'
  <2>1. /\ mode = "run" /\ UNCHANGED <<home, lh, cache, pin, tail>>
        /\ mode' = IF lh = <<>> THEN "done" ELSE "write_log"
    BY <1>4, OpMode DEF end_op_last, disk, bufs
  <2>2. CASE lh = <<>>
    BY <1>0, <2>1, <2>2 DEF BufInv, Clean, Dirty
  <2>3. CASE lh # <<>>
    BY <1>0, <2>1, <2>3 DEF BufInv, Todo, Clean, Dirty
  <2> QED
    BY <2>2, <2>3
<1>5. ASSUME NEW p \in Procs, commit_done(p) PROVE BufInv'
  <2>1. lh = <<>> /\ UNCHANGED <<home, lh, cache, pin>>
    BY <1>0, <1>5 DEF HeadInv, commit_done, disk, bufs
  <2> QED
    BY <1>0, <2>1 DEF BufInv, Clean, Dirty
<1>6. CASE write_log \/ write_head
  <2>1. /\ UNCHANGED <<home, lh, cache, pin>>
        /\ mode \in {"write_log", "write_head"}
        /\ mode' \in {"write_log", "write_head"} \/ (mode' = "install" /\ tail' = 1)
    BY <1>0, <1>6 DEF write_log, write_head, logvars, bufs, HeadInv
  <2>2. \A k \in 1..Len(lh) : Todo(k) /\ Todo(k)'
    BY <1>a, <2>1 DEF Todo
  <2> QED
    BY <1>0, <2>1, <2>2 DEF BufInv, Clean, Dirty
<1>7. CASE install_trans \/ replay
  <2>1. /\ tail \in 1..Len(lh) /\ lh[tail] \in Blocks /\ logblock[tail] \in Vals
        /\ UNCHANGED lh
        /\ home' = [home EXCEPT ![lh[tail]] = logblock[tail]]
        /\ cache' = [cache EXCEPT ![lh[tail]] = logblock[tail]]
    BY <1>7, TailFacts DEF install_trans, replay, CopyHome, logvars
  <2>2. PICK t \in Blocks : t = lh[tail]
    BY <2>1
  <2>3. Clean(t)'
    <3>1. cache'[t] = home'[t]
      BY <1>0, <2>1, <2>2 DEF TypeOK
    <3>2. CASE install_trans
      <4>1. pin[t] = 1
        BY <1>0, <1>a, <2>1, <2>2, <3>2 DEF BufInv, Todo, Dirty, install_trans
      <4> QED
        BY <1>0, <2>2, <3>1, <3>2, <4>1 DEF install_trans, TypeOK, Clean
    <3>3. CASE replay
      BY <1>0, <2>2, <3>1, <3>3 DEF BufInv, Todo, Clean, replay
    <3> QED
      BY <1>7, <3>2, <3>3
  <2>4. \A c \in Blocks \ {t} : pin'[c] = pin[c] /\ cache'[c] = cache[c] /\ home'[c] = home[c]
    BY <1>0, <1>7, <2>1, <2>2 DEF install_trans, replay, TypeOK
  <2>5. \A c \in Blocks \ {t} : (Clean(c)' <=> Clean(c)) /\ (Dirty(c)' <=> Dirty(c))
    BY <2>4 DEF Clean, Dirty
  <2>6. \A k \in 1..Len(lh) : Todo(k)' <=> Todo(k) /\ k # tail
    BY <1>a, <1>7, <2>1 DEF Todo, install_trans, replay
  <2>7. \A k \in 1..Len(lh) : lh[k] = t => k = tail
    BY <1>0, <2>1, <2>2 DEF HeadInv, Proper
  <2> QED
    BY <1>0, <2>1, <2>2, <2>3, <2>5, <2>6, <2>7 DEF BufInv
<1>8. CASE erase \/ clear
  <2>1. lh' = <<>> /\ mode \in {"erase", "clear"} /\ UNCHANGED <<home, cache, pin>>
    BY <1>8 DEF erase, clear, bufs
  <2> QED
    BY <1>0, <2>1 DEF BufInv, Todo, Clean, Dirty
<1>9. ASSUME NEW b \in Blocks, recycle(b) PROVE BufInv'
  <2>1. Clean(b) /\ UNCHANGED <<home, lh, pin, mode, tail>>
    BY <1>0, <1>9 DEF BufInv, Dirty, recycle, disk, logvars
  <2>2. Clean(b)' /\ \A c \in Blocks \ {b} : cache'[c] = cache[c]
    BY <1>0, <1>9, <2>1 DEF recycle, Clean, TypeOK
  <2>3. ~Dirty(b)
    BY <2>1 DEF Clean, Dirty
  <2> QED
    BY <1>0, <2>1, <2>2, <2>3, SMTT(30) DEF BufInv, Todo, Clean, Dirty
<1>10. CASE crash
  BY <1>10 DEF crash, BufInv, Clean
<1>11. CASE read_head
  <2>1. mode = "boot" /\ mode' \in {"clear", "replay"} /\ UNCHANGED <<home, cache, pin>>
    BY <1>11 DEF read_head, disk, bufs
  <2> QED
    BY <1>0, <2>1 DEF BufInv, Todo, Clean, Dirty
<1>12. CASE panic \/ UNCHANGED vars
  BY <1>0, <1>12 DEF panic, vars, disk, logvars, bufs, BufInv, Todo, Clean, Dirty
<1> QED
  BY <1>1, <1>2, <1>3, <1>4, <1>5, <1>6, <1>7, <1>8, <1>9, <1>10, <1>11, <1>12 DEF Next

\* What write_log() and install_trans() have copied stays copied: the buffer
\* is pinned until it has been installed, and no block is in the log twice.
LEMMA CopyStep == LInv /\ [Next]_vars => CopyInv'
<1> SUFFICES ASSUME LInv, [Next]_vars PROVE CopyInv'
  OBVIOUS
<1>0. TypeOK /\ HeadInv /\ BufInv /\ CopyInv
  BY DEF LInv
<1>a. Len(lh) \in Nat /\ tail \in Nat /\ (\A k \in 1..Len(lh) : lh[k] \in Blocks)
  BY <1>0 DEF TypeOK
<1>1. ASSUME mode' \in {"run", "panicked", "boot", "done"} PROVE CopyInv'
  BY <1>1 DEF CopyInv, InLog, AtHome
<1>2. ASSUME NEW p \in Procs,
             begin_op(p) \/ begin_op_sleep(p) \/ end_op(p) \/ end_op_last(p) PROVE CopyInv'
  <2>1. CASE end_op_last(p)
    <3>1. CASE mode' = "done"
      BY <1>1, <3>1
    <3>2. CASE mode' = "write_log"
      <4>1. tail' = 1
        BY <2>1, OpMode, <1>0 DEF end_op_last, HeadInv
      <4>2. Len(lh') \in Nat
        BY <2>1, <1>a DEF end_op_last
      <4> QED
        BY <3>2, <4>1, <4>2 DEF CopyInv, InLog, AtHome
    <3> QED
      BY <2>1, <3>1, <3>2 DEF end_op_last
  <2>2. CASE begin_op(p) \/ begin_op_sleep(p) \/ end_op(p)
    <3>1. UNCHANGED <<home, logblock, lh, cache, mode, tail>>
      BY <2>2 DEF begin_op, begin_op_sleep, end_op, disk, logvars, bufs
    <3> QED
      BY <1>0, <3>1 DEF CopyInv, InLog, AtHome
  <2> QED
    BY <1>2, <2>1, <2>2
<1>3. ASSUME NEW p \in Procs, NEW b \in Blocks, NEW v \in Vals, log_write(p, b, v) PROVE CopyInv'
  <2>1. mode' = "run"
    BY <1>3, OpMode DEF log_write, Writes
  <2> QED
    BY <1>1, <2>1
<1>4. ASSUME NEW p \in Procs, NEW b \in Blocks, log_write_panics(p, b) PROVE CopyInv'
  BY <1>1, <1>4 DEF log_write_panics
<1>5. ASSUME NEW p \in Procs, commit_done(p) PROVE CopyInv'
  BY <1>1, <1>5 DEF commit_done
<1>6. CASE write_log
  <2>1. tail \in 1..Len(lh) /\ lh[tail] \in Blocks /\ tail \in 1..(size - 1)
    BY <1>6, TailFacts DEF write_log
  <2>2. View(lh[tail]) = cache[lh[tail]]
    BY <1>0, <1>6, <2>1 DEF BufInv, Todo, Dirty, View, write_log
  <2>3. /\ logblock'[tail] = cache[lh[tail]]
        /\ \A k \in 1..Len(lh) : k # tail => logblock'[k] = logblock[k]
    BY <1>0, <1>6, <2>1, <2>2 DEF write_log, TypeOK, HeadInv, Proper
  <2>4. \A k \in 1..Len(lh) : InLog(k)' => InLog(k) \/ k = tail
    BY <1>a, <1>6, <2>1 DEF InLog, write_log
  <2>5. \A k : ~AtHome(k)'
    BY <1>6 DEF AtHome, write_log
  <2>6. UNCHANGED <<lh, cache>>
    BY <1>6 DEF write_log, logvars, bufs
  <2> QED
    BY <1>0, <2>3, <2>4, <2>5, <2>6 DEF CopyInv
<1>7. CASE write_head
  <2>1. mode = "write_head" /\ mode' = "install" /\ tail' = 1 /\ UNCHANGED <<lh, logblock, cache>>
    BY <1>0, <1>7 DEF HeadInv, write_head, logvars, bufs
  <2>2. \A k \in 1..Len(lh) : InLog(k) /\ ~AtHome(k)'
    BY <1>a, <2>1 DEF InLog, AtHome
  <2> QED
    BY <1>0, <2>1, <2>2 DEF CopyInv
<1>8. CASE install_trans \/ replay
  <2>1. /\ tail \in 1..Len(lh) /\ lh[tail] \in Blocks /\ logblock[tail] \in Vals
        /\ UNCHANGED <<lh, logblock>>
        /\ home' = [home EXCEPT ![lh[tail]] = logblock[tail]]
        /\ cache' = [cache EXCEPT ![lh[tail]] = logblock[tail]]
    BY <1>8, TailFacts DEF install_trans, replay, CopyHome, logvars
  <2>2. /\ home'[lh[tail]] = logblock[tail]
        /\ \A k \in 1..Len(lh) : k # tail => home'[lh[k]] = home[lh[k]] /\ cache'[lh[k]] = cache[lh[k]]
    BY <1>0, <1>a, <2>1 DEF TypeOK, HeadInv, Proper
  <2>3. \A k \in 1..Len(lh) : InLog(k)' => InLog(k) /\ k # tail
    BY <1>a, <1>8, <2>1 DEF InLog, install_trans, replay
  <2>4. \A k \in 1..Len(lh) : AtHome(k)' => AtHome(k) \/ k = tail
    BY <1>a, <1>8, <2>1 DEF AtHome, install_trans, replay
  <2> QED
    BY <1>0, <2>1, <2>2, <2>3, <2>4 DEF CopyInv
<1>9. CASE erase \/ clear
  BY <1>1, <1>9 DEF erase, clear
<1>10. ASSUME NEW b \in Blocks, recycle(b) PROVE CopyInv'
  <2>1. UNCHANGED <<home, logblock, lh, mode, tail>> /\ pin[b] = 0
    BY <1>10 DEF recycle, disk, logvars
  <2>2. \A k \in 1..Len(lh) : InLog(k) => cache'[lh[k]] = cache[lh[k]]
    <3>1. \A k \in 1..Len(lh) : InLog(k) => Todo(k)
      BY DEF InLog, Todo
    <3>2. \A k \in 1..Len(lh) : InLog(k) => lh[k] # b
      BY <1>0, <1>a, <2>1, <3>1 DEF BufInv, Dirty
    <3> QED
      BY <1>0, <1>a, <1>10, <3>2 DEF recycle, TypeOK
  <2> QED
    BY <1>0, <2>1, <2>2 DEF CopyInv, InLog, AtHome
<1>11. CASE crash
  BY <1>1, <1>11 DEF crash
<1>12. CASE read_head
  <2>1. tail' = 1 /\ lh' = head /\ mode' = IF head = <<>> THEN "clear" ELSE "replay"
    BY <1>0, <1>12 DEF HeadInv, read_head
  <2>2. Len(head) \in Nat
    BY <1>0 DEF TypeOK
  <2>3. \A k \in 1..Len(lh') : ~InLog(k)' /\ ~AtHome(k)'
    BY <2>1, <2>2 DEF InLog, AtHome
  <2> QED
    BY <2>3 DEF CopyInv
<1>13. CASE panic \/ UNCHANGED vars
  BY <1>0, <1>13 DEF panic, vars, disk, logvars, bufs, CopyInv, InLog, AtHome
<1> QED
  BY <1>2, <1>3, <1>4, <1>5, <1>6, <1>7, <1>8, <1>9, <1>10, <1>11, <1>12, <1>13 DEF Next

\* LInv is an invariant of the log.
THEOREM LogInvariant == Spec => []LInv
<1>1. LInv /\ [Next]_vars => LInv'
  BY TypeStep, HeadStep, OpsStep, BufStep, CopyStep DEF LInv
<1> QED
  BY InitLInv, <1>1, PTL DEF Spec

-----------------------------------------------------------------------------
\* What a crash leaves, entry by entry.
DurableOK ==
  /\ Durable = [b \in Blocks |-> Durable[b]]
  /\ \A k \in 1..Len(head) : Durable[head[k]] = logblock[k]
  /\ \A b \in Blocks : (\A k \in 1..Len(head) : head[k] # b) => Durable[b] = home[b]

\* No block is twice in the header, so each has one block of the log.
LEMMA DurableFacts == LInv => DurableOK
<1> SUFFICES ASSUME LInv PROVE DurableOK
  OBVIOUS
<1>0. Proper(head) /\ head \in Seq(Blocks)
  BY DEF LInv, HeadInv, TypeOK
<1>1. Durable = [b \in Blocks |-> Durable[b]]
  BY DEF Durable
<1>2. ASSUME NEW k \in 1..Len(head) PROVE Durable[head[k]] = logblock[k]
  <2>1. head[k] \in Blocks
    BY <1>0
  <2>2. (CHOOSE j \in 1..Len(head) : head[j] = head[k]) = k
    BY <1>0 DEF Proper
  <2> QED
    BY <2>1, <2>2 DEF Durable
<1>3. ASSUME NEW b \in Blocks, \A k \in 1..Len(head) : head[k] # b PROVE Durable[b] = home[b]
  BY <1>3 DEF Durable
<1> QED
  BY <1>1, <1>2, <1>3 DEF DurableOK

\* With no header on disk, a crash leaves the home locations.
LEMMA DurableEmpty ==
  ASSUME LInv, head = <<>>
  PROVE  \A b \in Blocks : Durable[b] = home[b]
BY DurableFacts DEF DurableOK

\* A clean block reads as its home location.
LEMMA CleanView ==
  ASSUME NEW b \in Blocks, Clean(b)
  PROVE  View(b) = home[b]
BY DEF Clean, View

\* Once the log has been installed, the home locations are what a crash leaves.
LEMMA InstalledDurable ==
  ASSUME LInv, mode \in {"erase", "clear"}
  PROVE  \A b \in Blocks : Durable[b] = home[b]
<1>1. head = lh /\ \A k \in 1..Len(lh) : home[lh[k]] = logblock[k]
  BY DEF LInv, HeadInv, CopyInv, AtHome
<1> QED
  BY <1>1, DurableFacts DEF DurableOK

\* The two functions of the mapping change only where their values do.
LEMMA SameDurable ==
  ASSUME LInv, LInv', \A b \in Blocks : Durable'[b] = Durable[b]
  PROVE  Durable' = Durable
<1>1. DurableOK /\ DurableOK'
  BY DurableFacts, PTL
<1> QED
  BY <1>1 DEF DurableOK

\* A step that changes neither the durable contents nor what is read changes nothing.
LEMMA SameCurrent ==
  ASSUME Durable' = Durable, \A b \in Blocks : View(b)' = View(b),
         mode' \in Recovering <=> mode \in Recovering
  PROVE  Current' = Current
BY DEF Current

\* A step that leaves the disk leaves what a crash leaves.
LEMMA DiskDurable ==
  ASSUME UNCHANGED disk
  PROVE  Durable' = Durable
BY DEF disk, Durable

\* Copying a block of the log home changes neither what a crash leaves nor,
\* if it comes from the buffer, what operations see.
LEMMA CopyKeeps ==
  ASSUME LInv, LInv', mode \in {"install", "replay"}, CopyHome, UNCHANGED <<lh, head, logblock>>
  PROVE  /\ Durable' = Durable
         /\ mode = "install" => \A b \in Blocks : View(b)' = View(b)
<1>1. /\ tail \in 1..Len(lh) /\ lh[tail] \in Blocks /\ logblock[tail] \in Vals
      /\ home \in [Blocks -> Vals] /\ cache \in [Blocks -> Vals \union {NotCached}]
  BY TailFacts DEF LInv, TypeOK
<1>2. PICK t \in Blocks : t = lh[tail]
  BY <1>1
<1>3. /\ home'[t] = logblock[tail] /\ cache'[t] = logblock[tail]
      /\ \A b \in Blocks \ {t} : home'[b] = home[b] /\ cache'[b] = cache[b]
  BY <1>1, <1>2 DEF CopyHome
<1>4. head = lh
  BY DEF LInv, HeadInv
<1>5. DurableOK /\ DurableOK'
  BY DurableFacts, PTL
<1>6. \A b \in Blocks : Durable'[b] = Durable[b]
  BY <1>1, <1>2, <1>3, <1>4, <1>5, SMTT(30) DEF DurableOK
<1>7. ASSUME mode = "install" PROVE \A b \in Blocks : View(b)' = View(b)
  <2>1. tail <= tail
    BY <1>1 DEF LInv, TypeOK
  <2>2. cache[t] = logblock[tail]
    BY <1>1, <1>2, <1>7, <2>1 DEF LInv, CopyInv, InLog
  <2> QED
    BY <1>1, <1>3, <2>2, ValsAssumption DEF View
<1> QED
  BY <1>6, <1>7, SameDurable

\* Every step of the log is a step of the atomic disk, or none.
LEMMA AtomicStep ==
  LInv /\ LInv' /\ [Next]_vars => [Atomic!ANext]_(Atomic!avars)
<1> SUFFICES ASSUME LInv, LInv', [Next]_vars PROVE [Atomic!ANext]_(Atomic!avars)
  OBVIOUS
<1> DEFINE Still == Durable' = Durable /\ Current' = Current
<1>0. TypeOK /\ HeadInv /\ OpsInv /\ BufInv /\ CopyInv
  BY DEF LInv
<1>a. ASSUME Still, Active' = Active PROVE [Atomic!ANext]_(Atomic!avars)
  BY <1>a DEF Atomic!avars, Active
<1>b. ASSUME UNCHANGED <<disk, bufs>>, mode' \in Recovering <=> mode \in Recovering PROVE Still
  <2>1. Durable' = Durable
    BY <1>b, DiskDurable
  <2>2. \A b \in Blocks : View(b)' = View(b)
    BY <1>b DEF View, disk, bufs
  <2> QED
    BY <1>b, <2>1, <2>2, SameCurrent
<1>1. ASSUME NEW p \in Procs, begin_op(p) PROVE [Atomic!ANext]_(Atomic!avars)
  <2>1. Still
    BY <1>b, <1>1 DEF begin_op
  <2>2. Active' = Active \union {p}
    BY <1>0, <1>1 DEF begin_op, Active, TypeOK
  <2>3. Atomic!Begin(p)
    BY <2>1, <2>2 DEF Atomic!Begin, Active
  <2> QED
    BY <2>3 DEF Atomic!ANext
<1>2. ASSUME NEW p \in Procs, begin_op_sleep(p) PROVE [Atomic!ANext]_(Atomic!avars)
  <2>1. Active' = Active
    BY <1>0, <1>2 DEF begin_op_sleep, Active, TypeOK
  <2>2. Still
    BY <1>b, <1>2 DEF begin_op_sleep
  <2> QED
    BY <1>a, <2>1, <2>2
<1>3. ASSUME NEW p \in Procs, NEW b \in Blocks, NEW v \in Vals, log_write(p, b, v)
      PROVE  [Atomic!ANext]_(Atomic!avars)
  <2>1. mode = "run" /\ mode' = mode /\ UNCHANGED <<disk, pc>>
    BY <1>3, OpMode DEF log_write, Writes
  <2>2. Durable' = Durable
    BY <2>1, DiskDurable
  <2>3. Active # {} /\ Active' = Active
    BY <1>3, <2>1 DEF log_write, Writes, Active
  <2>4. View(b)' = v /\ \A c \in Blocks \ {b} : View(c)' = View(c)
    BY <1>0, <1>3, <2>1, ValsAssumption, SMTT(30) DEF log_write, View, TypeOK, disk
  <2>5. Current' = [Current EXCEPT ![b] = v]
    BY <2>1, <2>4, Zenon DEF Current, Recovering
  <2>6. Atomic!Write(b, v)
    BY <2>2, <2>3, <2>5 DEF Atomic!Write, Active
  <2> QED
    BY <2>6 DEF Atomic!ANext
<1>4. ASSUME NEW p \in Procs, NEW b \in Blocks, log_write_panics(p, b)
      PROVE  [Atomic!ANext]_(Atomic!avars)
  <2>1. mode = "run" /\ mode' = "panicked" /\ UNCHANGED <<disk, bufs, pc>>
    BY <1>4, OpMode DEF log_write_panics, Writes, ops
  <2>2. Still
    BY <1>b, <2>1 DEF Recovering
  <2> QED
    BY <1>a, <2>1, <2>2 DEF Active
<1>5. ASSUME NEW p \in Procs, end_op(p) \/ end_op_last(p) PROVE [Atomic!ANext]_(Atomic!avars)
  <2>1. mode = "run"
    BY <1>5, OpMode DEF end_op, end_op_last
  <2>2. UNCHANGED <<disk, bufs>> /\ mode' \in {"run", "done", "write_log"}
    BY <1>5, <2>1 DEF end_op, end_op_last
  <2>3. Still
    BY <1>b, <2>1, <2>2 DEF Recovering
  <2>4. Active' = Active \ {p}
    BY <1>0, <1>5 DEF end_op, end_op_last, Wake, Active, TypeOK
  <2>5. Atomic!End(p)
    BY <2>3, <2>4 DEF Atomic!End, Active
  <2> QED
    BY <2>5 DEF Atomic!ANext
<1>6. ASSUME NEW p \in Procs, commit_done(p) PROVE [Atomic!ANext]_(Atomic!avars)
  <2>1. Active' = Active
    BY <1>0, <1>6 DEF commit_done, Wake, Active, TypeOK
  <2>2. Still
    BY <1>b, <1>6 DEF commit_done, Recovering
  <2> QED
    BY <1>a, <2>1, <2>2
<1>7. CASE write_log
  <2>1. head = <<>> /\ head' = <<>> /\ UNCHANGED <<home, cache, pc>>
    BY <1>0, <1>7 DEF write_log, HeadInv, bufs, ops
  <2>2. Durable' = Durable
    BY <2>1 DEF Durable
  <2>3. Current' = Current
    <3>1. mode \notin Recovering /\ mode' \notin Recovering
      BY <1>7 DEF write_log, Recovering
    <3> QED
      BY <2>1, <3>1 DEF Current, View
  <2> QED
    BY <1>a, <2>1, <2>2, <2>3 DEF Active
<1>8. CASE write_head
  <2>1. /\ head = <<>> /\ head' = lh /\ UNCHANGED <<home, logblock, cache, pc, lh, pin>>
        /\ mode = "write_head" /\ mode' = "install"
    BY <1>0, <1>8 DEF write_head, HeadInv, bufs, ops, logvars
  <2>2. \A b \in Blocks : View(b)' = View(b)
    BY <2>1 DEF View
  <2>3. Current = [b \in Blocks |-> View(b)] /\ Current' = Current
    BY <2>1, <2>2 DEF Current, Recovering
  <2>4. DurableOK'
    BY DurableFacts, PTL
  <2>5. \A k \in 1..Len(lh) : lh[k] \in Blocks /\ logblock[k] = View(lh[k])
    BY <1>0, <2>1, SMTT(30) DEF CopyInv, InLog, BufInv, Todo, Dirty, View, TypeOK
  <2>6. \A b \in Blocks : (\A k \in 1..Len(lh) : lh[k] # b) => View(b) = home[b]
    BY <1>0, CleanView DEF BufInv
  <2>7. \A b \in Blocks : Durable'[b] = View(b)
    BY <2>1, <2>4, <2>5, <2>6 DEF DurableOK
  <2>8. Durable' = Current
    BY <2>3, <2>4, <2>7 DEF DurableOK
  <2>9. Active = {} /\ Active' = {}
    BY <1>0, <2>1 DEF OpsInv, Active
  <2>10. Atomic!Commit
    BY <2>3, <2>8, <2>9 DEF Atomic!Commit, Active
  <2> QED
    BY <2>10 DEF Atomic!ANext
<1>9. CASE install_trans \/ replay
  <2>1. /\ mode \in {"install", "replay"} /\ CopyHome /\ UNCHANGED <<lh, head, logblock, pc>>
        /\ mode = "install" => mode' \in {"install", "erase"}
        /\ mode = "replay" => mode' \in {"replay", "clear"}
    BY <1>9 DEF install_trans, replay, logvars, ops
  <2>2. Durable' = Durable /\ (mode = "install" => \A b \in Blocks : View(b)' = View(b))
    BY <2>1, CopyKeeps
  <2>3. Current' = Current
    BY <2>1, <2>2 DEF Current, Recovering
  <2> QED
    BY <1>a, <2>1, <2>2, <2>3 DEF Active
<1>10. CASE erase \/ clear
  <2>1. mode \in {"erase", "clear"} /\ head' = <<>> /\ UNCHANGED <<home, cache, pc>>
    BY <1>10 DEF erase, clear, bufs, ops
  <2>2. \A b \in Blocks : Durable[b] = home[b]
    BY <2>1, InstalledDurable
  <2>3. DurableOK'
    BY DurableFacts, PTL
  <2>4. \A b \in Blocks : Durable'[b] = home[b]
    BY <2>1, <2>3 DEF DurableOK
  <2>5. Durable' = Durable
    BY <2>2, <2>4, SameDurable, SMTT(30)
  <2>6. \A b \in Blocks : View(b)' = View(b) /\ View(b) = home[b]
    BY <1>0, <2>1, CleanView DEF View, BufInv, Todo
  <2>7. mode' \notin Recovering
    BY <1>10 DEF erase, clear, Recovering
  <2>8. Current' = Current
    BY <2>2, <2>5, <2>6, <2>7 DEF Current
  <2> QED
    BY <1>a, <2>1, <2>5, <2>8 DEF Active
<1>11. ASSUME NEW b \in Blocks, recycle(b) PROVE [Atomic!ANext]_(Atomic!avars)
  <2>1. Clean(b) /\ UNCHANGED <<disk, mode, pc>>
    BY <1>0, <1>11 DEF BufInv, Dirty, recycle, ops
  <2>2. \A c \in Blocks : View(c)' = View(c)
    BY <1>0, <1>11, <2>1 DEF recycle, Clean, View, TypeOK, disk
  <2>3. Still
    BY <2>1, <2>2, DiskDurable, SameCurrent
  <2> QED
    BY <1>a, <2>1, <2>3, SMTT(30) DEF Active
<1>12. CASE crash
  <2>1. Durable' = Durable
    BY <1>12, DiskDurable DEF crash
  <2>2. DurableOK'
    BY DurableFacts, PTL
  <2>3. Current' = Durable'
    BY <1>12, <2>2 DEF Current, crash, Recovering, DurableOK
  <2>4. Active' = {}
    BY <1>12 DEF crash, Active
  <2>5. Atomic!Crash
    BY <2>1, <2>3, <2>4 DEF Atomic!Crash, Active
  <2> QED
    BY <2>5 DEF Atomic!ANext
<1>13. CASE read_head
  <2>1. Still
    BY <1>b, <1>13 DEF read_head, Recovering
  <2> QED
    BY <1>a, <1>13, <2>1 DEF read_head, ops, Active
<1>14. CASE panic \/ UNCHANGED vars
  <2>1. UNCHANGED <<disk, bufs, mode, pc>>
    BY <1>14 DEF panic, vars, ops
  <2>2. Still
    BY <1>b, <2>1
  <2> QED
    BY <1>a, <2>1, <2>2 DEF Active
<1> QED
  BY <1>1, <1>2, <1>3, <1>4, <1>5, <1>6, <1>7, <1>8, <1>9, <1>10, <1>11, <1>12, <1>13, <1>14,
     SMTT(30) DEF Next

\* The log is an atomic disk: after recovery from any number of crashes, at
\* any moment of commit() or of recover_from_log(), the writes of an operation
\* are on disk altogether or not at all.
THEOREM LogIsAtomic == Spec => IsAtomic
<1>1. Init => Atomic!AInit
  <2> SUFFICES ASSUME Init PROVE Atomic!AInit
    OBVIOUS
  <2>1. LInv /\ head = <<>>
    BY InitLInv DEF Init
  <2>2. Durable = home
    BY <2>1, DurableEmpty, DurableFacts DEF DurableOK, LInv, TypeOK
  <2>3. home = InitDisk
    BY DEF Init
  <2>4. Current = InitDisk
    BY <2>3, InitDiskAssumption DEF Current, View, Init, Recovering
  <2> QED
    BY <2>2, <2>3, <2>4 DEF Init, Atomic!AInit
<1> QED
  BY <1>1, AtomicStep, LogInvariant, PTL DEF Spec, IsAtomic, Atomic!ASpec

\* end_op() of the last operation returns only when no crash can undo what
\* has been written.
THEOREM CommittedIsDurableCorrect == Spec => CommittedIsDurable
<1>1. LInv /\ [Next]_vars => [\A p \in Procs : commit_done(p) => Durable = Current]_vars
  <2> SUFFICES ASSUME LInv, NEW p \in Procs, commit_done(p) PROVE Durable = Current
    OBVIOUS
  <2>1. mode = "done" /\ head = <<>> /\ lh = <<>>
    BY DEF commit_done, LInv, HeadInv
  <2>2. \A b \in Blocks : Clean(b)
    BY <2>1 DEF LInv, BufInv
  <2>3. \A b \in Blocks : Durable[b] = View(b)
    BY <2>1, <2>2, DurableEmpty, CleanView
  <2>4. Current = [b \in Blocks |-> View(b)]
    BY <2>1 DEF Current, Recovering
  <2> QED
    BY <2>3, <2>4, DurableFacts DEF DurableOK
<1> QED
  BY <1>1, LogInvariant, PTL DEF Spec, CommittedIsDurable
=============================================================================
