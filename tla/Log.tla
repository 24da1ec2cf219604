--------------------------------- MODULE Log ---------------------------------
(***************************************************************************)
(* The file system's redo log (kernel/log.c): begin_op, log_write, end_op  *)
(* and commit() by concurrent system calls, and recover_from_log() after a *)
(* crash at any moment, a crash during recovery included.                  *)
(*                                                                         *)
(* The disk is the home location of every block, the data blocks of the    *)
(* log and its header; bwrite() of one block is atomic.  The buffer cache  *)
(* holds a block's contents as long as its buffer is pinned (bpin), and    *)
(* may recycle any other at any time.  The critical sections of log.lock   *)
(* are actions; commit() runs without it, one action per disk write.       *)
(* A logheader is the sequence of its first n block numbers.               *)
(***************************************************************************)
EXTENDS Naturals, Sequences, FiniteSets, FiniteSetsExt

CONSTANTS
  Procs,         \* processes that make file system calls
  Blocks,        \* block numbers outside the log
  Vals,          \* contents of a block
  NotCached,     \* no buffer holds the block
  LOGSIZE, MAXOPBLOCKS,
  size,          \* log.size, from the superblock: blocks of the log, header included
  InitDisk,      \* the file system as mkfs made it
  zeroes,        \* a block of zeroes, with which mkfs fills the log
  MaxCrashes     \* bound: crashes

ASSUME ProcsAssumption == IsFiniteSet(Procs)
ASSUME ValsAssumption == NotCached \notin Vals /\ zeroes \in Vals
ASSUME LOGSIZEAssumption == LOGSIZE \in Nat /\ MAXOPBLOCKS \in Nat
ASSUME sizeAssumption == size \in Nat
ASSUME InitDiskAssumption == InitDisk \in [Blocks -> Vals]
ASSUME MaxCrashesAssumption == MaxCrashes \in Nat

VARIABLES
  home,          \* on disk: the blocks at their home location
  logblock,      \* on disk: log block log.start + 1 + k is logblock[k + 1]
  head,          \* on disk: the header of the log
  lh,            \* log.lh
  outstanding, committing,
  cache,         \* what the buffer of a block holds, or NotCached
  pin,           \* how often the block's buffer is pinned
  mode,          \* what the kernel is doing with the log: see Modes
  tail,          \* the loop variable of write_log() and install_trans()
  pc,            \* where each process is
  written,       \* the blocks each process has written in its operation
  crashes        \* number of crashes so far

disk == <<home, logblock, head>>
logvars == <<lh, outstanding, committing>>
bufs == <<cache, pin>>
ops == <<pc, written>>
vars == <<disk, logvars, bufs, mode, tail, ops, crashes>>

\* "run": no commit is under way; then the stages of commit(); then those of
\* recover_from_log(); "panicked": panic("too big a transaction").
Committing == {"write_log", "write_head", "install", "erase", "done"}
Recovering == {"boot", "replay", "clear"}
Logged == {lh[k] : k \in 1..Len(lh)}

Init ==
  /\ home = InitDisk
  /\ logblock = [k \in 1..(size - 1) |-> zeroes]
  /\ head = <<>>
  /\ lh = <<>>
  /\ outstanding = 0
  /\ committing = FALSE
  /\ cache = [b \in Blocks |-> NotCached]
  /\ pin = [b \in Blocks |-> 0]
  /\ mode = "run"
  /\ tail = 1
  /\ pc = [p \in Procs |-> "user"]
  /\ written = [p \in Procs |-> {}]
  /\ crashes = 0

\* What bread(b) returns.
View(b) == IF cache[b] = NotCached THEN home[b] ELSE cache[b]

Running == mode \in {"run"} \union Committing

\* wakeup(&log)
Wake(f) == [q \in Procs |-> IF f[q] = "asleep" THEN "awake" ELSE f[q]]

-----------------------------------------------------------------------------
\* Is there room in the log for one operation more?
Room == Len(lh) + (outstanding + 1) * MAXOPBLOCKS <= LOGSIZE

\* Mutation: what is in the log already is not counted.
begin_op_forgets(p) ==
  /\ Running /\ pc[p] \in {"user", "awake"}
  /\ ~committing /\ (outstanding + 1) * MAXOPBLOCKS <= LOGSIZE
  /\ outstanding' = outstanding + 1
  /\ pc' = [pc EXCEPT ![p] = "op"]
  /\ UNCHANGED <<disk, lh, committing, bufs, mode, tail, written, crashes>>

begin_op(p) ==
  /\ Running /\ pc[p] \in {"user", "awake"}
  /\ ~committing /\ Room
  /\ outstanding' = outstanding + 1
  /\ pc' = [pc EXCEPT ![p] = "op"]
  /\ UNCHANGED <<disk, lh, committing, bufs, mode, tail, written, crashes>>

begin_op_sleep(p) ==
  /\ Running /\ pc[p] \in {"user", "awake"}
  /\ committing \/ ~Room
  /\ pc' = [pc EXCEPT ![p] = "asleep"]
  /\ UNCHANGED <<disk, logvars, bufs, mode, tail, written, crashes>>

\* Inside an operation: bread(b), b->data = v, log_write, brelse, all with
\* b's buffer locked.  An operation writes at most MAXOPBLOCKS blocks.
Writes(p, b) ==
  /\ Running /\ pc[p] = "op"
  /\ Cardinality(written[p] \union {b}) <= MAXOPBLOCKS

TooBig == Len(lh) >= LOGSIZE \/ Len(lh) >= size - 1

\* Mutation: the buffer is not pinned.
log_write_unpinned(p, b, v) ==
  /\ Writes(p, b)
  /\ ~TooBig
  /\ cache' = [cache EXCEPT ![b] = v]
  /\ lh' = IF b \in Logged THEN lh ELSE Append(lh, b)
  /\ written' = [written EXCEPT ![p] = @ \union {b}]
  /\ UNCHANGED <<disk, outstanding, committing, pin, mode, tail, pc, crashes>>

log_write(p, b, v) ==
  /\ Writes(p, b)
  /\ ~TooBig
  /\ cache' = [cache EXCEPT ![b] = v]
  /\ lh' = IF b \in Logged THEN lh ELSE Append(lh, b)
  /\ pin' = IF b \in Logged THEN pin ELSE [pin EXCEPT ![b] = @ + 1]
  /\ written' = [written EXCEPT ![p] = @ \union {b}]
  /\ UNCHANGED <<disk, outstanding, committing, mode, tail, pc, crashes>>

\* panic("too big a transaction"), before the test for absorption.
log_write_panics(p, b) ==
  /\ Writes(p, b)
  /\ TooBig
  /\ mode' = "panicked"
  /\ UNCHANGED <<disk, logvars, bufs, tail, ops, crashes>>

\* end_op() of an operation that is not the last one.
end_op(p) ==
  /\ Running /\ pc[p] = "op"
  /\ outstanding > 1
  /\ outstanding' = outstanding - 1
  /\ pc' = Wake([pc EXCEPT ![p] = "user"])
  /\ written' = [written EXCEPT ![p] = {}]
  /\ UNCHANGED <<disk, lh, committing, bufs, mode, tail, crashes>>

\* Mutation: end_op() leaves the writing to a later commit.
end_op_lazy(p) ==
  /\ Running /\ pc[p] = "op"
  /\ outstanding = 1
  /\ outstanding' = 0
  /\ committing' = TRUE
  /\ mode' = "done"
  /\ pc' = [pc EXCEPT ![p] = "commit"]
  /\ written' = [written EXCEPT ![p] = {}]
  /\ UNCHANGED <<disk, lh, bufs, tail, crashes>>

\* end_op() of the last one: this process goes on to commit().
end_op_last(p) ==
  /\ Running /\ pc[p] = "op"
  /\ outstanding = 1
  /\ outstanding' = 0
  /\ committing' = TRUE
  /\ mode' = IF lh = <<>> THEN "done" ELSE "write_log"
  /\ pc' = [pc EXCEPT ![p] = "commit"]
  /\ written' = [written EXCEPT ![p] = {}]
  /\ UNCHANGED <<disk, lh, bufs, tail, crashes>>

-----------------------------------------------------------------------------
\* commit(): one block to the log.
write_log ==
  /\ mode = "write_log"
  /\ logblock' = [logblock EXCEPT ![tail] = View(lh[tail])]
  /\ mode' = IF tail = Len(lh) THEN "write_head" ELSE "write_log"
  /\ tail' = IF tail = Len(lh) THEN 1 ELSE tail + 1
  /\ UNCHANGED <<home, head, logvars, bufs, ops, crashes>>

\* "the real commit"
write_head ==
  /\ mode = "write_head"
  /\ head' = lh
  /\ mode' = "install"
  /\ UNCHANGED <<home, logblock, logvars, bufs, tail, ops, crashes>>

\* Log block tail goes to its home location, by way of that block's buffer.
CopyHome ==
  /\ home' = [home EXCEPT ![lh[tail]] = logblock[tail]]
  /\ cache' = [cache EXCEPT ![lh[tail]] = logblock[tail]]

install_trans ==
  /\ mode = "install"
  /\ CopyHome
  /\ pin' = [pin EXCEPT ![lh[tail]] = @ - 1]
  /\ mode' = IF tail = Len(lh) THEN "erase" ELSE "install"
  /\ tail' = IF tail = Len(lh) THEN 1 ELSE tail + 1
  /\ UNCHANGED <<logblock, head, logvars, ops, crashes>>

\* log.lh.n = 0; write_head()
erase ==
  /\ mode = "erase"
  /\ lh' = <<>>
  /\ head' = <<>>
  /\ mode' = "done"
  /\ UNCHANGED <<home, logblock, outstanding, committing, bufs, tail, ops, crashes>>


\* The end of end_op().
commit_done(p) ==
  /\ mode = "done"
  /\ pc[p] = "commit"
  /\ committing' = FALSE
  /\ mode' = "run"
  /\ pc' = Wake([pc EXCEPT ![p] = "user"])
  /\ UNCHANGED <<disk, lh, outstanding, bufs, tail, written, crashes>>

\* bget() recycles the buffer of a block that nobody has pinned, or reads
\* the block into one.
recycle(b) ==
  /\ Running
  /\ pin[b] = 0
  /\ cache' = [cache EXCEPT ![b] = IF @ = NotCached THEN home[b] ELSE NotCached]
  /\ UNCHANGED <<disk, logvars, pin, mode, tail, ops, crashes>>

-----------------------------------------------------------------------------
\* A crash, or a reboot after a panic: memory is lost, the disk is not.
crash ==
  /\ crashes < MaxCrashes
  /\ crashes' = crashes + 1
  /\ lh' = <<>>
  /\ outstanding' = 0
  /\ committing' = FALSE
  /\ cache' = [b \in Blocks |-> NotCached]
  /\ pin' = [b \in Blocks |-> 0]
  /\ mode' = "boot"
  /\ tail' = 1
  /\ pc' = [p \in Procs |-> "user"]
  /\ written' = [p \in Procs |-> {}]
  /\ UNCHANGED disk

\* recover_from_log(): read_head(), ...
read_head ==
  /\ mode = "boot"
  /\ lh' = head
  /\ mode' = IF head = <<>> THEN "clear" ELSE "replay"
  /\ UNCHANGED <<disk, outstanding, committing, bufs, tail, ops, crashes>>

\* ... install_trans(1), ...
replay ==
  /\ mode = "replay"
  /\ CopyHome
  /\ mode' = IF tail = Len(lh) THEN "clear" ELSE "replay"
  /\ tail' = IF tail = Len(lh) THEN 1 ELSE tail + 1
  /\ UNCHANGED <<logblock, head, logvars, pin, ops, crashes>>

\* ... log.lh.n = 0; write_head().
clear ==
  /\ mode = "clear"
  /\ lh' = <<>>
  /\ head' = <<>>
  /\ mode' = "run"
  /\ UNCHANGED <<home, logblock, outstanding, committing, bufs, tail, ops, crashes>>

panic == mode = "panicked" /\ UNCHANGED vars

Next ==
  \/ \E p \in Procs :
       \/ begin_op(p)
       \/ begin_op_sleep(p)
       \/ \E b \in Blocks, v \in Vals : log_write(p, b, v)
       \/ \E b \in Blocks : log_write_panics(p, b)
       \/ end_op(p)
       \/ end_op_last(p)
       \/ commit_done(p)
  \/ write_log
  \/ write_head
  \/ install_trans
  \/ erase
  \/ \E b \in Blocks : recycle(b)
  \/ crash
  \/ read_head
  \/ replay
  \/ clear
  \/ panic

Spec == Init /\ [][Next]_vars

\* A file system call ends; commit() and recovery go on; a process that is
\* awake in begin_op() gets log.lock.
Fairness ==
  /\ WF_vars(write_log \/ write_head \/ install_trans \/ erase)
  /\ WF_vars(read_head \/ replay \/ clear)
  /\ \A p \in Procs :
       /\ WF_vars(end_op(p) \/ end_op_last(p))
       /\ WF_vars(commit_done(p))
       /\ SF_vars(begin_op(p))

FairSpec == Spec /\ Fairness
-----------------------------------------------------------------------------
(***************************************************************************)
(* The contents a crash leaves: those of the log where its header on disk  *)
(* names the block, else those of the home location.                       *)
(***************************************************************************)
Durable == [b \in Blocks |->
  IF \E k \in 1..Len(head) : head[k] = b
  THEN logblock[CHOOSE k \in 1..Len(head) : head[k] = b]
  ELSE home[b]]

(***************************************************************************)
(* The contents operations see; while the kernel recovers there are none,  *)
(* and what they will see is what the crash left.                          *)
(***************************************************************************)
Current == [b \in Blocks |-> IF mode \in Recovering THEN Durable[b] ELSE View(b)]

(***************************************************************************)
(* The log implements an atomic disk: whatever crashes and wherever, every *)
(* operation's writes are on disk altogether or not at all after recovery, *)
(* and no operation is ever committed before it has ended.                 *)
(***************************************************************************)
Atomic == INSTANCE AtomicDisk
  WITH durable <- Durable, current <- Current, active <- {p \in Procs : pc[p] = "op"}

IsAtomic == Atomic!ASpec

(***************************************************************************)
(* end_op() of the last operation returns only after all that was written  *)
(* has reached the disk: from then on no crash can undo it.                *)
(***************************************************************************)
CommittedIsDurable == [][\A p \in Procs : commit_done(p) => Durable = Current]_vars

(***************************************************************************)
(* begin_op() reserves space: what is in the log, and what the operations  *)
(* under way may still write, never exceeds LOGSIZE blocks.                *)
(***************************************************************************)
Reserved ==
  Len(lh)
    + FoldSet(LAMBDA p, acc : acc + MAXOPBLOCKS - Cardinality(written[p]), 0,
              {p \in Procs : pc[p] = "op"})
    <= LOGSIZE

=============================================================================
