-------------------------------- MODULE Bcache --------------------------------
(***************************************************************************)
(* The buffer cache (kernel/bio.c) with its sleep locks                    *)
(* (kernel/sleeplock.c), on top of the disk driver of module Virtio.       *)
(*                                                                         *)
(* bcache.lock and the spinlock of a sleep lock protect one critical       *)
(* section each, which is an action.  The callers keep the rules of bio.c: *)
(* a buffer is used between bread() and brelse(), and what has been        *)
(* changed in it is written (bwrite) before it is released, or pinned as   *)
(* log_write() does and written before it is unpinned.                     *)
(***************************************************************************)
EXTENDS Virtio

CONSTANTS MaxPins    \* bound: pins at a time

ASSUME MaxPinsAssumption == MaxPins \in Nat

NoBlock == 0         \* bss: no block of the disk's device yet
ASSUME BlocksAssumption == NoBlock \notin Blocks
ASSUME BufsAssumption == NoBuf \notin Bufs
ASSUME ProcsAssumption == IsFiniteSet(Procs)

VARIABLES
  blockno, valid, refcnt,   \* struct buf
  pins,       \* how much of refcnt is due to bpin()
  locked,     \* b->lock: the process that has it, or NoProc
  mru,        \* the list of buffers, most recently used first
  pc,         \* where each process is
  buf,        \* the process's buffer
  want,       \* the block it asked bread() for
  panicked    \* panic("bget: no buffers")

NoProc == "none"
cvars == <<blockno, valid, refcnt, pins, locked, mru, pc, buf, want, panicked>>
vars == <<vvars, cvars>>

Init ==
  /\ VInit
  /\ blockno = [b \in Bufs |-> NoBlock]
  /\ valid = [b \in Bufs |-> FALSE]
  /\ refcnt = [b \in Bufs |-> 0]
  /\ pins = [b \in Bufs |-> 0]
  /\ locked = [b \in Bufs |-> NoProc]
  /\ mru \in {s \in [1..Cardinality(Bufs) -> Bufs] :
                \A j, k \in DOMAIN s : s[j] = s[k] => j = k}
  /\ pc = [p \in Procs |-> "idle"]
  /\ buf = [p \in Procs |-> NoBuf]
  /\ want = [p \in Procs |-> NoBlock]
  /\ panicked = FALSE

Goto(p, l) == pc' = [pc EXCEPT ![p] = l]
At(p, l) == ~panicked /\ pc[p] = l

-----------------------------------------------------------------------------
\* bget(): the block is cached, ...
bget_hit(p, blk, b) ==
  /\ At(p, "idle")
  /\ blockno[b] = blk
  /\ refcnt' = [refcnt EXCEPT ![b] = @ + 1]
  /\ buf' = [buf EXCEPT ![p] = b]
  /\ want' = [want EXCEPT ![p] = blk]
  /\ Goto(p, "lock")
  /\ UNCHANGED <<vvars, blockno, valid, pins, locked, mru, panicked>>

\* ... or it is not: the least recently used buffer with refcnt 0 is taken.
Cached(blk) == \E b \in Bufs : blockno[b] = blk
Victim(b) ==
  \E k \in DOMAIN mru :
    /\ mru[k] = b /\ refcnt[b] = 0
    /\ \A j \in DOMAIN mru : j > k => refcnt[mru[j]] > 0

\* Mutation: a buffer that is in use may be recycled.
bget_miss_any(p, blk, b) ==
  /\ At(p, "idle")
  /\ ~Cached(blk)
  /\ blockno' = [blockno EXCEPT ![b] = blk]
  /\ valid' = [valid EXCEPT ![b] = FALSE]
  /\ refcnt' = [refcnt EXCEPT ![b] = 1]
  /\ buf' = [buf EXCEPT ![p] = b]
  /\ want' = [want EXCEPT ![p] = blk]
  /\ Goto(p, "lock")
  /\ UNCHANGED <<vvars, pins, locked, mru, panicked>>

\* Mutation: the contents of the recycled buffer count as those of the block.
bget_miss_valid(p, blk, b) ==
  /\ At(p, "idle")
  /\ ~Cached(blk)
  /\ Victim(b)
  /\ blockno' = [blockno EXCEPT ![b] = blk]
  /\ refcnt' = [refcnt EXCEPT ![b] = 1]
  /\ buf' = [buf EXCEPT ![p] = b]
  /\ want' = [want EXCEPT ![p] = blk]
  /\ Goto(p, "lock")
  /\ UNCHANGED <<vvars, valid, pins, locked, mru, panicked>>

bget_miss(p, blk, b) ==
  /\ At(p, "idle")
  /\ ~Cached(blk)
  /\ Victim(b)
  /\ blockno' = [blockno EXCEPT ![b] = blk]
  /\ valid' = [valid EXCEPT ![b] = FALSE]
  /\ refcnt' = [refcnt EXCEPT ![b] = 1]
  /\ buf' = [buf EXCEPT ![p] = b]
  /\ want' = [want EXCEPT ![p] = blk]
  /\ Goto(p, "lock")
  /\ UNCHANGED <<vvars, pins, locked, mru, panicked>>

bget_panics(p, blk) ==
  /\ At(p, "idle")
  /\ ~Cached(blk)
  /\ \A b \in Bufs : refcnt[b] > 0
  /\ panicked' = TRUE
  /\ UNCHANGED <<vvars, blockno, valid, refcnt, pins, locked, mru, pc, buf, want>>

panic == panicked /\ UNCHANGED vars

\* acquiresleep(&b->lock)
acquiresleep(p) ==
  /\ At(p, "lock")
  /\ locked[buf[p]] = NoProc
  /\ locked' = [locked EXCEPT ![buf[p]] = p]
  /\ Goto(p, "bread")
  /\ UNCHANGED <<vvars, blockno, valid, refcnt, pins, mru, buf, want, panicked>>

acquiresleep_sleep(p) ==
  /\ At(p, "lock")
  /\ locked[buf[p]] # NoProc
  /\ Goto(p, "asleep")
  /\ UNCHANGED <<vvars, blockno, valid, refcnt, pins, locked, mru, buf, want, panicked>>

\* bread() with the buffer locked: read it unless it is valid.
bread_read(p) ==
  /\ At(p, "bread")
  /\ ~valid[buf[p]]
  /\ virtio_disk_rw(p, buf[p], FALSE, blockno[buf[p]])
  /\ Goto(p, "reading")
  /\ UNCHANGED <<blockno, valid, refcnt, pins, locked, mru, buf, want, panicked>>

bread_valid(p) ==
  /\ At(p, "bread")
  /\ valid[buf[p]]
  /\ Goto(p, "have")
  /\ UNCHANGED <<vvars, blockno, valid, refcnt, pins, locked, mru, buf, want, panicked>>

\* virtio_disk_rw() has returned.
Returned(p) ==
  /\ rpc[p] = "done"
  /\ rpc' = [rpc EXCEPT ![p] = "idle"]
  /\ UNCHANGED <<vqueue, device, data, owned, used_idx, irq, intr, req>>

bread_done(p) ==
  /\ At(p, "reading")
  /\ Returned(p)
  /\ valid' = [valid EXCEPT ![buf[p]] = TRUE]
  /\ Goto(p, "have")
  /\ UNCHANGED <<blockno, refcnt, pins, locked, mru, buf, want, panicked>>

bwrite(p) ==
  /\ At(p, "have")
  /\ virtio_disk_rw(p, buf[p], TRUE, blockno[buf[p]])
  /\ Goto(p, "writing")
  /\ UNCHANGED <<blockno, valid, refcnt, pins, locked, mru, buf, want, panicked>>

bwrite_done(p) ==
  /\ At(p, "writing")
  /\ Returned(p)
  /\ Goto(p, "have")
  /\ UNCHANGED <<blockno, valid, refcnt, pins, locked, mru, buf, want, panicked>>

\* The caller changes the data of the buffer it has locked.
modify(p, v) ==
  /\ At(p, "have")
  /\ data' = [data EXCEPT ![buf[p]] = v]
  /\ UNCHANGED <<vqueue, device, owned, used_idx, irq, intr, rpc, req, cvars>>

Clean(b) == data[b] = disk[blockno[b]]

bpin(p) ==
  /\ At(p, "have")
  /\ \A b \in Bufs : pins[b] < MaxPins
  /\ refcnt' = [refcnt EXCEPT ![buf[p]] = @ + 1]
  /\ pins' = [pins EXCEPT ![buf[p]] = @ + 1]
  /\ UNCHANGED <<vvars, blockno, valid, locked, mru, pc, buf, want, panicked>>

bunpin(p) ==
  /\ At(p, "have")
  /\ pins[buf[p]] > 0
  /\ Clean(buf[p])
  /\ refcnt' = [refcnt EXCEPT ![buf[p]] = @ - 1]
  /\ pins' = [pins EXCEPT ![buf[p]] = @ - 1]
  /\ UNCHANGED <<vvars, blockno, valid, locked, mru, pc, buf, want, panicked>>

\* brelse(): releasesleep(&b->lock) wakes who waits for it, ...
brelse(p) ==
  /\ At(p, "have")
  /\ Clean(buf[p]) \/ pins[buf[p]] > 0
  /\ locked' = [locked EXCEPT ![buf[p]] = NoProc]
  /\ pc' = [q \in Procs |-> IF q = p THEN "brelse"
              ELSE IF pc[q] = "asleep" /\ buf[q] = buf[p] THEN "lock" ELSE pc[q]]
  /\ UNCHANGED <<vvars, blockno, valid, refcnt, pins, mru, buf, want, panicked>>

\* ... and then the reference is dropped, under bcache.lock.
Front(b) == <<b>> \o SelectSeq(mru, LAMBDA c : c # b)

brelse_drop(p) ==
  /\ At(p, "brelse")
  /\ refcnt' = [refcnt EXCEPT ![buf[p]] = @ - 1]
  /\ mru' = IF refcnt[buf[p]] = 1 THEN Front(buf[p]) ELSE mru
  /\ buf' = [buf EXCEPT ![p] = NoBuf]
  /\ want' = [want EXCEPT ![p] = NoBlock]
  /\ Goto(p, "idle")
  /\ UNCHANGED <<vvars, blockno, valid, pins, locked, panicked>>

Step(p) ==
  \/ \E blk \in Blocks, b \in Bufs : bget_hit(p, blk, b)
  \/ \E blk \in Blocks, b \in Bufs : bget_miss(p, blk, b)
  \/ \E blk \in Blocks : bget_panics(p, blk)
  \/ acquiresleep(p)
  \/ acquiresleep_sleep(p)
  \/ bread_read(p)
  \/ bread_valid(p)
  \/ bread_done(p)
  \/ bwrite(p)
  \/ bwrite_done(p)
  \/ \E v \in Vals : modify(p, v)
  \/ bpin(p)
  \/ bunpin(p)
  \/ brelse(p)
  \/ brelse_drop(p)

DiskStep == ~panicked /\ VStep /\ UNCHANGED cvars

Next == (\E p \in Procs : Step(p)) \/ DiskStep \/ panic

Spec == Init /\ [][Next]_vars
-----------------------------------------------------------------------------
(***************************************************************************)
(* A block has at most one buffer, and bread() gives its caller the buffer *)
(* of the block it asked for: the buffer is not recycled between bget()    *)
(* and acquiresleep(), nor while the process sleeps for the lock or the    *)
(* disk.                                                                   *)
(***************************************************************************)
BufferOfItsBlock ==
  /\ \A b, c \in Bufs : blockno[b] = blockno[c] /\ blockno[b] # NoBlock => b = c
  /\ \A p \in Procs : buf[p] # NoBuf => blockno[buf[p]] = want[p]

(***************************************************************************)
(* The cache does not change what a block contains: the contents of a      *)
(* block, cached or on disk, change only when a process that has its       *)
(* buffer modifies it.  Neither recycling, nor reading, nor writing back   *)
(* loses or revives data.                                                  *)
(***************************************************************************)
Contents(blk) ==
  IF \E b \in Bufs : blockno[b] = blk /\ valid[b]
  THEN data[CHOOSE b \in Bufs : blockno[b] = blk /\ valid[b]]
  ELSE disk[blk]

OnlyModifyChanges == [][
    \A blk \in Blocks : Contents(blk)' # Contents(blk) =>
      \E p \in Procs : pc[p] = "have" /\ want[p] = blk /\ locked[buf[p]] = p
                       /\ \E v \in Vals : modify(p, v)]_vars
=============================================================================
