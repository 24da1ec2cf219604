-------------------------------- MODULE Virtio --------------------------------
(***************************************************************************)
(* The disk driver (kernel/virtio_disk.c): virtio_disk_rw() by processes,  *)
(* the interrupt handler, and the device, which finishes requests in any   *)
(* order.  Descriptors, the avail and used rings and their free-running    *)
(* 16-bit indices are as in the code.                                      *)
(*                                                                         *)
(* disk.vdisk_lock protects all but what the device does.  A process holds *)
(* it from posting a request until sleep() releases it, which is one       *)
(* action; the interrupt handler holds it from action to action, because   *)
(* the device may add to the used ring meanwhile.  An entry of a ring is   *)
(* set to 0 when it has been read, because it is not read again.           *)
(***************************************************************************)
EXTENDS Naturals, Sequences, FiniteSets

CONSTANTS
  Procs, Bufs, Blocks, Vals,
  NUM,        \* number of descriptors, and size of the rings
  IdxSize     \* 2^16: the indices are uint16

ASSUME NUMAssumption == NUM \in Nat /\ NUM >= 3
ASSUME IdxSizeAssumption == IdxSize \in Nat /\ IdxSize >= NUM /\ IdxSize % NUM = 0

Desc == 0..(NUM - 1)
NoDesc == NUM        \* the end of a chain
NoBuf == 0            \* the null pointer

VARIABLES
  disk,       \* contents of the disk
  data,       \* b->data
  owned,      \* b->disk: the disk owns the buffer
  free,       \* the free descriptors
  next,       \* desc[].next, NoDesc without VRING_DESC_F_NEXT
  op,         \* ops[]: the request headed by a descriptor
  info,       \* info[].b
  avail, availidx,     \* the avail ring, written by the driver
  used, usedidx,       \* the used ring, written by the device
  used_idx,   \* how far the driver has looked in the used ring
  seenidx,    \* how far the device has looked in the avail ring
  taken,      \* the requests the device is working on
  irq,        \* the device's interrupt is raised
  intr,       \* virtio_disk_intr() runs, holding vdisk_lock
  rpc,        \* where each process is in virtio_disk_rw()
  req         \* the call's arguments and idx[0]

vqueue == <<free, next, op, info, avail, availidx>>
device == <<disk, used, usedidx, seenidx, taken>>
vvars == <<vqueue, device, data, owned, used_idx, irq, intr, rpc, req>>

NoReq == [b |-> NoBuf, write |-> FALSE, blockno |-> 0, head |-> NoDesc]
NoOp == [write |-> FALSE, blockno |-> 0]

VInit ==
  /\ disk \in [Blocks -> Vals]
  /\ data \in [Bufs -> Vals]
  /\ owned = [b \in Bufs |-> FALSE]
  /\ free = Desc
  /\ next = [d \in Desc |-> NoDesc]
  /\ op = [d \in Desc |-> NoOp]
  /\ info = [d \in Desc |-> NoBuf]
  /\ avail = [k \in Desc |-> 0]
  /\ availidx = 0
  /\ used = [k \in Desc |-> 0]
  /\ usedidx = 0
  /\ used_idx = 0
  /\ seenidx = 0
  /\ taken = {}
  /\ irq = FALSE
  /\ intr = FALSE
  /\ rpc = [p \in Procs |-> "idle"]
  /\ req = [p \in Procs |-> NoReq]

-----------------------------------------------------------------------------
\* The call: virtio_disk_rw(b, write), with b->blockno.
virtio_disk_rw(p, b, w, blk) ==
  /\ rpc' = [rpc EXCEPT ![p] = "alloc"]
  /\ req' = [req EXCEPT ![p] = [b |-> b, write |-> w, blockno |-> blk, head |-> NoDesc]]
  /\ UNCHANGED <<vqueue, device, data, owned, used_idx, irq, intr>>

\* alloc3_desc() takes the lowest free descriptors.
Lowest(S) == CHOOSE d \in S : \A e \in S : d <= e
idx0 == Lowest(free)
idx1 == Lowest(free \ {idx0})
idx2 == Lowest(free \ {idx0, idx1})

\* wakeup(&disk.free[0]) while f becomes the new rpc.
WakeAlloc(f) == [q \in Procs |-> IF f[q] = "asleep" THEN "alloc" ELSE f[q]]

\* Too few are free: those got are given back, which wakes the others that
\* wait for descriptors, and then the process sleeps.
alloc3_desc_fails(p) ==
  /\ ~intr
  /\ rpc[p] = "alloc"
  /\ Cardinality(free) < 3
  /\ rpc' = [IF free = {} THEN rpc ELSE WakeAlloc(rpc) EXCEPT ![p] = "asleep"]
  /\ UNCHANGED <<vqueue, device, data, owned, used_idx, irq, intr, req>>

\* The request is formatted, posted and notified, and the process sleeps.
post(p) ==
  /\ ~intr
  /\ rpc[p] = "alloc"
  /\ Cardinality(free) >= 3
  /\ free' = free \ {idx0, idx1, idx2}
  /\ next' = [next EXCEPT ![idx0] = idx1, ![idx1] = idx2, ![idx2] = NoDesc]
  /\ op' = [op EXCEPT ![idx0] = [write |-> req[p].write, blockno |-> req[p].blockno]]
  /\ info' = [info EXCEPT ![idx0] = req[p].b]
  /\ owned' = [owned EXCEPT ![req[p].b] = TRUE]
  /\ avail' = [avail EXCEPT ![availidx % NUM] = idx0]
  /\ availidx' = (availidx + 1) % IdxSize
  /\ rpc' = [rpc EXCEPT ![p] = "posted"]
  /\ req' = [req EXCEPT ![p].head = idx0]
  /\ UNCHANGED <<device, data, used_idx, irq, intr>>

Chain(d) == {d, next[d], next[next[d]]}

\* Mutation: who waits for descriptors is not woken.
finish_silent(p) ==
  /\ ~intr
  /\ rpc[p] = "awake"
  /\ ~owned[req[p].b]
  /\ LET d == req[p].head IN
       /\ info' = [info EXCEPT ![d] = NoBuf]
       /\ free' = free \union Chain(d)
       /\ next' = [e \in Desc |-> IF e \in Chain(d) THEN NoDesc ELSE next[e]]
       /\ op' = [op EXCEPT ![d] = NoOp]
  /\ rpc' = [rpc EXCEPT ![p] = "done"]
  /\ req' = [req EXCEPT ![p] = NoReq]
  /\ UNCHANGED <<avail, availidx, device, data, owned, used_idx, irq, intr>>

\* Awake with b->disk = 0: free_chain(idx[0]) and return.
finish(p) ==
  /\ ~intr
  /\ rpc[p] = "awake"
  /\ ~owned[req[p].b]
  /\ LET d == req[p].head IN
       /\ info' = [info EXCEPT ![d] = NoBuf]
       /\ free' = free \union Chain(d)
       /\ next' = [e \in Desc |-> IF e \in Chain(d) THEN NoDesc ELSE next[e]]
       /\ op' = [op EXCEPT ![d] = NoOp]      \* dead from here on
  /\ rpc' = WakeAlloc([rpc EXCEPT ![p] = "done"])
  /\ req' = [req EXCEPT ![p] = NoReq]
  /\ UNCHANGED <<avail, availidx, device, data, owned, used_idx, irq, intr>>

-----------------------------------------------------------------------------
\* The device takes the next request from the avail ring, ...
device_take ==
  /\ seenidx # availidx
  /\ taken' = taken \union {avail[seenidx % NUM]}
  /\ seenidx' = (seenidx + 1) % IdxSize
  /\ avail' = [avail EXCEPT ![seenidx % NUM] = 0]
  /\ UNCHANGED <<free, next, op, info, availidx, disk, used, usedidx, data, owned, used_idx,
                 irq, intr, rpc, req>>

\* ... and carries out one of those it has, in any order.
device_finish(d) ==
  /\ d \in taken
  /\ taken' = taken \ {d}
  /\ IF op[d].write
     THEN disk' = [disk EXCEPT ![op[d].blockno] = data[info[d]]] /\ UNCHANGED data
     ELSE data' = [data EXCEPT ![info[d]] = disk[op[d].blockno]] /\ UNCHANGED disk
  /\ used' = [used EXCEPT ![usedidx % NUM] = d]
  /\ usedidx' = (usedidx + 1) % IdxSize
  /\ irq' = TRUE
  /\ UNCHANGED <<vqueue, seenidx, owned, used_idx, intr, rpc, req>>

\* virtio_disk_intr(): acknowledge, then look at the used ring.
virtio_disk_intr ==
  /\ irq /\ ~intr
  /\ irq' = FALSE
  /\ intr' = TRUE
  /\ UNCHANGED <<vqueue, device, data, owned, used_idx, rpc, req>>

\* Mutation: all buffers are taken to be finished.
intr_entry_all ==
  /\ intr
  /\ used_idx # usedidx
  /\ owned' = [b \in Bufs |-> FALSE]
  /\ rpc' = [q \in Procs |-> IF rpc[q] = "posted" THEN "awake" ELSE rpc[q]]
  /\ used_idx' = (used_idx + 1) % IdxSize
  /\ used' = [used EXCEPT ![used_idx % NUM] = 0]
  /\ UNCHANGED <<vqueue, disk, usedidx, seenidx, taken, data, irq, intr, req>>

intr_entry ==
  /\ intr
  /\ used_idx # usedidx
  /\ LET b == info[used[used_idx % NUM]] IN
       /\ owned' = [owned EXCEPT ![b] = FALSE]
       /\ rpc' = [q \in Procs |->
            IF rpc[q] = "posted" /\ req[q].b = b THEN "awake" ELSE rpc[q]]
  /\ used_idx' = (used_idx + 1) % IdxSize
  /\ used' = [used EXCEPT ![used_idx % NUM] = 0]
  /\ UNCHANGED <<vqueue, disk, usedidx, seenidx, taken, data, irq, intr, req>>

intr_return ==
  /\ intr
  /\ used_idx = usedidx
  /\ intr' = FALSE
  /\ UNCHANGED <<vqueue, device, data, owned, used_idx, irq, rpc, req>>

VStep ==
  \/ \E p \in Procs : alloc3_desc_fails(p) \/ post(p) \/ finish(p)
  \/ device_take
  \/ \E d \in Desc : device_finish(d)
  \/ virtio_disk_intr
  \/ intr_entry
  \/ intr_return

-----------------------------------------------------------------------------
Posted == {p \in Procs : rpc[p] \in {"posted", "awake"}}

(***************************************************************************)
(* Every descriptor is free or in exactly one chain of three that belongs  *)
(* to a request under way: none leaks, none is used twice, and free_desc() *)
(* never panics.  Nobody sleeps for descriptors while there are three.     *)
(***************************************************************************)
DescriptorsAccounted ==
  /\ \A p \in Posted :
       /\ Cardinality(Chain(req[p].head)) = 3
       /\ Chain(req[p].head) \subseteq Desc \ free
       /\ \A q \in Posted \ {p} : Chain(req[p].head) \intersect Chain(req[q].head) = {}
  /\ Cardinality(free) + 3 * Cardinality(Posted) = NUM
  /\ \A p \in Procs : rpc[p] = "asleep" => Cardinality(free) < 3

(***************************************************************************)
(* A request is in one place: not yet seen by the device, being worked on, *)
(* in the used ring and not yet looked at by the driver, or finished.  The *)
(* rings never overwrite an entry that has not been looked at, also where  *)
(* the 16-bit indices wrap around.                                         *)
(***************************************************************************)
Between(from, to) == (to + IdxSize - from) % IdxSize
InAvail == {avail[(seenidx + k) % NUM] : k \in 0..(Between(seenidx, availidx) - 1)}
InUsed == {used[(used_idx + k) % NUM] : k \in 0..(Between(used_idx, usedidx) - 1)}

RequestsInOnePlace ==
  LET sleeping == {p \in Procs : rpc[p] = "posted"} IN
  /\ {req[p].head : p \in sleeping} = InAvail \union taken \union InUsed
  /\ Between(seenidx, availidx) + Cardinality(taken) + Between(used_idx, usedidx)
       = Cardinality(sleeping)

\* Both: the queue of descriptors and requests is consistent.
QueueConsistent == DescriptorsAccounted /\ RequestsInOnePlace

(***************************************************************************)
(* When virtio_disk_rw() returns, the transfer has taken place: the buffer *)
(* and the block agree, whatever was completed in between, and the disk    *)
(* does not own the buffer.                                                *)
(***************************************************************************)
TransferDone == [][\A p \in Procs :
    finish(p) => /\ data[req[p].b] = disk[req[p].blockno]
                 /\ ~owned[req[p].b] /\ req[p].head \notin taken]_vvars
=============================================================================
