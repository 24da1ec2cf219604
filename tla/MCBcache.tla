------------------------------- MODULE MCBcache -------------------------------
(***************************************************************************)
(* p1 and p2 use three blocks and two buffers.  p3 has block k4 in buffer  *)
(* c3 and only writes it, when p1 and p2 have a buffer as well and do the  *)
(* same: then there are three requests, and descriptors for two of them.   *)
(***************************************************************************)
EXTENDS Bcache, TLC

CONSTANTS p1, p2, p3, c1, c2, c3, k1, k2, k3, k4, v1, v2

\* p3 has read k4, which has in it what bss has.
MCInit ==
  /\ VInit
  /\ \A b \in Bufs : data[b] = disk[k4]
  /\ blockno = [b \in Bufs |-> IF b = c3 THEN k4 ELSE NoBlock]
  /\ valid = [b \in Bufs |-> b = c3]
  /\ refcnt = [b \in Bufs |-> IF b = c3 THEN 1 ELSE 0]
  /\ pins = [b \in Bufs |-> 0]
  /\ locked = [b \in Bufs |-> IF b = c3 THEN p3 ELSE NoProc]
  /\ mru \in {<<c1, c2, c3>>, <<c2, c1, c3>>}
  /\ pc = [p \in Procs |-> IF p = p3 THEN "have" ELSE "idle"]
  /\ buf = [p \in Procs |-> IF p = p3 THEN c3 ELSE NoBuf]
  /\ want = [p \in Procs |-> IF p = p3 THEN k4 ELSE NoBlock]
  /\ panicked = FALSE

AllWrite ==
  /\ \A p \in Procs : pc[p] \in {"have", "writing"}
  /\ \A b \in Bufs : Clean(b) /\ pins[b] = 0 /\ data[b] = data[c3]

MCNext ==
  \/ \E p \in {p1, p2} :
       /\ pc[p] = "have" => pc[p3] = "have"
       /\ Step(p)
       /\ want'[p] # k4
  \/ \E p \in Procs : AllWrite /\ bwrite(p)
  \/ bwrite_done(p3)
  \/ DiskStep
  \/ panic

MCSpec == MCInit /\ [][MCNext]_vars

Symmetry ==
  UNION {Permutations(S) : S \in {{p1, p2}, {c1, c2}, {k1, k2, k3}, Vals}}
=============================================================================
