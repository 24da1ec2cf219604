------------------------------- MODULE MCMemory -------------------------------
(***************************************************************************)
(* Two processes and pages of two units, so that sizes are aligned or not. *)
(* 8 pages are init's and a fork takes as many again.  Processes meet only *)
(* in the free list, and pipes may hold all of it, so that every kalloc()  *)
(* fails at times.                                                         *)
(***************************************************************************)
EXTENDS Memory

\* Three virtual pages, each not there, the kernel's, or a user page; bytes
\* that are zero or not; all addresses and lengths around them.
C == INSTANCE Copying WITH MAXVA <- 6
Pte(kind, p) == [v |-> kind # "none", u |-> kind = "user", pa |-> 3 - p]
PageTables == {[p \in 0..2 |-> Pte(kinds[p], p)] : kinds \in [0..2 -> {"none", "kernel", "user"}]}
Memories == {[p \in 1..3 |-> [b \in 0..1 |-> IF 2 * p + b \in zeroes THEN 0 ELSE 2 * p + b]] :
               zeroes \in SUBSET (2..7)}
AllCopyRight ==
  /\ \A pt \in PageTables, mem \in Memories, va \in 0..6, len \in 0..5 : C!CopyRight(pt, mem, va, len)
  /\ \A d, s \in 1..6, n \in 0..5 :
       d + n <= 7 /\ s + n <= 7 => C!MoveRight([a \in 1..6 |-> a], d, s, n)
  /\ \A t \in [1..5 -> {0, 1}], n \in 1..5 : t[5] = 0 => C!StrcpyRight(t, n)

\* What a system call copies in or out, across pages that may not be mapped
\* or not be the user's, is right (see CopyRight), and so are memmove() of
\* areas that overlap and safestrcpy() of names that do not fit.
CopiesRight == (\E p \in Procs : call[p].op # "none") => AllCopyRight
=============================================================================
