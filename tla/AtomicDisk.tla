----------------------------- MODULE AtomicDisk -----------------------------
(***************************************************************************)
(* What the log promises to file system calls (kernel/log.c): operations   *)
(* write blocks between begin_op() and end_op(), and a crash at any moment *)
(* leaves the disk as it was at a moment when no operation was under way,  *)
(* never with a part of an operation's writes.                             *)
(***************************************************************************)
CONSTANTS Blocks, Vals, Procs, InitDisk

VARIABLES
  durable,    \* the contents of every block that a crash leaves
  current,    \* the contents as operations see them
  active      \* the processes between begin_op() and end_op()

avars == <<durable, current, active>>

AInit ==
  /\ durable = InitDisk
  /\ current = InitDisk
  /\ active = {}

Begin(p) ==
  /\ active' = active \union {p}
  /\ UNCHANGED <<durable, current>>

Write(b, v) ==
  /\ active # {}
  /\ current' = [current EXCEPT ![b] = v]
  /\ UNCHANGED <<durable, active>>

End(p) ==
  /\ active' = active \ {p}
  /\ UNCHANGED <<durable, current>>

Commit ==
  /\ active = {}
  /\ durable' = current
  /\ UNCHANGED <<current, active>>

Crash ==
  /\ current' = durable
  /\ active' = {}
  /\ UNCHANGED durable

ANext ==
  \/ \E p \in Procs : Begin(p) \/ End(p)
  \/ \E b \in Blocks, v \in Vals : Write(b, v)
  \/ Commit
  \/ Crash

ASpec == AInit /\ [][ANext]_avars
=============================================================================
