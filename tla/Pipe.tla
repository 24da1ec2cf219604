-------------------------------- MODULE Pipe --------------------------------
(***************************************************************************)
(* One pipe (kernel/pipe.c) from pipealloc() to the kfree() in             *)
(* pipeclose(): processes that share its two ends by fork() write, read    *)
(* and close, and may be killed meanwhile.                                 *)
(*                                                                         *)
(* pi->lock is held from action to action; one turn of the loop in         *)
(* pipewrite() or piperead() is one action.  wakeup() is called with       *)
(* pi->lock held, and whom it wakes first needs that lock, so the wakeup   *)
(* is part of the action.  Locals are reset where they are dead.           *)
(***************************************************************************)
EXTENDS Naturals, Sequences, FiniteSets

CONSTANTS
  Procs,      \* the processes that share the pipe after pipe() and fork()
  InitHeld,   \* the ends each of them has kept open
  PIPESIZE,
  UintSize,   \* 2^32: nread and nwrite are uint
  Bytes,      \* the values of a char
  MaxN,       \* bound: bytes asked for in one read or write
  MaxKills    \* bound: how many of the processes are killed

NoProc == 0

ASSUME ProcsAssumption == NoProc \notin Procs
ASSUME InitHeldAssumption ==
  InitHeld \in [Procs -> SUBSET {"read", "write"}] /\ UNION {InitHeld[p] : p \in Procs} = {"read", "write"}
ASSUME PIPESIZEAssumption == PIPESIZE \in Nat \ {0}
\* PIPESIZE divides 2^32, and is less than it.
ASSUME UintSizeAssumption == UintSize \in Nat /\ UintSize > PIPESIZE /\ UintSize % PIPESIZE = 0
ASSUME BytesAssumption == Bytes # {}
ASSUME MaxNAssumption == MaxN \in Nat
ASSUME MaxKillsAssumption == MaxKills \in Nat

Ends == {"read", "write"}

VARIABLES
  data, nread, nwrite, readopen, writeopen,   \* struct pipe
  lock,       \* pi->lock: the process in its critical section, or NoProc
  freed,      \* the page of the pipe has been given back by kfree()
  held,       \* the ends each process has an open file for
  killed,     \* p->killed
  pc,         \* where each process is
  i, n,       \* locals of pipewrite() and piperead()
  ch          \* piperead's ch, the byte copied out last

pipevars == <<data, nread, nwrite, readopen, writeopen, freed>>
vars == <<pipevars, lock, held, killed, pc, i, n, ch>>

Writing == {"wloop", "wfull", "wsleep", "wwoken"}
Reading == {"rloop", "rempty", "rsleep", "rwoken", "rcopy"}

\* As pipealloc() leaves it, its ends distributed; pi->data is not initialised.
Init ==
  /\ data \in [0..(PIPESIZE - 1) -> Bytes]
  /\ nread = 0
  /\ nwrite = 0
  /\ readopen = TRUE
  /\ writeopen = TRUE
  /\ freed = FALSE
  /\ lock = NoProc
  /\ held = InitHeld
  /\ killed = [p \in Procs |-> FALSE]
  /\ pc = [p \in Procs |-> "user"]
  /\ i = [p \in Procs |-> 0]
  /\ n = [p \in Procs |-> 0]
  /\ ch \in Bytes

-----------------------------------------------------------------------------
Holds(p, l) == lock = p /\ pc[p] = l
Goto(p, l) == pc' = [pc EXCEPT ![p] = l]

empty == nread = nwrite
full == nwrite = (nread + PIPESIZE) % UintSize

\* wakeup(&pi->nread) and wakeup(&pi->nwrite), then the caller goes to l.
WakeReaders(p, l) ==
  pc' = [q \in Procs |-> IF q = p THEN l ELSE IF pc[q] = "rsleep" THEN "rwoken" ELSE pc[q]]
WakeWriters(p, l) ==
  pc' = [q \in Procs |-> IF q = p THEN l ELSE IF pc[q] = "wsleep" THEN "wwoken" ELSE pc[q]]

\* A call returns: its locals are dead.
Drop(p) ==
  /\ lock' = NoProc
  /\ i' = [i EXCEPT ![p] = 0]
  /\ n' = [n EXCEPT ![p] = 0]

\* kill(pid, SIGKILL): p->killed, and a process that sleeps is woken.
kill(p) ==
  /\ ~killed[p]
  /\ Cardinality({q \in Procs : killed[q]}) < MaxKills
  /\ killed' = [killed EXCEPT ![p] = TRUE]
  /\ Goto(p, CASE pc[p] = "wsleep" -> "wwoken" [] pc[p] = "rsleep" -> "rwoken"
               [] OTHER -> pc[p])
  /\ UNCHANGED <<pipevars, lock, held, i, n, ch>>

-----------------------------------------------------------------------------
\* pipewrite(): acquire(&pi->lock), at entry and at the end of sleep().
pipewrite(p, m) ==
  /\ pc[p] = "user" /\ ~killed[p] /\ "write" \in held[p]
  /\ lock = NoProc
  /\ lock' = p
  /\ n' = [n EXCEPT ![p] = m]
  /\ Goto(p, "wloop")
  /\ UNCHANGED <<pipevars, held, killed, i, ch>>

pipewrite_awake(p) ==
  /\ pc[p] = "wwoken"
  /\ lock = NoProc
  /\ lock' = p
  /\ Goto(p, "wloop")
  /\ UNCHANGED <<pipevars, held, killed, i, n, ch>>

pipewrite_fails(p) ==
  /\ Holds(p, "wloop")
  /\ i[p] < n[p]
  /\ ~readopen \/ killed[p]
  /\ Goto(p, "user")
  /\ Drop(p)
  /\ UNCHANGED <<pipevars, held, killed, ch>>

\* The pipe is full.  kill() may come between this test and the sleep().
pipewrite_full(p) ==
  /\ Holds(p, "wloop")
  /\ i[p] < n[p] /\ readopen /\ ~killed[p]
  /\ full
  /\ WakeReaders(p, "wfull")
  /\ UNCHANGED <<pipevars, lock, held, killed, i, n, ch>>

pipewrite_sleep(p) ==
  /\ Holds(p, "wfull")
  /\ lock' = NoProc
  /\ Goto(p, "wsleep")
  /\ UNCHANGED <<pipevars, held, killed, i, n, ch>>

\* Mutation: the byte after the one to be written next is overwritten.
pipewrite_byte_early(p, b) ==
  /\ Holds(p, "wloop")
  /\ i[p] < n[p] /\ readopen /\ ~killed[p]
  /\ ~full
  /\ nwrite' = (nwrite + 1) % UintSize
  /\ data' = [data EXCEPT ![nwrite' % PIPESIZE] = b]
  /\ i' = [i EXCEPT ![p] = @ + 1]
  /\ UNCHANGED <<nread, readopen, writeopen, freed, lock, held, killed, pc, n, ch>>

pipewrite_byte(p, b) ==
  /\ Holds(p, "wloop")
  /\ i[p] < n[p] /\ readopen /\ ~killed[p]
  /\ ~full
  /\ data' = [data EXCEPT ![nwrite % PIPESIZE] = b]
  /\ nwrite' = (nwrite + 1) % UintSize
  /\ i' = [i EXCEPT ![p] = @ + 1]
  /\ UNCHANGED <<nread, readopen, writeopen, freed, lock, held, killed, pc, n, ch>>

\* All is written, or copyin() fails for the next byte.
pipewrite_return(p) ==
  /\ Holds(p, "wloop")
  /\ i[p] = n[p] \/ (readopen /\ ~killed[p] /\ ~full)
  /\ WakeReaders(p, "user")
  /\ Drop(p)
  /\ UNCHANGED <<pipevars, held, killed, ch>>

-----------------------------------------------------------------------------
piperead(p, m) ==
  /\ pc[p] = "user" /\ ~killed[p] /\ "read" \in held[p]
  /\ lock = NoProc
  /\ lock' = p
  /\ n' = [n EXCEPT ![p] = m]
  /\ Goto(p, "rloop")
  /\ UNCHANGED <<pipevars, held, killed, i, ch>>

piperead_awake(p) ==
  /\ pc[p] = "rwoken"
  /\ lock = NoProc
  /\ lock' = p
  /\ Goto(p, "rloop")
  /\ UNCHANGED <<pipevars, held, killed, i, n, ch>>

piperead_fails(p) ==
  /\ Holds(p, "rloop")
  /\ empty /\ writeopen
  /\ killed[p]
  /\ Goto(p, "user")
  /\ Drop(p)
  /\ UNCHANGED <<pipevars, held, killed, ch>>

piperead_empty(p) ==
  /\ Holds(p, "rloop")
  /\ empty /\ writeopen
  /\ ~killed[p]
  /\ Goto(p, "rempty")
  /\ UNCHANGED <<pipevars, lock, held, killed, i, n, ch>>

piperead_sleep(p) ==
  /\ Holds(p, "rempty")
  /\ lock' = NoProc
  /\ Goto(p, "rsleep")
  /\ UNCHANGED <<pipevars, held, killed, i, n, ch>>

piperead_ready(p) ==
  /\ Holds(p, "rloop")
  /\ ~empty \/ ~writeopen
  /\ Goto(p, "rcopy")
  /\ UNCHANGED <<pipevars, lock, held, killed, i, n, ch>>

\* A byte is taken out; it is lost when copyout() fails, and that is the end.
TakeByte ==
  /\ ch' = data[nread % PIPESIZE]
  /\ nread' = (nread + 1) % UintSize

piperead_byte(p) ==
  /\ Holds(p, "rcopy")
  /\ i[p] < n[p] /\ ~empty
  /\ TakeByte
  /\ i' = [i EXCEPT ![p] = @ + 1]
  /\ UNCHANGED <<data, nwrite, readopen, writeopen, freed, lock, held, killed, pc, n>>

piperead_copyout_fails(p) ==
  /\ Holds(p, "rcopy")
  /\ i[p] < n[p] /\ ~empty
  /\ TakeByte
  /\ WakeWriters(p, "user")
  /\ Drop(p)
  /\ UNCHANGED <<data, nwrite, readopen, writeopen, freed, held, killed>>

\* Mutation: no wakeup(&pi->nwrite).
piperead_return_silent(p) ==
  /\ Holds(p, "rcopy")
  /\ i[p] = n[p] \/ empty
  /\ Goto(p, "user")
  /\ Drop(p)
  /\ UNCHANGED <<pipevars, held, killed, ch>>

piperead_return(p) ==
  /\ Holds(p, "rcopy")
  /\ i[p] = n[p] \/ empty
  /\ WakeWriters(p, "user")
  /\ Drop(p)
  /\ UNCHANGED <<pipevars, held, killed, ch>>

-----------------------------------------------------------------------------
\* close() or exit(): fileclose() drops the reference, and the last one
\* dropped leads to pipeclose().
fileclose(p, e) ==
  /\ pc[p] = "user" /\ e \in held[p]
  /\ held' = [held EXCEPT ![p] = @ \ {e}]
  /\ Goto(p, IF \E q \in Procs \ {p} : e \in held[q] THEN "user"
             ELSE IF e = "read" THEN "close_read" ELSE "close_write")
  /\ UNCHANGED <<pipevars, lock, killed, i, n, ch>>

\* Mutation: the pipe is freed with its first end.
pipeclose_first(p) ==
  /\ pc[p] \in {"close_read", "close_write"}
  /\ lock = NoProc
  /\ IF pc[p] = "close_write"
     THEN writeopen' = FALSE /\ WakeReaders(p, "user") /\ UNCHANGED readopen
     ELSE readopen' = FALSE /\ WakeWriters(p, "user") /\ UNCHANGED writeopen
  /\ freed' = (~readopen' \/ ~writeopen')
  /\ UNCHANGED <<data, nread, nwrite, lock, held, killed, i, n, ch>>

\* Mutation: the closing of the write end wakes nobody.
pipeclose_silent(p) ==
  /\ pc[p] \in {"close_read", "close_write"}
  /\ lock = NoProc
  /\ IF pc[p] = "close_write"
     THEN writeopen' = FALSE /\ Goto(p, "user") /\ UNCHANGED readopen
     ELSE readopen' = FALSE /\ WakeWriters(p, "user") /\ UNCHANGED writeopen
  /\ freed' = (~readopen' /\ ~writeopen')
  /\ UNCHANGED <<data, nread, nwrite, lock, held, killed, i, n, ch>>

pipeclose(p) ==
  /\ pc[p] \in {"close_read", "close_write"}
  /\ lock = NoProc
  /\ IF pc[p] = "close_write"
     THEN writeopen' = FALSE /\ WakeReaders(p, "user") /\ UNCHANGED readopen
     ELSE readopen' = FALSE /\ WakeWriters(p, "user") /\ UNCHANGED writeopen
  /\ freed' = (~readopen' /\ ~writeopen')
  /\ UNCHANGED <<data, nread, nwrite, lock, held, killed, i, n, ch>>

Next ==
  \E p \in Procs :
    \/ kill(p)
    \/ \E m \in 1..MaxN : pipewrite(p, m)
    \/ pipewrite_awake(p)
    \/ pipewrite_fails(p)
    \/ pipewrite_full(p)
    \/ pipewrite_sleep(p)
    \/ \E b \in Bytes : pipewrite_byte(p, b)
    \/ pipewrite_return(p)
    \/ \E m \in 1..MaxN : piperead(p, m)
    \/ piperead_awake(p)
    \/ piperead_fails(p)
    \/ piperead_empty(p)
    \/ piperead_sleep(p)
    \/ piperead_ready(p)
    \/ piperead_byte(p)
    \/ piperead_copyout_fails(p)
    \/ piperead_return(p)
    \/ \E e \in Ends : fileclose(p, e)
    \/ pipeclose(p)

Spec == Init /\ [][Next]_vars

\* The kernel's part of every call goes on, and gets pi->lock if that is
\* free again and again.  A killed process exits, closing what it has open.
KernelStep(p) ==
  \/ pipewrite_fails(p) \/ pipewrite_full(p) \/ pipewrite_sleep(p)
  \/ (\E b \in Bytes : pipewrite_byte(p, b)) \/ pipewrite_return(p)
  \/ piperead_fails(p) \/ piperead_empty(p) \/ piperead_sleep(p)
  \/ piperead_ready(p) \/ piperead_byte(p) \/ piperead_return(p)

Fairness ==
  \A p \in Procs :
    /\ WF_vars(KernelStep(p))
    /\ SF_vars(pipewrite_awake(p) \/ piperead_awake(p) \/ pipeclose(p))

FairSpec == Spec /\ Fairness
-----------------------------------------------------------------------------
(***************************************************************************)
(* What data, nread and nwrite stand for: the unread bytes in order.  The  *)
(* difference is taken modulo 2^32, as the code's comparisons take it.     *)
(***************************************************************************)
Used == (nwrite + UintSize - nread) % UintSize
Contents == [k \in 1..Used |-> data[(nread + k - 1) % PIPESIZE]]

(***************************************************************************)
(* The pipe implements a bounded queue of bytes: nothing is lost,          *)
(* duplicated, reordered or overwritten, however writers and readers take  *)
(* turns and however often nread and nwrite wrap around, and piperead()    *)
(* delivers the byte that was written first.                               *)
(***************************************************************************)
Queue == INSTANCE ByteQueue
  WITH Capacity <- PIPESIZE, queue <- Contents, last <- ch,
       readable <- readopen, writable <- writeopen

IsAQueue == Queue!QSpec

(***************************************************************************)
(* pipeclose() frees the page when nobody can use it any more: no process  *)
(* has an end open or is inside pipewrite(), piperead() or pipeclose().    *)
(***************************************************************************)
NoUseAfterFree ==
  freed => \A p \in Procs : held[p] = {} /\ pc[p] = "user"

(***************************************************************************)
(* No wakeup is lost: while pi->lock is free, a writer sleeps only if the  *)
(* pipe is full and can still be read, and a reader only if it is empty    *)
(* and can still be written.  The second needs that no writer is killed:   *)
(* pipewrite() returns -1 to a killed process without wakeup(&pi->nread),  *)
(* even if it has put bytes into the pipe before.                          *)
(***************************************************************************)
NobodyMissed ==
  lock = NoProc =>
    /\ \A p \in Procs : pc[p] = "wsleep" => full /\ readopen
    /\ (\A p \in Procs : ~killed[p]) =>
         \A p \in Procs : pc[p] = "rsleep" => empty /\ writeopen

(***************************************************************************)
(* Nobody waits for a peer that is gone: a process inside piperead() when  *)
(* the write end has been closed returns, and likewise one inside          *)
(* pipewrite() when the read end has.                                      *)
(***************************************************************************)
PeerGoneUnblocks ==
  \A p \in Procs :
    /\ pc[p] \in Reading /\ ~writeopen ~> pc[p] = "user"
    /\ pc[p] \in Writing /\ ~readopen ~> pc[p] = "user"
=============================================================================
