------------------------------ MODULE Console -------------------------------
(***************************************************************************)
(* The console (kernel/console.c), the UART driver (kernel/uart.c) and the *)
(* clock (clockintr and sys_sleep), together with what their locking rests *)
(* on: spin locks that switch interrupts off (kernel/spinlock.c), the trap *)
(* path of a device or timer interrupt (kernel/trap.c, kernel/plic.c), and *)
(* the interrupt state a process takes along through sched().              *)
(*                                                                         *)
(* A context is a process, x > 0, or the interrupt handler of CPU c,       *)
(* x = -c; a CPU executes its handler when that is active, else its        *)
(* process, else the scheduler.  cons.lock, uart_tx_lock and tickslock are *)
(* held from action to action and record the holding CPU; p->lock is only  *)
(* ever held inside one action, as are the sections of other modules.      *)
(*                                                                         *)
(* The UART is external: a transmit FIFO, LSR_TX_IDLE when it is empty, an *)
(* interrupt whenever it empties or a character has arrived.               *)
(***************************************************************************)
EXTENDS Integers, Sequences

CONSTANTS
  NCPU, NPROC,
  INPUT_BUF,          \* size of cons.buf
  UART_TX_BUF_SIZE,   \* size of uart_tx_buf
  FIFO,               \* depth of the UART's transmit FIFO
  InWrap, TxWrap,     \* the indices count modulo this many times the buffer's size
  TickRange,          \* ticks counts modulo TickRange
  ReadSizes,          \* the n of the read() calls made
  SleepArgs,          \* the n of the sleep() calls made
  Workloads           \* each: the CPUs and processes there are, the system calls made, the
                      \* characters typed, and whether the timer runs

Cpus == 1..NCPU
Procs == 1..NPROC
Ctxs == Procs \union {-c : c \in Cpus}
Locks == {"cons", "uart", "ticks"}

\* Characters: an ordinary one, the newline (\r is turned into it), ^D, NUL,
\* and the editing keys: backspace or delete, ^U, ^P.
Stored == {"x", "NL", "EOF"}
Typed == Stored \union {"NUL", "ERASE", "KILL", "PS"}
ASSUME ReadSizesAssumption == ReadSizes \subseteq Nat \ {0}
ASSUME WorkloadsAssumption ==
  Workloads \subseteq [cpus : SUBSET Cpus, procs : SUBSET Procs, typed : SUBSET Typed,
                       calls : SUBSET {"read", "write", "sleep", "kill"}, timer : BOOLEAN]
\* The two atomic steps of a write to THR, on every CPU at once, fit the FIFO.
ASSUME FIFOAssumption == FIFO >= NCPU
\* The indices tell apart all characters that can be on their way.
ASSUME WrapAssumption == InWrap > 1 /\ UART_TX_BUF_SIZE * TxWrap > UART_TX_BUF_SIZE + FIFO

InIndex == INPUT_BUF * InWrap
TxIndex == UART_TX_BUF_SIZE * TxWrap

VARIABLES
  workload,
  cpu,         \* per CPU: sie (SSTATUS_SIE), noff, intena
  proc,        \* c->proc, 0 in the scheduler
  lock,        \* per lock: the CPU that holds it, or 0
  pc, spin,    \* per context: where it is, and whether acquire() there has run push_off()
  reg, n,      \* per context: the locals c and n
  base,        \* the locals target of consoleread() and ticks0 of sys_sleep()
  chan,        \* p->chan, "none" when not asleep
  killed,
  saved,       \* sched()'s local intena
  intrap,      \* the process was switched out by yield() inside its trap
  cons,        \* cons: buf and the indices r, w, e
  tx,          \* uart_tx_buf and the indices r, w; a written character is known by its index
  fifo, rx,    \* UART: characters being sent; received character or "none"
  irq,         \* PLIC: the UART's interrupt is pending, is claimed
  ssip,        \* per CPU: the timer's software interrupt is pending
  ticks,
  panicked

cpuvars == <<cpu, proc, saved, intrap>>
ctxvars == <<pc, spin, reg, n, base>>
procvars == <<chan, killed>>
uart == <<fifo, rx, irq>>
vars == <<workload, cpuvars, lock, ctxvars, procvars, cons, tx, uart,
          ssip, ticks, panicked>>

ECHO == -1    \* in the FIFO, a character that was not written by a process

Init ==
  /\ workload \in Workloads
  /\ cpu = [c \in Cpus |-> [sie |-> TRUE, noff |-> 0, intena |-> FALSE]]
  /\ proc = [c \in Cpus |-> 0]
  /\ lock = [l \in Locks |-> 0]
  /\ pc = [x \in Ctxs |-> IF x \in Procs THEN "user" ELSE "none"]
  /\ spin = [x \in Ctxs |-> FALSE]
  /\ reg = [x \in Ctxs |-> "none"]
  /\ n = [x \in Ctxs |-> 0]
  /\ base = [p \in Procs |-> 0]
  /\ chan = [p \in Procs |-> "none"]
  /\ killed = [p \in Procs |-> FALSE]
  /\ saved = [p \in Procs |-> TRUE]
  /\ intrap = [p \in Procs |-> FALSE]
  /\ cons = [buf |-> [i \in 0..INPUT_BUF-1 |-> "x"], r |-> 0, w |-> 0, e |-> 0]
  /\ tx = [buf |-> [i \in 0..UART_TX_BUF_SIZE-1 |-> 0], r |-> 0, w |-> 0]
  /\ fifo = <<>> /\ rx = "none"
  /\ irq = [pending |-> FALSE, claimed |-> FALSE]
  /\ ssip = [c \in Cpus |-> FALSE]
  /\ ticks = 0
  /\ panicked = FALSE

-----------------------------------------------------------------------------
\* Mutant: every push_off() records the interrupt state, not the first only.
push_off_each(r) == [sie |-> FALSE, noff |-> r.noff + 1, intena |-> r.sie]

\* push_off() and pop_off() on the record of the CPU; the latter's panics.
push_off(r) ==
  [sie |-> FALSE, noff |-> r.noff + 1, intena |-> IF r.noff = 0 THEN r.sie ELSE r.intena]

pop_off(r) ==
  [r EXCEPT !.noff = @ - 1, !.sie = @ \/ (r.noff = 1 /\ r.intena)]

pop_off_panics(r) == r.sie \/ r.noff < 1

\* Context x executes on CPU c, and is at l.
Runs(c, x) == IF pc[-c] # "none" THEN x = -c ELSE proc[c] = x /\ ~intrap[x]
At(c, x, l) == Runs(c, x) /\ pc[x] = l
Goto(x, l) == pc' = [pc EXCEPT ![x] = l]

\* Where acquire() is called, for which lock, and what follows it.
Acquires ==
  [uartputc      |-> [lock |-> "uart",  then |-> "put"],
   uartintr      |-> [lock |-> "uart",  then |-> "uartstart"],
   consoleread   |-> [lock |-> "cons",  then |-> "get"],
   consoleintr   |-> [lock |-> "cons",  then |-> "intr"],
   sys_sleep     |-> [lock |-> "ticks", then |-> "ticks0"],
   sleep_again   |-> [lock |-> "ticks", then |-> "wait"],
   clockintr     |-> [lock |-> "ticks", then |-> "tick"]]

\* The swap of acquire(), which gets the lock or goes on spinning.
swap(c, x, l, then) ==
  /\ lock' = IF lock[l] = 0 THEN [lock EXCEPT ![l] = c] ELSE lock
  /\ spin' = [spin EXCEPT ![x] = lock[l] # 0]
  /\ Goto(x, IF lock[l] = 0 THEN then ELSE pc[x])

\* acquire(): push_off(), the check that the CPU does not hold the lock, and
\* the first swap.
acquire(c, x) ==
  /\ Runs(c, x) /\ pc[x] \in DOMAIN Acquires /\ ~spin[x]
  /\ LET a == Acquires[pc[x]] IN
       /\ cpu' = [cpu EXCEPT ![c] = push_off(@)]
       /\ panicked' = (panicked \/ lock[a.lock] = c)
       /\ swap(c, x, a.lock, a.then)
  /\ UNCHANGED <<workload, proc, saved, intrap, reg, n, base, procvars, cons, tx,
                 uart, ssip, ticks>>

\* The swap that ends the spinning.
acquire_spin(c, x) ==
  /\ Runs(c, x) /\ spin[x]
  /\ LET a == Acquires[pc[x]] IN lock[a.lock] = 0 /\ swap(c, x, a.lock, a.then)
  /\ UNCHANGED <<workload, cpuvars, reg, n, base, procvars, cons, tx, uart, ssip,
                 ticks, panicked>>

release(c, l) ==
  /\ lock' = [lock EXCEPT ![l] = 0]
  /\ cpu' = [cpu EXCEPT ![c] = pop_off(@)]
  /\ panicked' = (panicked \/ lock[l] # c \/ pop_off_panics(cpu[c]))

\* sched() of process p on CPU c, whose record is r with p->lock held, up to
\* the scheduler's release(&p->lock): intena stays behind on p's stack.
sched(c, p, r) ==
  /\ panicked' = (panicked \/ r.noff # 1 \/ r.sie)
  /\ saved' = [saved EXCEPT ![p] = r.intena]
  /\ proc' = [proc EXCEPT ![c] = 0]
  /\ cpu' = [cpu EXCEPT ![c] = pop_off(r)]

\* sleep(ch, l): acquire(&p->lock), release(l), sched().
sleep(c, p, ch, l, again) ==
  /\ sched(c, p, pop_off(push_off(cpu[c])))
  /\ lock' = [lock EXCEPT ![l] = 0]
  /\ chan' = [chan EXCEPT ![p] = ch]
  /\ Goto(p, again)

wakeup(ch) == chan' = [p \in Procs |-> IF chan[p] = ch THEN "none" ELSE chan[p]]

\* The return of p from a system call, its locals gone.
Return(p) ==
  /\ Goto(p, "user")
  /\ n' = [n EXCEPT ![p] = 0]
  /\ base' = [base EXCEPT ![p] = 0]

-----------------------------------------------------------------------------
\* The scheduler's loop: intr_on() at its start, then the switch to a
\* process that can run.  sched() puts its intena back and p->lock is
\* released, by sleep() or by yield().
intr_on(c) ==
  /\ proc[c] = 0 /\ pc[-c] = "none" /\ ~cpu[c].sie
  /\ cpu' = [cpu EXCEPT ![c].sie = TRUE]
  /\ UNCHANGED <<workload, proc, saved, intrap, lock, ctxvars, procvars, cons, tx,
                 uart, ssip, ticks, panicked>>

scheduler(c, p) ==
  /\ proc[c] = 0 /\ pc[-c] = "none"
  /\ chan[p] = "none" /\ \A d \in Cpus : proc[d] # p
  /\ proc' = [proc EXCEPT ![c] = p]
  /\ cpu' = [cpu EXCEPT ![c] = pop_off([push_off(@) EXCEPT !.intena = saved[p]])]
  /\ UNCHANGED <<workload, saved, intrap, lock, ctxvars, procvars, cons, tx,
                 uart, ssip, ticks, panicked>>

\* The end of the trap in which yield() was called: kerneltrap() restores
\* sstatus, or usertrapret() returns to user space.
trap_return(c, p) ==
  /\ proc[c] = p /\ intrap[p]
  /\ cpu' = [cpu EXCEPT ![c].sie = TRUE]
  /\ intrap' = [intrap EXCEPT ![p] = FALSE]
  /\ UNCHANGED <<workload, proc, saved, lock, ctxvars, procvars, cons, tx, uart,
                 ssip, ticks, panicked>>

\* A device or timer interrupt, taken when they are on; taking it switches
\* them off.
interrupt(c, at) ==
  /\ cpu[c].sie /\ pc[-c] = "none"
  /\ \/ at = "claim" /\ irq.pending /\ ~irq.claimed
     \/ at = (IF c = 1 THEN "clockintr" ELSE "timer") /\ ssip[c]
  /\ cpu' = [cpu EXCEPT ![c].sie = FALSE]
  /\ Goto(-c, at)
  /\ UNCHANGED <<workload, proc, saved, intrap, lock, spin, reg, n, base, procvars, cons,
                 tx, uart, ssip, ticks, panicked>>

\* kerneltrap() returns, or usertrap() does.
Sret(c) ==
  /\ cpu' = [cpu EXCEPT ![c].sie = TRUE]
  /\ Goto(-c, "none")

-----------------------------------------------------------------------------
\* The clock.  timervec raises the software interrupt of its CPU.
timervec(c) ==
  /\ workload.timer /\ ~ssip[c]
  /\ ssip' = [ssip EXCEPT ![c] = TRUE]
  /\ UNCHANGED <<workload, cpuvars, lock, ctxvars, procvars, cons, tx, uart, ticks,
                 panicked>>

\* clockintr(), tickslock held.
clockintr(c) ==
  /\ At(c, -c, "tick")
  /\ ticks' = (ticks + 1) % TickRange
  /\ wakeup("ticks")
  /\ release(c, "ticks")
  /\ Goto(-c, "timer")
  /\ UNCHANGED <<workload, proc, saved, intrap, spin, reg, n, base, killed, cons, tx,
                 uart, ssip>>

\* devintr() acknowledges the interrupt and kerneltrap() or usertrap() calls
\* yield(), if a process was interrupted.
timer_yield(c) ==
  /\ At(c, -c, "timer") /\ proc[c] # 0
  /\ ssip' = [ssip EXCEPT ![c] = FALSE]
  /\ sched(c, proc[c], push_off(cpu[c]))
  /\ intrap' = [intrap EXCEPT ![proc[c]] = TRUE]
  /\ Goto(-c, "none")
  /\ UNCHANGED <<workload, lock, spin, reg, n, base, procvars, cons, tx, uart, ticks>>

timer_idle(c) ==
  /\ At(c, -c, "timer") /\ proc[c] = 0
  /\ ssip' = [ssip EXCEPT ![c] = FALSE]
  /\ Sret(c)
  /\ UNCHANGED <<workload, proc, saved, intrap, lock, spin, reg, n, base, procvars, cons,
                 tx, uart, ticks, panicked>>

\* sys_sleep(m); the comparison is unsigned.
sys_sleep(c, p, m) ==
  /\ At(c, p, "user") /\ ~killed[p] /\ "sleep" \in workload.calls
  /\ n' = [n EXCEPT ![p] = m % TickRange]
  /\ Goto(p, "sys_sleep")
  /\ UNCHANGED <<workload, cpuvars, lock, spin, reg, base, procvars, cons, tx, uart,
                 ssip, ticks, panicked>>

sleep_ticks0(c, p) ==
  /\ At(c, p, "ticks0")
  /\ base' = [base EXCEPT ![p] = ticks]
  /\ Goto(p, "wait")
  /\ UNCHANGED <<workload, cpuvars, lock, spin, reg, n, procvars, cons, tx, uart,
                 ssip, ticks, panicked>>

Elapsed(p) == (ticks - base[p]) % TickRange

sleep_wait(c, p) ==
  /\ At(c, p, "wait") /\ Elapsed(p) < n[p] /\ ~killed[p]
  /\ sleep(c, p, "ticks", "ticks", "sleep_again")
  /\ UNCHANGED <<workload, intrap, spin, reg, n, base, killed, cons, tx, uart, ssip,
                 ticks>>

sleep_done(c, p) ==
  /\ At(c, p, "wait") /\ (Elapsed(p) >= n[p] \/ killed[p])
  /\ release(c, "ticks")
  /\ Return(p)
  /\ UNCHANGED <<workload, proc, saved, intrap, spin, reg, procvars, cons, tx, uart,
                 ssip, ticks>>

\* kill() by some other process; in user space the victim would only exit.
kill(p) ==
  /\ "kill" \in workload.calls /\ ~killed[p] /\ pc[p] # "user"
  /\ killed' = [killed EXCEPT ![p] = TRUE]
  /\ chan' = [chan EXCEPT ![p] = "none"]
  /\ UNCHANGED <<workload, cpuvars, lock, ctxvars, cons, tx, uart, ssip, ticks, panicked>>

\* A killed process exits at the edge of user space; a new one has its place.
exit(c, p) ==
  /\ At(c, p, "user") /\ killed[p]
  /\ killed' = [killed EXCEPT ![p] = FALSE]
  /\ UNCHANGED <<workload, cpuvars, lock, ctxvars, chan, cons, tx, uart, ssip, ticks,
                 panicked>>

-----------------------------------------------------------------------------
\* consolewrite(), a character at a time: uartputc().
consolewrite(c, p) ==
  /\ At(c, p, "user") /\ ~killed[p] /\ "write" \in workload.calls
  /\ Goto(p, "uartputc")
  /\ UNCHANGED <<workload, cpuvars, lock, spin, reg, n, base, procvars, cons, tx,
                 uart, ssip, ticks, panicked>>

TxFull == tx.w = (tx.r + UART_TX_BUF_SIZE) % TxIndex

uartputc_sleep(c, p) ==
  /\ At(c, p, "put") /\ TxFull /\ ~panicked
  /\ sleep(c, p, "uart_tx_r", "uart", "uartputc")
  /\ UNCHANGED <<workload, intrap, spin, reg, n, base, killed, cons, tx, uart, ssip,
                 ticks>>

uartputc(c, p) ==
  /\ At(c, p, "put") /\ ~TxFull /\ ~panicked
  /\ tx' = [tx EXCEPT !.buf[tx.w % UART_TX_BUF_SIZE] = tx.w, !.w = (@ + 1) % TxIndex]
  /\ Goto(p, "uartstart")
  /\ UNCHANGED <<workload, cpuvars, lock, spin, reg, n, base, procvars, cons, uart, ssip,
                 ticks, panicked>>

CanSend == tx.w # tx.r /\ fifo = <<>>

\* uartstart(), called by uartputc() or uartintr() with uart_tx_lock held:
\* one turn of its loop up to the store into THR, which follows; and its
\* return, with the caller's release(), to consolewrite(), which has or has
\* not another character, or to devintr().
uartstart(c, x) ==
  /\ At(c, x, "uartstart") /\ CanSend
  /\ reg' = [reg EXCEPT ![x] = tx.buf[tx.r % UART_TX_BUF_SIZE]]
  /\ tx' = [tx EXCEPT !.r = (@ + 1) % TxIndex]
  /\ wakeup("uart_tx_r")
  /\ Goto(x, "thr")
  /\ UNCHANGED <<workload, cpuvars, lock, spin, n, base, killed, cons, uart, ssip,
                 ticks, panicked>>

\* A store into THR; the character is lost if the FIFO has no room.
WriteTHR(ch) == fifo' = IF Len(fifo) < FIFO THEN Append(fifo, ch) ELSE fifo

uartstart_thr(c, x) ==
  /\ At(c, x, "thr")
  /\ WriteTHR(reg[x])
  /\ reg' = [reg EXCEPT ![x] = "none"]
  /\ Goto(x, "uartstart")
  /\ UNCHANGED <<workload, cpuvars, lock, spin, n, base, procvars, cons, tx, rx, irq,
                 ssip, ticks, panicked>>

uartstart_done(c, x) ==
  /\ At(c, x, "uartstart") /\ ~CanSend
  /\ release(c, "uart")
  /\ \E l \in IF x \in Procs THEN {"uartputc", "user"} ELSE {"complete"} : Goto(x, l)
  /\ UNCHANGED <<workload, proc, saved, intrap, spin, reg, n, base, procvars, cons, tx,
                 uart, ssip, ticks>>

-----------------------------------------------------------------------------
\* consoleread(k).
consoleread(c, p, k) ==
  /\ At(c, p, "user") /\ ~killed[p] /\ "read" \in workload.calls
  /\ n' = [n EXCEPT ![p] = k]
  /\ base' = [base EXCEPT ![p] = k]
  /\ Goto(p, "consoleread")
  /\ UNCHANGED <<workload, cpuvars, lock, spin, reg, procvars, cons, tx, uart, ssip,
                 ticks, panicked>>

\* No input yet: sleep, or return -1.
consoleread_sleep(c, p) ==
  /\ At(c, p, "get") /\ cons.r = cons.w /\ ~killed[p]
  /\ sleep(c, p, "cons.r", "cons", "consoleread")
  /\ UNCHANGED <<workload, intrap, spin, reg, n, base, killed, cons, tx, uart, ssip,
                 ticks>>

consoleread_killed(c, p) ==
  /\ At(c, p, "get") /\ cons.r = cons.w /\ killed[p]
  /\ release(c, "cons")
  /\ Return(p)
  /\ UNCHANGED <<workload, proc, saved, intrap, spin, reg, procvars, cons, tx, uart,
                 ssip, ticks>>

ReadChar == cons.buf[cons.r % INPUT_BUF]

\* The next character ends the read: ^D, which stays for the next read if
\* this one has got something; a character that cannot be copied out; the
\* newline, or the last character asked for.
consoleread_end(c, p) ==
  /\ At(c, p, "get") /\ cons.r # cons.w
  /\ cons' = IF ReadChar = "EOF" /\ n[p] < base[p] THEN cons
             ELSE [cons EXCEPT !.r = (@ + 1) % InIndex]
  /\ release(c, "cons")
  /\ Return(p)
  /\ UNCHANGED <<workload, proc, saved, intrap, spin, reg, procvars, tx, uart, ssip,
                 ticks>>

consoleread_char(c, p) ==
  /\ At(c, p, "get") /\ cons.r # cons.w
  /\ ReadChar = "x" /\ n[p] > 1
  /\ cons' = [cons EXCEPT !.r = (@ + 1) % InIndex]
  /\ n' = [n EXCEPT ![p] = @ - 1]
  /\ UNCHANGED <<workload, cpuvars, lock, pc, spin, reg, base, procvars, tx, uart,
                 ssip, ticks, panicked>>

-----------------------------------------------------------------------------
\* The UART (external): a character arrives, a character leaves.
receive(ch) ==
  /\ rx = "none"
  /\ rx' = ch
  /\ irq' = [irq EXCEPT !.pending = TRUE]
  /\ UNCHANGED <<workload, cpuvars, lock, ctxvars, procvars, cons, tx, fifo, ssip,
                 ticks, panicked>>

transmit ==
  /\ fifo # <<>>
  /\ fifo' = Tail(fifo)
  /\ irq' = [irq EXCEPT !.pending = @ \/ Len(fifo) = 1]
  /\ UNCHANGED <<workload, cpuvars, lock, ctxvars, procvars, cons, tx, rx, ssip,
                 ticks, panicked>>

\* devintr(): plic_claim(), which finds nothing when another CPU was faster.
plic_claim(c) ==
  /\ At(c, -c, "claim") /\ irq.pending /\ ~irq.claimed
  /\ irq' = [pending |-> FALSE, claimed |-> TRUE]
  /\ Goto(-c, "getc")
  /\ UNCHANGED <<workload, cpuvars, lock, spin, reg, n, base, procvars, cons, tx,
                 fifo, rx, ssip, ticks, panicked>>

plic_claim_none(c) ==
  /\ At(c, -c, "claim") /\ ~(irq.pending /\ ~irq.claimed)
  /\ Sret(c)
  /\ UNCHANGED <<workload, proc, saved, intrap, lock, spin, reg, n, base, procvars, cons,
                 tx, uart, ssip, ticks, panicked>>

plic_complete(c) ==
  /\ At(c, -c, "complete")
  /\ irq' = [irq EXCEPT !.claimed = FALSE]
  /\ Sret(c)
  /\ UNCHANGED <<workload, proc, saved, intrap, lock, spin, reg, n, base, procvars, cons,
                 tx, fifo, rx, ssip, ticks, panicked>>

\* Mutant: an interrupt that brings no input does not start the output.
uartgetc_only(c) ==
  /\ At(c, -c, "getc")
  /\ reg' = [reg EXCEPT ![-c] = rx]
  /\ rx' = "none"
  /\ Goto(-c, IF rx = "none" THEN "complete" ELSE "consoleintr")
  /\ UNCHANGED <<workload, cpuvars, lock, spin, n, base, procvars, cons, tx, fifo, irq,
                 ssip, ticks, panicked>>

\* uartintr(): the next character for consoleintr(), or on to uartstart().
uartgetc(c) ==
  /\ At(c, -c, "getc")
  /\ reg' = [reg EXCEPT ![-c] = rx]
  /\ rx' = "none"
  /\ Goto(-c, IF rx = "none" THEN "uartintr" ELSE "consoleintr")
  /\ UNCHANGED <<workload, cpuvars, lock, spin, n, base, procvars, cons, tx, fifo,
                 irq, ssip, ticks, panicked>>

-----------------------------------------------------------------------------
\* consoleintr(), cons.lock held: what the key does before it is echoed.
\* The echo of an erased character is three characters; one stands for the
\* list of processes that ^P prints.
consoleintr(c) ==
  LET ch == reg[-c]
      Echo(k) == Goto(-c, "echo") /\ n' = [n EXCEPT ![-c] = k]
      erases == /\ cons.e # cons.w
                /\ ch = "KILL" => cons.buf[(cons.e - 1) % INPUT_BUF] # "NL"
      stores == ch \in Stored /\ (cons.e - cons.r) % InIndex < INPUT_BUF
  IN /\ At(c, -c, "intr")
     /\ \/ /\ ch \in {"ERASE", "KILL"} /\ erases
           /\ cons' = [cons EXCEPT !.e = (@ - 1) % InIndex]
           /\ Echo(3)
           /\ UNCHANGED <<cpu, lock, panicked>>
        \/ /\ ch = "PS" \/ stores
           /\ Echo(1)
           /\ UNCHANGED <<cpu, lock, cons, panicked>>
        \/ /\ ~(ch = "PS" \/ stores \/ (ch \in {"ERASE", "KILL"} /\ erases))
           /\ Goto(-c, "getc")
           /\ release(c, "cons")
           /\ UNCHANGED <<n, cons>>
     /\ UNCHANGED <<workload, proc, saved, intrap, spin, reg, base, procvars, tx,
                    uart, ssip, ticks>>

\* consputc(): uartputc_sync() for each character of the echo, which takes
\* no lock.  It finds the UART idle, and then stores into THR.
uartputc_sync(c) ==
  /\ At(c, -c, "echo") /\ ~panicked
  /\ fifo = <<>>
  /\ cpu' = [cpu EXCEPT ![c] = push_off(@)]
  /\ Goto(-c, "echo_thr")
  /\ UNCHANGED <<workload, proc, saved, intrap, lock, spin, reg, n, base, procvars, cons,
                 tx, uart, ssip, ticks, panicked>>

uartputc_sync_thr(c) ==
  /\ At(c, -c, "echo_thr")
  /\ WriteTHR(ECHO)
  /\ cpu' = [cpu EXCEPT ![c] = pop_off(@)]
  /\ panicked' = (panicked \/ pop_off_panics(cpu[c]))
  /\ n' = [n EXCEPT ![-c] = @ - 1]
  /\ Goto(-c, IF n[-c] > 1 THEN "echo"
              ELSE IF reg[-c] = "KILL" THEN "intr" ELSE "echoed")
  /\ UNCHANGED <<workload, proc, saved, intrap, lock, spin, reg, base, procvars, cons, tx,
                 rx, irq, ssip, ticks>>

\* The character is stored, and readers are woken when it completes a line.
\* Mutants: a full buffer is given to readers without waking them; w is set
\* before e is advanced.
e1 == (cons.e + 1) % InIndex
Completes(ch) == ch \in {"NL", "EOF"} \/ e1 = (cons.r + INPUT_BUF) % InIndex

store_silent(ch) ==
  /\ cons' = [cons EXCEPT !.buf[cons.e % INPUT_BUF] = ch, !.e = e1,
                          !.w = IF Completes(ch) THEN e1 ELSE @]
  /\ IF ch = "x" THEN UNCHANGED chan ELSE wakeup("cons.r")


store(ch) ==
  /\ cons' = [cons EXCEPT !.buf[cons.e % INPUT_BUF] = ch, !.e = e1,
                          !.w = IF Completes(ch) THEN e1 ELSE @]
  /\ IF Completes(ch) THEN wakeup("cons.r") ELSE UNCHANGED chan

\* What follows the echo, and release().
consoleintr_end(c) ==
  /\ At(c, -c, "echoed")
  /\ IF reg[-c] \in Stored THEN store(reg[-c]) ELSE UNCHANGED <<cons, chan>>
  /\ release(c, "cons")
  /\ Goto(-c, "getc")
  /\ UNCHANGED <<workload, proc, saved, intrap, spin, reg, n, base, killed, tx, uart,
                 ssip, ticks>>

-----------------------------------------------------------------------------
Syscalls(c, p) ==
  \/ consolewrite(c, p)
  \/ \E k \in ReadSizes : consoleread(c, p, k)
  \/ \E m \in SleepArgs : sys_sleep(c, p, m)

\* What a CPU does next of its own accord.
ProcStep(c, p) ==
  \/ trap_return(c, p) \/ exit(c, p)
  \/ sleep_ticks0(c, p) \/ sleep_wait(c, p) \/ sleep_done(c, p)
  \/ uartputc_sleep(c, p) \/ uartputc(c, p)
  \/ consoleread_sleep(c, p) \/ consoleread_killed(c, p)
  \/ consoleread_end(c, p) \/ consoleread_char(c, p)

HandlerStep(c) ==
  \/ clockintr(c) \/ timer_yield(c) \/ timer_idle(c)
  \/ plic_claim(c) \/ plic_claim_none(c) \/ plic_complete(c)
  \/ uartgetc(c) \/ consoleintr(c) \/ consoleintr_end(c)
  \/ uartputc_sync(c) \/ uartputc_sync_thr(c)

UartStep(c, x) == uartstart(c, x) \/ uartstart_thr(c, x) \/ uartstart_done(c, x)

CpuStep(c) ==
  \/ HandlerStep(c)
  \/ \E p \in workload.procs : ProcStep(c, p)
  \/ \E x \in Ctxs : acquire(c, x) \/ UartStep(c, x)

Interrupts(c) == \E at \in {"claim", "clockintr", "timer"} : interrupt(c, at)

Next ==
  \/ \E c \in workload.cpus :
       \/ CpuStep(c) \/ Interrupts(c) \/ timervec(c) \/ intr_on(c)
       \/ \E x \in Ctxs : acquire_spin(c, x)
       \/ \E p \in workload.procs : scheduler(c, p) \/ Syscalls(c, p)
  \/ \E p \in workload.procs : kill(p)
  \/ \E ch \in workload.typed : receive(ch)
  \/ transmit

Spec == Init /\ [][Next]_vars

-----------------------------------------------------------------------------
\* No CPU is interrupted where it must not be (spinlock.c, trap.c, sched()):
\* none of the panics of acquire(), release(), pop_off() and sched() is
\* reached; interrupts are off while a CPU holds or waits for a lock, and in
\* a trap, including a trap that yield() left and came back to on another
\* CPU; and they are on again when a process executes without a lock.
InterruptsAsNested ==
  /\ ~panicked
  /\ \A c \in Cpus :
       LET x == IF pc[-c] # "none" THEN -c ELSE proc[c] IN
         /\ cpu[c].noff > 0 => ~cpu[c].sie
         /\ x < 0 => ~cpu[c].sie
         /\ x > 0 => (cpu[c].sie <=> cpu[c].noff = 0 /\ ~intrap[x])
         /\ \A l \in Locks : lock[l] = c => cpu[c].noff > 0

\* Characters written to the console leave the UART in the order they were
\* written and none is lost, although the echo of typed characters is stored
\* into THR without uart_tx_lock (uart.c): those in the FIFO, the one a CPU
\* is about to store, and those in uart_tx_buf are consecutive.
Written ==
  LET Number(ch) == ch # ECHO
      held == {x \in Ctxs : pc[x] = "thr"}
      count == (tx.w - tx.r) % TxIndex
  IN SelectSeq(fifo, Number)
       \o (IF held = {} THEN <<>> ELSE <<reg[CHOOSE x \in held : TRUE]>>)
       \o [i \in 1..count |-> tx.buf[(tx.r + i - 1) % UART_TX_BUF_SIZE]]


\* A process sleeps in consoleread(), uartputc() or sys_sleep() only while
\* what it waits for has not happened: no wakeup() comes too early to find
\* it, however the steps of CPUs and handlers interleave.
SleepersMustWait ==
  \A p \in Procs :
    /\ chan[p] = "cons.r" => cons.r = cons.w
    /\ chan[p] = "uart_tx_r" => TxFull
    /\ chan[p] = "ticks" => Elapsed(p) < n[p]

\* cons.buf with its three wrapping indices is the editable line and the
\* queue of completed input that LineDiscipline describes: no character is
\* overwritten, read twice, or erased once its line is complete.
Slice(a, b) ==
  [i \in 1..((b - a) % InIndex) |-> cons.buf[(a + i - 1) % INPUT_BUF]]

Lines == INSTANCE LineDiscipline
           WITH Chars <- Stored, Enders <- {"NL", "EOF"}, Capacity <- INPUT_BUF,
                input <- Slice(cons.r, cons.w), edit <- Slice(cons.w, cons.e)


\* Characters left in uart_tx_buf do not wait for the next write(): while
\* there are any, the UART is sending and will interrupt, its interrupt is
\* pending, or some CPU is on its way to (another turn of) uartstart().  The
\* interrupt handler must not miss the moment the UART falls idle.
OutputNeverStalls ==
  tx.w # tx.r =>
    \/ fifo # <<>> \/ irq.pending
    \/ \E x \in Ctxs :
         pc[x] \in {"getc", "consoleintr", "intr", "echo", "echo_thr", "echoed",
                    "uartintr", "uartstart", "thr"}
=============================================================================
