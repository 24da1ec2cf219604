------------------------------ MODULE ByteQueue ------------------------------
(***************************************************************************)
(* What a pipe promises (kernel/pipe.c): a bounded first-in first-out      *)
(* queue of bytes between the holders of its two ends.  Bytes go in only   *)
(* while the read end is open, each comes out once and in order, and an    *)
(* end that is closed stays closed.                                        *)
(***************************************************************************)
EXTENDS Naturals, Sequences

CONSTANTS
  Capacity,   \* how many bytes the queue holds
  Bytes       \* the values of a byte

VARIABLES
  queue,      \* the bytes written and not yet read
  last,       \* the byte taken out last
  readable, writable   \* which ends are open

qvars == <<queue, last, readable, writable>>

QInit ==
  /\ queue = <<>>
  /\ last \in Bytes
  /\ readable = TRUE
  /\ writable = TRUE

Put(b) ==
  /\ readable
  /\ Len(queue) < Capacity
  /\ queue' = Append(queue, b)
  /\ UNCHANGED <<last, readable, writable>>

Get ==
  /\ queue # <<>>
  /\ queue' = Tail(queue)
  /\ last' = Head(queue)
  /\ UNCHANGED <<readable, writable>>

CloseRead == readable' = FALSE /\ UNCHANGED <<queue, last, writable>>
CloseWrite == writable' = FALSE /\ UNCHANGED <<queue, last, readable>>

QNext == (\E b \in Bytes : Put(b)) \/ Get \/ CloseRead \/ CloseWrite

QSpec == QInit /\ [][QNext]_qvars
=============================================================================
