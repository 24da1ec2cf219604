----------------------------- MODULE MCSignals ------------------------------
(* Signals with the three special signals and signal 31.                   *)
EXTENDS Signals

MCSigs == {SIGKILL, SIGSTOP, SIGCONT, 31}
MCMasks == {{}, {SIGSTOP, 31}}
=============================================================================
