------------------------------ MODULE MCConsole -----------------------------
EXTENDS Console

Work(cpus, procs, calls, typed, timer) ==
  [cpus |-> cpus, procs |-> procs, calls |-> calls, typed |-> typed, timer |-> timer]

\* A reader while lines are edited, or ended by ^D, on one CPU; a reader and
\* the interrupts on two; two writers; a writer beside characters that are
\* echoed; a sleeper that the timer also interrupts.
MCWorkloads ==
  {Work({1}, {1}, {"read"}, {"x", "NL", "ERASE", "KILL", "NUL"}, FALSE),
   Work({1}, {1}, {"read", "kill"}, {"x", "EOF", "PS"}, FALSE),
   Work({1, 2}, {1}, {"read"}, {"x"}, FALSE),
   Work({1, 2}, {1, 2}, {"write"}, {}, FALSE),
   Work({1, 2}, {1}, {"write"}, {"x"}, FALSE),
   Work({1, 2}, {1}, {"sleep", "kill"}, {}, TRUE)}

MCSleepArgs == {1, -1}
=============================================================================
