------------------------------- MODULE MCPipe -------------------------------
(* Pipe with a buffer of two bytes and counters that wrap around at four:  *)
(* a writer and two readers.                                               *)
EXTENDS Pipe

MCProcs == 1..3
MCInitHeld == <<{"write"}, {"read"}, {"read"}>>
=============================================================================
