------------------------------- MODULE MCBsem -------------------------------
(* Bsem with three processes, two slots and two identifiers.               *)
EXTENDS Bsem
=============================================================================
