-------------------------------- MODULE MCLog --------------------------------
(* Log with room for two operations of two blocks each.                    *)
EXTENDS Log

MCInitDisk == [b \in Blocks |-> 0]
=============================================================================
