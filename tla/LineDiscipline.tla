--------------------------- MODULE LineDiscipline ---------------------------
(***************************************************************************)
(* What the console promises a reader (the comment at the head of          *)
(* kernel/console.c): the characters typed since the last complete line    *)
(* can still be edited; a newline, an end of file or a full buffer turns   *)
(* them into input; input is read in the order it was typed, once.         *)
(***************************************************************************)
EXTENDS Naturals, Sequences, SequencesExt

CONSTANTS
  Chars,      \* what can be typed and stored
  Enders,     \* the characters among them that complete a line
  Capacity    \* how many characters are held at most

VARIABLES
  input,      \* complete: what readers get, oldest first
  edit        \* the line being typed

Init == input = <<>> /\ edit = <<>>

\* A typed character joins the line and, at its end, completes it.
Type(c) ==
  /\ Len(input) + Len(edit) < Capacity
  /\ IF c \in Enders \/ Len(input) + Len(edit) + 1 = Capacity
     THEN input' = input \o Append(edit, c) /\ edit' = <<>>
     ELSE edit' = Append(edit, c) /\ UNCHANGED input

\* Backspace, and every step of killing the line.
Erase == edit # <<>> /\ edit' = Front(edit) /\ UNCHANGED input

Read == input # <<>> /\ input' = Tail(input) /\ UNCHANGED edit

Next == Erase \/ Read \/ \E c \in Chars : Type(c)

Spec == Init /\ [][Next]_<<input, edit>>
=============================================================================
