------------------------------ MODULE Filters -------------------------------
(***************************************************************************)
(* Two programs that read their input in pieces: grep (user/grep.c), with  *)
(* its matcher, and wc (user/wc.c).  A read() returns as much as is there: *)
(* of a pipe, whatever the writer has written so far, so that a piece ends *)
(* anywhere in a line or a word.                                           *)
(*                                                                         *)
(* Text is a sequence of characters.  sizes are the sizes of the pieces    *)
(* that come, in turn; read() gives no more than there is room for.        *)
(***************************************************************************)
EXTENDS Naturals, Sequences, FiniteSets

CONSTANT BUFSIZE    \* sizeof(buf) of grep

NL == "\n"
Spaces == {" ", NL}

Fewest(S) == CHOOSE x \in S : \A y \in S : x <= y
Rotate(sizes) == Append(Tail(sizes), Head(sizes))
From(s, i) == SubSeq(s, i, Len(s))

-----------------------------------------------------------------------------
\* The matcher: re from position r on, text from position t on.
RECURSIVE matchhere(_, _, _, _)
RECURSIVE matchstar(_, _, _, _, _)
AtEnd(s, i) == i > Len(s)

matchstar(c, re, r, text, t) ==
  \/ matchhere(re, r, text, t)
  \/ ~AtEnd(text, t) /\ c \in {text[t], "."} /\ matchstar(c, re, r, text, t + 1)

matchhere(re, r, text, t) ==
  IF AtEnd(re, r) THEN TRUE
  ELSE IF r < Len(re) /\ re[r + 1] = "*" THEN matchstar(re[r], re, r + 2, text, t)
  ELSE IF re[r] = "$" /\ r = Len(re) THEN AtEnd(text, t)
  ELSE ~AtEnd(text, t) /\ re[r] \in {text[t], "."} /\ matchhere(re, r + 1, text, t + 1)

match(re, text) ==
  IF re # <<>> /\ re[1] = "^" THEN matchhere(re, 2, text, 1)
  ELSE \E t \in 1..Len(text) + 1 : matchhere(re, 1, text, t)

\* The inner loop of grep(): the lines in buf, and what is left behind them.
RECURSIVE Lines(_, _, _)
LineAt(re, buf, out, q) ==
  Lines(re, From(buf, q + 1), IF match(re, SubSeq(buf, 1, q - 1)) THEN out \o SubSeq(buf, 1, q) ELSE out)
Newlines(buf) == {q \in DOMAIN buf : buf[q] = NL}
Lines(re, buf, out) ==
  IF Newlines(buf) = {} THEN [buf |-> buf, out |-> out]
  ELSE LineAt(re, buf, out, Fewest(Newlines(buf)))

\* The loop of grep(): s is [buf, out]; a read() of 0 bytes ends it.
RECURSIVE grep(_, _, _, _)
AfterRead(re, s, in, sizes, n) ==
  IF n = 0 THEN s.out
  ELSE grep(re, Lines(re, s.buf \o SubSeq(in, 1, n), s.out), From(in, n + 1), Rotate(sizes))
grep(re, s, in, sizes) ==
  AfterRead(re, s, in, sizes, Fewest({Head(sizes), Len(in), BUFSIZE - Len(s.buf) - 1}))

\* The loop of wc(): s is [l, w, c, inword].
Count(s, ch) ==
  [l |-> IF ch = NL THEN s.l + 1 ELSE s.l,
   w |-> IF ch \notin Spaces /\ ~s.inword THEN s.w + 1 ELSE s.w,
   c |-> s.c + 1, inword |-> ch \notin Spaces]

RECURSIVE CountAll(_, _)
CountAll(s, buf) == IF buf = <<>> THEN s ELSE CountAll(Count(s, Head(buf)), Tail(buf))

RECURSIVE wc(_, _, _)
WcRead(s, in, sizes, n) ==
  IF n = 0 THEN s ELSE wc(CountAll(s, SubSeq(in, 1, n)), From(in, n + 1), Rotate(sizes))
wc(s, in, sizes) == WcRead(s, in, sizes, Fewest({Head(sizes), Len(in)}))

-----------------------------------------------------------------------------
\* Reference for the matcher: the positions the text may be at once re has
\* been consumed from position r on, all of them at a time.
RECURSIVE Ends(_, _, _, _)
Ends(re, r, text, at) ==
  IF AtEnd(re, r) THEN at
  ELSE IF r < Len(re) /\ re[r + 1] = "*"
  THEN Ends(re, r + 2, text,
         {u \in 1..Len(text) + 1 : \E t \in at : t <= u /\ \A i \in t..u-1 : re[r] \in {text[i], "."}})
  ELSE IF r = Len(re) /\ re[r] = "$" THEN at \cap {Len(text) + 1}
  ELSE Ends(re, r + 1, text, {t + 1 : t \in {u \in at : u <= Len(text) /\ re[r] \in {text[u], "."}}})

MatchRight(re, text) ==
  match(re, text) <=>
    IF re # <<>> /\ re[1] = "^" THEN Ends(re, 2, text, {1}) # {}
    ELSE Ends(re, 1, text, 1..Len(text) + 1) # {}

\* The lines of the input that end, up to one that does not fit the buffer,
\* and those of them that match.
RECURSIVE Kept(_, _)
KeptLine(re, in, q) ==
  IF q > BUFSIZE - 1 THEN <<>>
  ELSE (IF match(re, SubSeq(in, 1, q - 1)) THEN SubSeq(in, 1, q) ELSE <<>>) \o Kept(re, From(in, q + 1))
Kept(re, in) == IF Newlines(in) = {} THEN <<>> ELSE KeptLine(re, in, Fewest(Newlines(in)))

\* In whatever pieces the input comes, grep writes those lines, complete and
\* in order, and wc counts the words of the whole.
GrepRight(re, in, sizes) == grep(re, [buf |-> <<>>, out |-> <<>>], in, sizes) = Kept(re, in)

WordStarts(in) == {i \in DOMAIN in : in[i] \notin Spaces /\ (i = 1 \/ in[i - 1] \in Spaces)}
WcRight(in, sizes) ==
  LET s == wc([l |-> 0, w |-> 0, c |-> 0, inword |-> FALSE], in, sizes)
  IN s.l = Cardinality(Newlines(in)) /\ s.w = Cardinality(WordStarts(in)) /\ s.c = Len(in)
=============================================================================
