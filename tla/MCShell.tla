------------------------------- MODULE MCShell ------------------------------
EXTENDS Shell

\* e is echo, c is cat; x is no program.
Session(n, lines) == [procs |-> n, lines |-> lines]

\* The sessions: e a|c and c<f>f   (e a;x)|c   e a|e a|c and |) and cd   e a|c&
MCSessions ==
  {Session(5, {<<"e", " ", "a", "|", "c">>, <<"c", "<", "f", ">", "f">>}),
   Session(6, {<<"(", "e", " ", "a", ";", "x", ")", "|", "c">>}),
   Session(6, {<<"e", " ", "a", "|", "e", " ", "a", "|", "c">>, <<"|", ")">>, <<"cd">>}),
   Session(4, {<<"e", " ", "a", "|", "c", "&">>})}

\* Every line of up to MaxLine characters.
MaxLine == 5
Alphabet == {"a", " "} \union Symbols
AllLines == UNION {[1..n -> Alphabet] : n \in 0..MaxLine}
AllParseRight == \A line \in AllLines : ParsesRight(line)

\* At the prompt, whatever line is typed, the shell's parser is right (see
\* ParsesRight): parsecmd() takes exactly the lines of the language and
\* builds a command with the words, redirections and operators of the line.
ParserRight == (\E q \in Procs : Calls(q, "getcmd")) => AllParseRight

\* The texts and patterns for grep and wc; pieces of two sizes in turn.
F == INSTANCE Filters WITH BUFSIZE <- 5
UpTo(n, S) == UNION {[1..k -> S] : k \in 0..n}
Sizes == (1..4) \X (1..4)
AllFilterRight ==
  /\ \A re \in UpTo(4, {"a", ".", "*", "^", "$"}), text \in UpTo(3, {"a", "b", "*", "$"}) :
       F!MatchRight(re, text)
  /\ \A re \in {<<"a">>, <<>>, <<"^", "b", "$">>}, in \in UpTo(6, {"a", "b", F!NL}), z \in Sizes :
       F!GrepRight(re, in, z)
  /\ \A in \in UpTo(6, {"a", " ", F!NL}), z \in Sizes : F!WcRight(in, z)

\* A heap of 10 headers that grows by 3, and blocks of 2 to 4 of them.
H == INSTANCE Umalloc WITH NALLOC <- 3, MaxHeap <- 10
AllHeapRight == H!HeapsRight({H!NoHeap}, 2..4, 7)

\* All numbers of 8 bits, and formats of up to 5 characters.
P == INSTANCE Printf WITH BITS <- 8
AllPrintRight ==
  /\ \A xx \in -128..127, base \in {10, 16}, sign \in BOOLEAN : P!IntRight(xx, base, sign)
  /\ \A x \in 0..255 : P!PtrRight(x)
  /\ \A fmt \in UpTo(5, {"%", "d", "x", "p", "s", "z"}), s \in {P!Null, <<"h", "i">>} :
       P!FormatRight(fmt, -128, s, 171)

\* What the programs do between system calls is right.  grep, which reads a
\* pipe in pieces that end anywhere, writes exactly the lines that match, and
\* wc counts the words of the whole.  After every sequence of malloc() and
\* free(), with an sbrk() that may fail, the blocks of the program and of the
\* free list are disjoint and are the whole heap, free neighbours are joined,
\* and malloc() fails only if there is no room.  The printf()s of kernel and
\* user library print every number, the most negative one, too, and every
\* argument at its directive.
ProgramsRight ==
  (\E q \in Procs : Calls(q, "catread")) => AllFilterRight /\ AllHeapRight /\ AllPrintRight
=============================================================================
